-------------------------- MODULE NoteTabs_proofs --------------------------
(***************************************************************************)
(* Who owns the sessions that the core has open, and what the snapshot of  *)
(* them names, for every number of Notes and every interleaving of         *)
(* gestures, opens, closes, restoration, batches of closes and operations: *)
(* SessionsMatchTabs, ExitHonoured and SnapshotNamesTabs.                  *)
(*                                                                         *)
(* They leave out the six situations of Disowning, each with a trace that  *)
(* breaks the first of them (see the README), and the last also leaves out *)
(* the batch that could not write its snapshot. TypeOK and what the exit   *)
(* says of the snapshot leave out nothing.                                 *)
(***************************************************************************)
EXTENDS NoteTabs, SequenceTheorems, WellFoundedInduction, TLAPS

-----------------------------------------------------------------------------
(* Sequences. What `Without` leaves is proved by a least counterexample: a   *)
(* first length at which no function fits its recursion would extend the one *)
(* before.                                                                   *)

(* No element comes twice.                                                   *)
Distinct(s) == \A i, j \in DOMAIN s : s[i] = s[j] => i = j

LEMMA Smallest ==
    ASSUME NEW S \in SUBSET Nat, S # {}
    PROVE  \E n \in S : \A m \in S : n <= m
<1> DEFINE R == {p \in Nat \X Nat : p[1] < p[2]}
<1>1. IsWellFoundedOn(R, Nat)
  <2>1. R = OpToRel(<, Nat)
    BY DEF OpToRel
  <2> QED
    BY <2>1, NatLessThanWellFounded, Zenon
<1>2. \E n \in S : \A m \in S : <<m, n>> \notin R
  <2> HIDE DEF R
  <2> QED
    BY <1>1, WFMin
<1>3. PICK n \in S : \A m \in S : <<m, n>> \notin R
  BY <1>2
<1>4. ASSUME NEW m \in S PROVE n <= m
  <2>1. ~(m < n)
    BY <1>3
  <2> QED
    BY <2>1
<1> QED
  BY <1>4

(* `f` follows the recursion of `Without` up to n.                           *)
IsLeft(f, s, gone, n) ==
    f = [i \in 0..n |-> IF i = 0 THEN <<>>
                        ELSE IF s[i] \in gone THEN f[i - 1] ELSE Append(f[i - 1], s[i])]

LEMMA LeftExists ==
    ASSUME NEW s, NEW gone, NEW k \in Nat
    PROVE  \E f : IsLeft(f, s, gone, k)
<1> DEFINE Bad == {n \in Nat : ~\E f : IsLeft(f, s, gone, n)}
<1>1. 0 \notin Bad
  <2>1. IsLeft([i \in 0..0 |-> <<>>], s, gone, 0)
    BY DEF IsLeft
  <2> QED
    BY <2>1
<1>2. ASSUME NEW n \in Nat, n \notin Bad PROVE n + 1 \notin Bad
  <2>1. PICK f : IsLeft(f, s, gone, n)
    BY <1>2
  <2> DEFINE g == [i \in 0..(n + 1) |-> IF i = n + 1
                    THEN IF s[i] \in gone THEN f[n] ELSE Append(f[n], s[i]) ELSE f[i]]
  <2>2. ASSUME NEW i \in 0..(n + 1)
        PROVE  g[i] = IF i = 0 THEN <<>>
                      ELSE IF s[i] \in gone THEN g[i - 1] ELSE Append(g[i - 1], s[i])
    <3>1. CASE i = n + 1
      BY <3>1, <2>1
    <3>2. CASE i # n + 1
      <4>1. i \in 0..n /\ (i # 0 => i - 1 \in 0..n /\ g[i - 1] = f[i - 1]) /\ g[i] = f[i]
        BY <3>2
      <4>2. f[i] = IF i = 0 THEN <<>>
                   ELSE IF s[i] \in gone THEN f[i - 1] ELSE Append(f[i - 1], s[i])
        BY <4>1, <2>1 DEF IsLeft
      <4> QED
        BY <4>1, <4>2
    <3> QED
      BY <3>1, <3>2
  <2>3. DOMAIN g = 0..(n + 1) /\ g = [i \in 0..(n + 1) |-> g[i]]
    OBVIOUS
  <2> HIDE DEF g
  <2>4. IsLeft(g, s, gone, n + 1)
    BY <2>2, <2>3 DEF IsLeft
  <2> QED
    BY <2>4
<1>3. Bad = {}
  <2>1. SUFFICES ASSUME Bad # {} PROVE FALSE
    OBVIOUS
  <2>2. Bad \in SUBSET Nat
    OBVIOUS
  <2> HIDE DEF Bad
  <2>3. PICK n \in Bad : \A m \in Bad : n <= m
    BY <2>1, <2>2, Smallest
  <2>4. n - 1 \in Nat /\ n - 1 \notin Bad /\ n = (n - 1) + 1
    BY <1>1, <2>2, <2>3
  <2>5. PICK m \in Nat : m \notin Bad /\ n = m + 1
    BY <2>4
  <2> QED
    BY <1>2, <2>3, <2>5
<1> QED
  BY <1>3

LEMMA WithoutFacts ==
    ASSUME NEW D, NEW s \in Seq(D), NEW gone
    PROVE  /\ Without(s, gone) \in Seq(D)
           /\ Range(Without(s, gone)) = Range(s) \ gone
           /\ Distinct(s) => Distinct(Without(s, gone))
<1> DEFINE f == CHOOSE f : IsLeft(f, s, gone, Len(s))
<1>0. Len(s) \in Nat /\ DOMAIN s = 1..Len(s) /\ \A i \in 1..Len(s) : s[i] \in D
  OBVIOUS
<1>1. IsLeft(f, s, gone, Len(s))
  BY <1>0, LeftExists
<1>2. Without(s, gone) = f[Len(s)]
  BY DEF Without, IsLeft
<1> HIDE DEF f
<1>3. f[0] = <<>>
  BY <1>0, <1>1 DEF IsLeft
<1>4. ASSUME NEW n \in 1..Len(s)
      PROVE  f[n] = IF s[n] \in gone THEN f[n - 1] ELSE Append(f[n - 1], s[n])
  <2>1. n \in 0..Len(s) /\ n # 0
    BY <1>0
  <2> DEFINE e(i) == IF i = 0 THEN <<>>
                     ELSE IF s[i] \in gone THEN f[i - 1] ELSE Append(f[i - 1], s[i])
  <2>2. f = [i \in 0..Len(s) |-> e(i)]
    BY <1>1 DEF IsLeft
  <2>3. f[n] = e(n)
    <3> HIDE DEF e
    <3> QED
      BY <2>1, <2>2
  <2> QED
    BY <2>1, <2>3
<1> DEFINE Good(n) == /\ f[n] \in Seq(D)
                      /\ Range(f[n]) = {s[i] : i \in 1..n} \ gone
                      /\ Distinct(s) => Distinct(f[n])
           Bad == {n \in 0..Len(s) : ~Good(n)}
<1>5. Good(0)
  BY <1>3 DEF Range, Distinct
<1>6. ASSUME NEW n \in 1..Len(s), Good(n - 1) PROVE Good(n)
  <2>1. {s[i] : i \in 1..n} = {s[i] : i \in 1..(n - 1)} \cup {s[n]}
    BY <1>0
  <2>2. CASE s[n] \in gone
    BY <1>0, <1>4, <2>1, <2>2, <1>6
  <2>3. CASE s[n] \notin gone
    <3>1. f[n - 1] \in Seq(D) /\ s[n] \in D /\ f[n] = Append(f[n - 1], s[n])
      BY <1>0, <1>4, <1>6, <2>3
    <3>2. /\ f[n] \in Seq(D) /\ Len(f[n]) = Len(f[n - 1]) + 1 /\ f[n][Len(f[n])] = s[n]
          /\ \A i \in 1..Len(f[n - 1]) : f[n][i] = f[n - 1][i]
      BY <3>1, AppendProperties
    <3>3. /\ DOMAIN f[n] = 1..Len(f[n - 1]) \cup {Len(f[n])} /\ DOMAIN f[n - 1] = 1..Len(f[n - 1])
          /\ Len(f[n]) \notin 1..Len(f[n - 1])
      BY <3>1, <3>2
    <3>4. Range(f[n]) = Range(f[n - 1]) \cup {s[n]}
      BY SMTT(30), <3>2, <3>3 DEF Range
    <3>5. ASSUME Distinct(s) PROVE Distinct(f[n])
      <4>1. s[n] \notin {s[i] : i \in 1..(n - 1)}
        BY <1>0, <3>5 DEF Distinct
      <4>2. s[n] \notin Range(f[n - 1]) /\ Distinct(f[n - 1])
        BY <4>1, <3>5, <1>6
      <4>3. \A i \in 1..Len(f[n - 1]) : f[n][i] \in Range(f[n - 1])
        BY <3>2, <3>3 DEF Range
      <4> QED
        BY <3>2, <3>3, <4>2, <4>3 DEF Distinct
    <3> QED
      BY <2>1, <2>3, <1>6, <3>2, <3>4, <3>5
  <2> QED
    BY <2>2, <2>3
<1>7. Bad = {}
  <2>1. SUFFICES ASSUME Bad # {} PROVE FALSE
    OBVIOUS
  <2>2. Bad \in SUBSET Nat
    BY <1>0
  <2>3. PICK n \in Bad : \A m \in Bad : n <= m
    <3> HIDE DEF Bad
    <3> QED
      BY <2>1, <2>2, Smallest
  <2> HIDE DEF Good
  <2>4. n \in 1..Len(s) /\ n - 1 \in 0..Len(s) /\ n - 1 \notin Bad
    BY <1>0, <1>5, <2>3
  <2> QED
    BY <1>6, <2>3, <2>4
<1>8. Good(Len(s))
  <2>1. Len(s) \in 0..Len(s)
    BY <1>0
  <2> HIDE DEF Good
  <2> QED
    BY <1>7, <2>1
<1> QED
  BY <1>0, <1>2, <1>8 DEF Range

-----------------------------------------------------------------------------
(* Tabs. `Looks` is what the invariant asks of them: which are there, which  *)
(* are retained and which is active.                                         *)

Id == Notes \cup {None}
UIType ==
    [tabs : Seq(Notes), active : Id, selected : Id, retained : SUBSET Notes,
     open : SUBSET Notes, last : Id]

Looks(v, shows, owed, active) ==
    /\ v \in UIType /\ Distinct(v.tabs)
    /\ Tabs(v) = shows /\ v.retained = owed /\ v.active = active

LEMMA Fields ==
    ASSUME NEW u \in UIType
    PROVE  /\ \A x \in Id : [u EXCEPT !.active = x] \in UIType /\ [u EXCEPT !.selected = x] \in UIType
                            /\ [u EXCEPT !.last = x] \in UIType
           /\ \A S \in SUBSET Notes : [u EXCEPT !.retained = S] \in UIType /\ [u EXCEPT !.open = S] \in UIType
           /\ \A t \in Seq(Notes) : [u EXCEPT !.tabs = t] \in UIType
BY DEF UIType

LEMMA LastType ==
    ASSUME NEW u \in UIType
    PROVE  /\ u.tabs \in Seq(Notes) /\ u.active \in Id /\ u.selected \in Id /\ u.retained \in SUBSET Notes
           /\ u.open \in SUBSET Notes /\ u.last \in Id /\ Tabs(u) \in SUBSET Notes
           /\ None \notin Notes
BY NotesAssumption DEF UIType, Tabs, Range

LEMMA Joined ==
    ASSUME NEW D, NEW s \in Seq(D), NEW t \in Seq(D)
    PROVE  /\ s \o t \in Seq(D)
           /\ Range(s \o t) = Range(s) \cup Range(t)
           /\ Distinct(s) /\ Distinct(t) /\ Range(s) \cap Range(t) = {} => Distinct(s \o t)
<1>1. /\ s \o t \in Seq(D) /\ Len(s \o t) = Len(s) + Len(t) /\ Len(s) \in Nat /\ Len(t) \in Nat
      /\ DOMAIN s = 1..Len(s) /\ DOMAIN t = 1..Len(t) /\ DOMAIN (s \o t) = 1..(Len(s) + Len(t))
  OBVIOUS
<1>2. \A i \in 1..Len(s) : (s \o t)[i] = s[i]
  OBVIOUS
<1>3. \A i \in 1..Len(t) : (s \o t)[Len(s) + i] = t[i]
  OBVIOUS
<1>4. \A i \in 1..(Len(s) + Len(t)) : i \in 1..Len(s) \/ (i - Len(s) \in 1..Len(t) /\ i = Len(s) + (i - Len(s)))
  BY <1>1
<1>5. \A i \in 1..(Len(s) + Len(t)) : i \in 1..Len(s) \/ \E j \in 1..Len(t) : i = Len(s) + j
  BY <1>4
<1>6. \A j \in 1..Len(t) : Len(s) + j \in 1..(Len(s) + Len(t))
  BY <1>1
<1>7. \A i \in 1..Len(s) : i \in 1..(Len(s) + Len(t))
  BY <1>1
<1>8. Range(s \o t) = Range(s) \cup Range(t)
  <2> DEFINE r == s \o t
  <2> HIDE DEF r
  <2>1. \A x \in Range(r) : x \in Range(s) \cup Range(t)
    BY SMTT(30), <1>1, <1>2, <1>3, <1>5 DEF Range, r
  <2>2. \A x \in Range(s) : x \in Range(r)
    BY <1>1, <1>2, <1>7 DEF Range, r
  <2>3. \A x \in Range(t) : x \in Range(r)
    BY <1>1, <1>3, <1>6 DEF Range, r
  <2> QED
    BY <2>1, <2>2, <2>3 DEF r
<1>9. ASSUME Distinct(s), Distinct(t), Range(s) \cap Range(t) = {} PROVE Distinct(s \o t)
  <2> SUFFICES ASSUME NEW i \in 1..(Len(s) + Len(t)), NEW j \in 1..(Len(s) + Len(t)),
                      (s \o t)[i] = (s \o t)[j]
               PROVE  i = j
    BY <1>1 DEF Distinct
  <2>1. (\A k \in 1..Len(s) : s[k] \in Range(s)) /\ (\A k \in 1..Len(t) : t[k] \in Range(t))
    BY <1>1 DEF Range
  <2>2. CASE i \in 1..Len(s) /\ j \in 1..Len(s)
    BY <2>2, <1>1, <1>2, <1>9 DEF Distinct
  <2>3. CASE i \in 1..Len(s) /\ j \notin 1..Len(s)
    BY SMTT(30), <2>3, <2>1, <1>2, <1>3, <1>5, <1>9
  <2>4. CASE i \notin 1..Len(s) /\ j \in 1..Len(s)
    BY <2>4, <2>1, <1>2, <1>3, <1>5, <1>9
  <2>5. CASE i \notin 1..Len(s) /\ j \notin 1..Len(s)
    <3>1. PICK k \in 1..Len(t) : i = Len(s) + k
      BY <2>5, <1>5
    <3>2. PICK l \in 1..Len(t) : j = Len(s) + l
      BY <2>5, <1>5
    <3> QED
      BY <3>1, <3>2, <1>1, <1>3, <1>9 DEF Distinct
  <2> QED
    BY <2>2, <2>3, <2>4, <2>5
<1> QED
  BY <1>1, <1>8, <1>9

LEMMA Appended ==
    ASSUME NEW D, NEW s \in Seq(D), NEW x \in D
    PROVE  /\ Append(s, x) \in Seq(D) /\ Append(s, x) # <<>>
           /\ Range(Append(s, x)) = Range(s) \cup {x}
           /\ Distinct(s) /\ x \notin Range(s) => Distinct(Append(s, x))
           /\ \A i \in DOMAIN Append(s, x) :
                 \/ i \in DOMAIN s /\ Append(s, x)[i] = s[i]
                 \/ i = Len(s) + 1 /\ Append(s, x)[i] = x
           /\ s # <<>> => Append(s, x)[1] = s[1]
           /\ s = <<>> => Append(s, x)[1] = x
<1> DEFINE a == Append(s, x)
<1>1. /\ a \in Seq(D) /\ Len(a) = Len(s) + 1 /\ a[Len(a)] = x /\ \A i \in 1..Len(s) : a[i] = s[i]
  BY AppendProperties
<1>2. Len(s) \in Nat /\ DOMAIN s = 1..Len(s) /\ DOMAIN a = 1..(Len(s) + 1) /\ (s # <<>> => 1 \in 1..Len(s)) /\ (s = <<>> => Len(s) = 0)
  BY <1>1
<1> HIDE DEF a
<1>3. DOMAIN a = 1..Len(s) \cup {Len(s) + 1} /\ Len(s) + 1 \notin 1..Len(s)
  BY <1>2
<1>4. Range(a) = Range(s) \cup {x}
  BY <1>1, <1>2, <1>3 DEF Range
<1>5. Distinct(s) /\ x \notin Range(s) => Distinct(a)
  BY <1>1, <1>2, <1>3 DEF Range, Distinct
<1>6. a # <<>>
  BY <1>1, <1>2
<1> QED
  BY <1>1, <1>2, <1>3, <1>4, <1>5, <1>6 DEF a

LEMMA Behind ==
    ASSUME NEW D, NEW s \in Seq(D), s # <<>>
    PROVE  /\ Tail(s) \in Seq(D) /\ Head(s) \in D /\ Head(s) = s[1] /\ 1 \in DOMAIN s /\ Head(s) \in Range(s)
           /\ Range(s) = {Head(s)} \cup Range(Tail(s))
           /\ Distinct(s) => Distinct(Tail(s)) /\ Head(s) \notin Range(Tail(s))
           /\ \A i \in DOMAIN Tail(s) : i + 1 \in DOMAIN s /\ i + 1 # 1 /\ Tail(s)[i] = s[i + 1]
           /\ Len(s) = 1 => Tail(s) = <<>>
           /\ Len(s) > 1 => Tail(s) # <<>>
<1> DEFINE t == Tail(s)
<1>1. /\ Len(s) \in Nat /\ DOMAIN s = 1..Len(s) /\ Len(s) >= 1 /\ t \in Seq(D) /\ Len(t) = Len(s) - 1
      /\ DOMAIN t = 1..(Len(s) - 1) /\ Head(s) = s[1]
  OBVIOUS
<1>2. \A i \in 1..(Len(s) - 1) : i + 1 \in 1..Len(s) /\ i + 1 # 1 /\ t[i] = s[i + 1]
  BY <1>1
<1>3. \A i \in 1..Len(s) : i = 1 \/ (i - 1 \in 1..(Len(s) - 1) /\ i = (i - 1) + 1)
  BY <1>1
<1>4. \A i \in 1..Len(s) : i = 1 \/ \E j \in 1..(Len(s) - 1) : i = j + 1
  BY <1>3
<1>5. 1 \in 1..Len(s) /\ s[1] \in D
  BY <1>1
<1> HIDE DEF t
<1>6. Range(s) = {s[1]} \cup Range(t)
  <2>1. ASSUME NEW x \in Range(s) PROVE x = s[1] \/ x \in Range(t)
    <3>1. PICK i \in 1..Len(s) : x = s[i]
      BY <1>1 DEF Range
    <3>2. CASE i # 1
      <4>1. PICK j \in 1..(Len(s) - 1) : i = j + 1
        BY <3>2, <1>4
      <4> QED
        BY <3>1, <4>1, <1>1, <1>2 DEF Range
    <3> QED
      BY <3>1, <3>2
  <2>2. \A x \in Range(t) : x \in Range(s)
    BY <1>1, <1>2 DEF Range
  <2>3. s[1] \in Range(s)
    BY <1>1, <1>5 DEF Range
  <2> QED
    BY <2>1, <2>2, <2>3
<1>7. Distinct(s) => Distinct(t) /\ s[1] \notin Range(t)
  <2> SUFFICES ASSUME Distinct(s) PROVE Distinct(t) /\ s[1] \notin Range(t)
    OBVIOUS
  <2>1. ASSUME NEW i \in 1..(Len(s) - 1), NEW j \in 1..(Len(s) - 1), t[i] = t[j] PROVE i = j
    <3>1. i + 1 = j + 1
      BY <2>1, <1>1, <1>2 DEF Distinct
    <3> QED
      BY <3>1, <1>1
  <2>2. ASSUME NEW i \in 1..(Len(s) - 1) PROVE t[i] # s[1]
    BY <1>1, <1>2, <1>5 DEF Distinct
  <2> QED
    BY <1>1, <2>1, <2>2 DEF Distinct, Range
<1>8. (Len(s) = 1 => t = <<>>) /\ (Len(s) > 1 => t # <<>>)
  BY <1>1
<1>9. s[1] \in Range(s)
  BY <1>6
<1> QED
  BY <1>1, <1>2, <1>5, <1>6, <1>7, <1>8, <1>9 DEF t

-----------------------------------------------------------------------------
(* What each operation on the tabs leaves of that.                           *)

LEMMA LooksRelease ==
    ASSUME NEW u \in UIType, Distinct(u.tabs), NEW n \in Notes
    PROVE  Looks(Release(u, n), Tabs(u), u.retained \ {n}, u.active)
BY Fields, LastType DEF Looks, Release, UIType, Tabs

LEMMA LooksAppendTab ==
    ASSUME NEW u \in UIType, Distinct(u.tabs), NEW n \in Notes
    PROVE  Looks(AppendTab(u, n), Tabs(u) \cup {n}, u.retained, u.active)
<1>1. CASE Has(u, n)
  BY <1>1 DEF AppendTab, Has, Looks
<1>2. CASE ~Has(u, n)
  <2>1. u.tabs \in Seq(Notes) /\ n \notin Range(u.tabs)
    BY <1>2, LastType DEF Has, Tabs
  <2>2. /\ Append(u.tabs, n) \in Seq(Notes) /\ Distinct(Append(u.tabs, n))
        /\ Range(Append(u.tabs, n)) = Range(u.tabs) \cup {n}
    BY <2>1, Appended
  <2>3. AppendTab(u, n) = [u EXCEPT !.tabs = Append(u.tabs, n)]
    BY <1>2 DEF AppendTab
  <2> HIDE DEF Tabs
  <2> QED
    BY <2>2, <2>3 DEF Looks, UIType, Tabs
<1> QED
  BY <1>1, <1>2

LEMMA LooksDrop ==
    ASSUME NEW u \in UIType, Distinct(u.tabs), NEW n
    PROVE  Looks(Drop(u, n), Tabs(u) \ {n}, u.retained, u.active)
<1>1. u.tabs \in Seq(Notes)
  BY LastType
<1>2. /\ Without(u.tabs, {n}) \in Seq(Notes) /\ Distinct(Without(u.tabs, {n}))
      /\ Range(Without(u.tabs, {n})) = Range(u.tabs) \ {n}
  BY <1>1, WithoutFacts
<1> QED
  BY <1>2 DEF Drop, Looks, UIType, Tabs

LEMMA LooksRetire ==
    ASSUME NEW u \in UIType, Distinct(u.tabs), NEW gone \in SUBSET Notes, NEW keep \in BOOLEAN
    PROVE  Looks(Retire(u, gone, keep), Tabs(u) \ gone, u.retained \ gone,
                 IF u.active \in gone THEN None ELSE u.active)
<1>1. u.tabs \in Seq(Notes)
  BY LastType
<1> DEFINE left == Without(u.tabs, gone)
<1>2. left \in Seq(Notes) /\ Distinct(left) /\ Range(left) = Range(u.tabs) \ gone
  BY <1>1, WithoutFacts
<1> HIDE DEF left
<1> DEFINE v == [u EXCEPT !.tabs = left, !.retained = @ \ gone,
                          !.active = IF @ \in gone THEN None ELSE @]
<1>3. Looks(v, Tabs(u) \ gone, u.retained \ gone, IF u.active \in gone THEN None ELSE u.active)
  BY <1>2, LastType DEF Looks, UIType, Tabs, Id
<1>4. Retire(u, gone, keep) = IF keep THEN v ELSE RemoveSaved(v, gone)
  BY DEF Retire, left
<1> HIDE DEF v
<1> QED
  BY ZenonT(60), <1>3, <1>4 DEF Looks, UIType, Tabs, RemoveSaved, Id

LEMMA LooksRenamed ==
    ASSUME NEW u \in UIType, Distinct(u.tabs), NEW old \in Notes, NEW new \in Notes,
           new \notin Tabs(u) \ {old}
    PROVE  Looks(Renamed(u, old, new), Reidentified(Tabs(u), old, new), u.retained, u.active)
<1>1. u.tabs \in Seq(Notes) /\ DOMAIN u.tabs = 1..Len(u.tabs) /\ Len(u.tabs) \in Nat
  BY LastType
<1> DEFINE t == [i \in DOMAIN u.tabs |-> IF u.tabs[i] = old THEN new ELSE u.tabs[i]]
<1>2. t \in Seq(Notes)
  BY <1>1
<1>3. DOMAIN t = DOMAIN u.tabs /\ \A i \in DOMAIN u.tabs : t[i] = IF u.tabs[i] = old THEN new ELSE u.tabs[i]
  OBVIOUS
<1>4. Renamed(u, old, new) = [u EXCEPT !.tabs = t]
  BY DEF Renamed
<1> HIDE DEF t
<1>5. Range(t) = Reidentified(Range(u.tabs), old, new)
  BY <1>3 DEF Range, Reidentified
<1>6. Distinct(t)
  BY <1>3 DEF Distinct, Tabs, Range
<1> QED
  BY <1>2, <1>4, <1>5, <1>6 DEF Looks, UIType, Tabs

(* The snapshot of the tabs is not what these lemmas are about.              *)
LEMMA LooksSaved ==
    ASSUME NEW u \in UIType, Distinct(u.tabs), NEW S \in SUBSET Notes, NEW x \in Id
    PROVE  Looks([u EXCEPT !.open = S, !.last = x], Tabs(u), u.retained, u.active)
BY DEF Looks, UIType, Tabs

LEMMA LooksRecordActive ==
    ASSUME NEW u \in UIType, Distinct(u.tabs), NEW n \in Notes
    PROVE  Looks(RecordActive(u, n), Tabs(u), u.retained, u.active)
<1> DEFINE S == u.open \cup ({u.last} \ {None, n}) \cup (IF u.last = n THEN {} ELSE {n})
<1>1. RecordActive(u, n) = [u EXCEPT !.open = S, !.last = n]
  BY DEF RecordActive, UIType
<1>2. S \in SUBSET Notes /\ n \in Id
  BY DEF Id, UIType
<1> HIDE DEF S
<1> QED
  BY <1>1, <1>2, LooksSaved, Zenon

LEMMA LooksSaveActive ==
    ASSUME NEW u \in UIType, Distinct(u.tabs), NEW n \in Notes
    PROVE  Looks(SaveActive(u, n), Tabs(u), u.retained, u.active)
<1> DEFINE S == u.open \cup ({n} \ {None, u.last})
<1>1. SaveActive(u, n) = [u EXCEPT !.open = S, !.last = n]
  BY DEF SaveActive, UIType
<1>2. S \in SUBSET Notes /\ n \in Id
  BY DEF Id, UIType
<1> HIDE DEF S
<1> QED
  BY <1>1, <1>2, LooksSaved, Zenon

LEMMA LooksRemoveSaved ==
    ASSUME NEW u \in UIType, Distinct(u.tabs), NEW gone
    PROVE  Looks(RemoveSaved(u, gone), Tabs(u), u.retained, u.active)
<1> DEFINE x == IF u.last \in gone \cap u.open THEN None ELSE u.last
           S == u.open \ gone
<1>1. RemoveSaved(u, gone) = [u EXCEPT !.open = S, !.last = x]
  BY DEF RemoveSaved, UIType
<1>2. x \in Id /\ S \in SUBSET Notes
  BY DEF Id, UIType
<1> HIDE DEF x, S
<1> QED
  BY <1>1, <1>2, LooksSaved, Zenon

(* A rekeyed one, whatever it makes active.                                  *)
Rekeys(v, u) == \E S \in SUBSET Notes, x \in Id : v = [u EXCEPT !.open = S, !.last = x]

LEMMA RekeyRekeys ==
    ASSUME NEW u \in UIType, NEW old, NEW new \in Notes
    PROVE  Rekeys(Rekey(u, old, new, TRUE), u) /\ Rekeys(Rekey(u, old, new, FALSE), u)
<1> DEFINE x == IF u.last = None THEN None ELSE new
           y == IF u.last = None THEN None ELSE IF u.last = old THEN new ELSE u.last
           S == (u.open \ {old}) \cup {new}
<1>1. Rekey(u, old, new, TRUE) = [u EXCEPT !.open = S, !.last = x]
  BY DEF Rekey, UIType
<1>2. Rekey(u, old, new, FALSE) = [u EXCEPT !.open = S, !.last = y]
  BY DEF Rekey, UIType
<1>3. x \in Id /\ y \in Id /\ S \in SUBSET Notes
  BY DEF Id, UIType
<1> HIDE DEF x, y, S
<1> QED
  BY <1>1, <1>2, <1>3, Zenon DEF Rekeys

LEMMA LooksRekeyed ==
    ASSUME NEW u \in UIType, Distinct(u.tabs), NEW v, Rekeys(v, u)
    PROVE  Looks(v, Tabs(u), u.retained, u.active)
BY LooksSaved, Zenon DEF Rekeys

LEMMA LooksActivate ==
    ASSUME NEW u \in UIType, Distinct(u.tabs), NEW n \in Notes
    PROVE  /\ Looks(Activate(u, n), Tabs(u), u.retained, n)
           /\ Looks(Show(u, n), Tabs(u), u.retained, n)
<1> DEFINE v == [u EXCEPT !.active = n]
<1>1. Looks(v, Tabs(u), u.retained, n)
  BY DEF Looks, UIType, Tabs, Id
<1>2. Looks(Activate(u, n), Tabs(u), u.retained, n)
  <2>1. Activate(u, n) = RecordActive(v, n)
    BY DEF Activate
  <2> HIDE DEF v
  <2> QED
    BY <1>1, <2>1, LooksRecordActive DEF Looks
<1> QED
  BY <1>2, Fields DEF Looks, Show, UIType, Tabs, Id

LEMMA LooksSelected ==
    ASSUME NEW u \in UIType, Distinct(u.tabs), NEW x \in Id
    PROVE  Looks([u EXCEPT !.selected = x], Tabs(u), u.retained, u.active)
BY DEF Looks, UIType, Tabs, Id

LEMMA LooksPreserve ==
    ASSUME NEW u \in UIType, Distinct(u.tabs), NEW n \in Notes
    PROVE  Looks(Preserve(u, n), Tabs(u) \cup {n}, u.retained \ {n}, u.active)
<1>1. Looks(AppendTab(u, n), Tabs(u) \cup {n}, u.retained, u.active)
  BY LooksAppendTab
<1> DEFINE v == Release(AppendTab(u, n), n)
<1>2. Looks(v, Tabs(u) \cup {n}, u.retained \ {n}, u.active)
  BY <1>1, LooksRelease DEF Looks
<1> HIDE DEF v
<1>3. Looks([v EXCEPT !.open = v.open \cup {n}], Tabs(u) \cup {n}, u.retained \ {n}, u.active)
  BY <1>2 DEF Looks, UIType, Tabs
<1> QED
  BY <1>3 DEF Preserve, v

LEMMA LooksPreserveAll ==
    ASSUME NEW u \in UIType, Distinct(u.tabs), NEW held \in Seq(Notes), Distinct(held)
    PROVE  Looks(PreserveAll(u, held), Tabs(u) \cup Range(held), u.retained \ Range(held), u.active)
<1>1. u.tabs \in Seq(Notes)
  BY LastType
<1> DEFINE more == Without(held, Tabs(u))
<1>2. more \in Seq(Notes) /\ Distinct(more) /\ Range(more) = Range(held) \ Range(u.tabs)
  BY WithoutFacts DEF Tabs
<1> HIDE DEF more
<1> DEFINE t == u.tabs \o more
<1>3. t \in Seq(Notes) /\ Distinct(t) /\ Range(t) = Range(u.tabs) \cup Range(held)
  BY <1>1, <1>2, Joined
<1> HIDE DEF t
<1>4. Range(held) \subseteq Notes
  BY DEF Range
<1>5. PreserveAll(u, held) = [u EXCEPT !.tabs = t, !.retained = u.retained \ Range(held), !.open = u.open \cup Range(held)]
  BY DEF PreserveAll, t, more
<1> QED
  BY <1>3, <1>4, <1>5 DEF Looks, UIType, Tabs

LEMMA LooksAdopt ==
    ASSUME NEW u \in UIType, Distinct(u.tabs), NEW old \in Notes, NEW new \in Notes,
           new \notin Tabs(u) \ {old}
    PROVE  Looks(Adopt(u, new, old), Reidentified(Tabs(u), old, new), u.retained \ {new}, new)
<1> DEFINE a == [u EXCEPT !.active = new]
           v == Release(a, new)
           w == IF Has(v, old) THEN Renamed(v, old, new) ELSE v
<1>1. Looks(a, Tabs(u), u.retained, new)
  BY DEF Looks, UIType, Tabs, Id
<1> HIDE DEF a
<1>2. Looks(v, Tabs(u), u.retained \ {new}, new)
  BY <1>1, LooksRelease DEF Looks
<1> HIDE DEF v
<1>3. Looks(w, Reidentified(Tabs(u), old, new), u.retained \ {new}, new)
  <2>1. CASE Has(v, old)
    BY <1>2, <2>1, LooksRenamed DEF Looks
  <2>2. CASE ~Has(v, old)
    BY <1>2, <2>2 DEF Looks, Has, Reidentified
  <2> QED
    BY <2>1, <2>2
<1> HIDE DEF w
<1>4. CASE old # new
  <2>1. Adopt(u, new, old) = Rekey(w, old, new, TRUE)
    BY <1>4 DEF Adopt, w, v, a
  <2>2. w \in UIType
    BY <1>3 DEF Looks
  <2>3. Rekeys(Adopt(u, new, old), w)
    BY <2>1, <2>2, RekeyRekeys
  <2> QED
    BY <1>3, <2>3, LooksRekeyed DEF Looks
<1>5. CASE old = new
  <2>1. Adopt(u, new, old) = SaveActive(w, new)
    BY <1>5 DEF Adopt, w, v, a
  <2> QED
    BY <1>3, <2>1, LooksSaveActive DEF Looks
<1> QED
  BY <1>4, <1>5

LEMMA LooksReplaceTab ==
    ASSUME NEW u \in UIType, Distinct(u.tabs), NEW old \in Notes, NEW new \in Notes,
           new \notin Tabs(u) \ {old}
    PROVE  Looks(ReplaceTab(u, old, new), Reidentified(Tabs(u), old, new),
                 IF Has(u, old) THEN u.retained \ {new} ELSE u.retained, u.active)
<1> DEFINE v == Release(Renamed(u, old, new), new)
<1>1. Looks(Renamed(u, old, new), Reidentified(Tabs(u), old, new), u.retained, u.active)
  BY LooksRenamed
<1>2. Looks(v, Reidentified(Tabs(u), old, new), u.retained \ {new}, u.active)
  BY <1>1, LooksRelease DEF Looks
<1>4. CASE ~Has(u, old)
  <2>1. ReplaceTab(u, old, new) = u
    BY <1>4 DEF ReplaceTab
  <2> QED
    BY <2>1, <1>4 DEF Looks, Has, Reidentified
<1>5. CASE Has(u, old)
  <2>1. CASE old = new
    <3>1. ReplaceTab(u, old, new) = v
      BY <1>5, <2>1 DEF ReplaceTab
    <3> QED
      BY <1>2, <1>5, <3>1
  <2>2. CASE old # new
    <3>1. ReplaceTab(u, old, new) = Rekey(v, old, new, FALSE)
      BY <1>5, <2>2 DEF ReplaceTab
    <3> HIDE DEF v
    <3>2. Rekeys(ReplaceTab(u, old, new), v)
      BY <1>2, <3>1, RekeyRekeys DEF Looks
    <3> QED
      BY SMTT(30), <1>2, <1>5, <3>2, LooksRekeyed DEF Looks
  <2> QED
    BY <2>1, <2>2
<1> QED
  BY <1>4, <1>5

LEMMA LooksRetain ==
    ASSUME NEW u \in UIType, Distinct(u.tabs), NEW old \in Notes, NEW new \in Notes
    PROVE  /\ Looks(RetainActive(u, old, new), Tabs(u) \ {old}, (u.retained \ {old}) \cup {new}, None)
           /\ Looks(RetainTab(u, old, new), Tabs(u) \ {old}, u.retained \cup {new}, u.active)
<1> DEFINE v == Drop(u, old)
<1>1. Looks(v, Tabs(u) \ {old}, u.retained, u.active)
  BY LooksDrop
<1> HIDE DEF v
<1> DEFINE w == [v EXCEPT !.retained = (v.retained \ {old}) \cup {new}, !.active = None]
           x == [v EXCEPT !.retained = v.retained \cup {new}]
<1>2. Looks(w, Tabs(u) \ {old}, (u.retained \ {old}) \cup {new}, None)
  BY <1>1 DEF Looks, UIType, Tabs, Id
<1>3. Looks(x, Tabs(u) \ {old}, u.retained \cup {new}, u.active)
  BY <1>1 DEF Looks, UIType, Tabs, Id
<1>4. RetainActive(u, old, new) = Rekey(w, old, new, FALSE) /\ RetainTab(u, old, new) = Rekey(x, old, new, FALSE)
  BY DEF RetainActive, RetainTab, v
<1> HIDE DEF w, x
<1>5. w \in UIType /\ x \in UIType
  BY <1>2, <1>3 DEF Looks
<1>6. Rekeys(RetainActive(u, old, new), w)
  BY <1>4, <1>5, RekeyRekeys
<1>7. Rekeys(RetainTab(u, old, new), x)
  BY <1>4, <1>5, RekeyRekeys
<1> QED
  BY <1>2, <1>3, <1>6, <1>7, LooksRekeyed DEF Looks

LEMMA LooksRekeyRetained ==
    ASSUME NEW u \in UIType, Distinct(u.tabs), NEW old \in Notes, NEW new \in Notes
    PROVE  Looks(RekeyRetained(u, old, new), Tabs(u),
                 IF old \notin u.retained \/ Has(u, old) THEN u.retained
                 ELSE (u.retained \ {old}) \cup ({new} \ Tabs(u)), u.active)
<1>1. CASE old \notin u.retained \/ Has(u, old)
  BY <1>1 DEF RekeyRetained, Looks
<1>2. CASE ~(old \notin u.retained \/ Has(u, old))
  <2> DEFINE w == [u EXCEPT !.retained = (u.retained \ {old}) \cup ({new} \ Tabs(u))]
  <2>1. Looks(w, Tabs(u), (u.retained \ {old}) \cup ({new} \ Tabs(u)), u.active)
    BY DEF Looks, UIType, Tabs
  <2>2. RekeyRetained(u, old, new) = Rekey(w, old, new, FALSE)
    BY <1>2 DEF RekeyRetained
  <2> HIDE DEF w
  <2>3. Rekeys(RekeyRetained(u, old, new), w)
    BY <2>1, <2>2, RekeyRekeys DEF Looks
  <2> QED
    BY <1>2, <2>1, <2>3, LooksRekeyed DEF Looks
<1> QED
  BY <1>1, <1>2

LEMMA LooksClear ==
    ASSUME NEW u \in UIType, Distinct(u.tabs)
    PROVE  Looks(Clear(u), Tabs(u) \ {u.active}, u.retained, None)
<1>1. CASE u.active # None /\ Has(u, u.active)
  <2>1. Looks(Drop(u, u.active), Tabs(u) \ {u.active}, u.retained, u.active)
    BY LooksDrop
  <2>2. u.active \in Notes
    BY <1>1, LastType DEF Id
  <2> DEFINE w == RemoveSaved(Drop(u, u.active), {u.active})
  <2>3. Looks(w, Tabs(u) \ {u.active}, u.retained, u.active)
    BY <2>1, <2>2, LooksRemoveSaved DEF Looks
  <2>4. Clear(u) = [w EXCEPT !.active = None]
    BY <1>1 DEF Clear
  <2> HIDE DEF w
  <2> QED
    BY <2>3, <2>4 DEF Looks, UIType, Tabs, Id
<1>2. CASE ~(u.active # None /\ Has(u, u.active))
  <2>1. Clear(u) = [u EXCEPT !.active = None, !.last = None]
    BY <1>2 DEF Clear
  <2>2. u.active \notin Tabs(u)
    BY <1>2, LastType DEF Has
  <2> QED
    BY <2>1, <2>2 DEF Looks, UIType, Tabs, Id
<1> QED
  BY <1>1, <1>2

LEMMA LooksDiscard ==
    ASSUME NEW u \in UIType, Distinct(u.tabs), NEW n \in Notes
    PROVE  Looks(Discard(u, n), Tabs(u) \ {n}, IF u.active = n THEN u.retained ELSE u.retained \ {n},
                 IF u.active = n THEN None ELSE u.active)
<1>1. CASE u.active = n
  BY <1>1, LooksClear DEF Discard
<1>2. CASE u.active # n
  <2>1. Looks(Drop(u, n), Tabs(u) \ {n}, u.retained, u.active)
    BY LooksDrop
  <2>2. Looks(Release(Drop(u, n), n), Tabs(u) \ {n}, u.retained \ {n}, u.active)
    BY <2>1, LooksRelease DEF Looks
  <2> DEFINE w == Release(Drop(u, n), n)
  <2>3. Discard(u, n) = RemoveSaved(w, {n})
    BY <1>2 DEF Discard
  <2> HIDE DEF w
  <2> QED
    BY <1>2, <2>2, <2>3, LooksRemoveSaved DEF Looks, w
<1> QED
  BY <1>1, <1>2

LEMMA LooksUnselect ==
    ASSUME NEW u \in UIType, Distinct(u.tabs), NEW n \in Notes, u.active # n
    PROVE  Looks(Unselect(u, n), Tabs(u), u.retained, u.active)
<1>1. CASE u.selected # n
  BY <1>1 DEF Unselect, Looks
<1>2. CASE u.selected = n /\ u.active \notin {None, n}
  BY <1>2, LooksSelected, LastType DEF Unselect
<1>3. CASE u.selected = n /\ u.active = None
  <2>1. Looks(Clear(u), Tabs(u), u.retained, None)
    <3>1. None \notin Tabs(u)
      BY LastType
    <3>2. Tabs(u) \ {u.active} = Tabs(u)
      BY <3>1, <1>3
    <3> QED
      BY <3>2, LooksClear
  <2> DEFINE w == Clear(u)
  <2>2. Unselect(u, n) = [w EXCEPT !.selected = None]
    BY <1>3 DEF Unselect
  <2> HIDE DEF w
  <2>3. Looks([w EXCEPT !.selected = None], Tabs(u), u.retained, None)
    BY <2>1, LooksSelected DEF Looks, Id, w
  <2> QED
    BY <2>2, <2>3, <1>3
<1> QED
  BY <1>1, <1>2, <1>3

LEMMA LooksUnreadable ==
    ASSUME NEW u \in UIType, Distinct(u.tabs), NEW bad \in Notes \cup {None}
    PROVE  /\ bad = None => Unreadable(u, bad) = u
           /\ bad # None => Looks(Unreadable(u, bad), Tabs(u) \ {bad}, u.retained \cup {bad},
                                  IF u.active = bad THEN None ELSE u.active)
<1>1. CASE bad = None
  BY <1>1 DEF Unreadable
<1>2. CASE bad # None
  <2>1. (u.retained \ {bad}) \cup {bad} = u.retained \cup {bad}
    OBVIOUS
  <2> QED
    BY <1>2, <2>1, LooksRetain DEF Unreadable
<1> QED
  BY <1>1, <1>2

LEMMA SuccessorLeft ==
    ASSUME NEW order \in Seq(Notes), NEW n, NEW left
    PROVE  Successor(order, n, left) \in left \cup {None}
<1> DEFINE at == IF n \in Range(order) THEN CHOOSE i \in DOMAIN order : order[i] = n ELSE 0
           after == {i \in DOMAIN order : i > at /\ order[i] \in left}
           before == {i \in DOMAIN order : i < at /\ order[i] \in left}
<1>0. DOMAIN order \subseteq Nat /\ at \in Nat
  <2>1. DOMAIN order \subseteq Nat
    OBVIOUS
  <2>2. n \in Range(order) => \E i \in DOMAIN order : order[i] = n
    BY DEF Range
  <2>3. n \in Range(order) => (CHOOSE i \in DOMAIN order : order[i] = n) \in DOMAIN order
    BY <2>2
  <2> QED
    BY <2>1, <2>3
<1>1. after \in SUBSET Nat /\ before \in SUBSET Nat
  BY <1>0
<1>2. (\A i \in after : order[i] \in left) /\ (\A i \in before : order[i] \in left)
  OBVIOUS
<1>3. Successor(order, n, left) =
        IF at = 0 \/ after \cup before = {} THEN None
        ELSE IF after # {} THEN order[CHOOSE i \in after : \A j \in after : i <= j]
        ELSE order[CHOOSE i \in before : \A j \in before : j <= i]
  BY DEF Successor
<1>4. before # {} => \E i \in before : \A j \in before : j <= i
  <2> SUFFICES ASSUME before # {} PROVE \E i \in before : \A j \in before : j <= i
    OBVIOUS
  <2> DEFINE behind == {k \in Nat : \A j \in before : j <= k}
  <2>1. at \in behind
    BY <1>0
  <2>2. PICK k \in behind : \A m \in behind : k <= m
    <3>1. behind \in SUBSET Nat /\ behind # {}
      BY <2>1
    <3> HIDE DEF behind
    <3> QED
      BY <3>1, Smallest
  <2>3. ASSUME k \notin before PROVE FALSE
    <3>1. \A j \in before : j <= k /\ j # k /\ j \in Nat
      BY <2>2, <2>3, <1>1
    <3>2. k \in Nat /\ k - 1 \in Nat
      BY <3>1, <2>2
    <3>3. \A j \in before : j <= k - 1
      BY <3>1, <3>2
    <3>4. k - 1 \in behind
      BY <3>2, <3>3
    <3> QED
      BY <2>2, <3>2, <3>4
  <2> QED
    BY <2>2, <2>3
<1>5. after # {} => \E i \in after : \A j \in after : i <= j
  BY <1>1, Smallest
<1> HIDE DEF after, before, at
<1> QED
  BY <1>2, <1>3, <1>4, <1>5

LEMMA LooksReselect ==
    ASSUME NEW u \in UIType, Distinct(u.tabs), NEW order, NEW active, u.active \in Tabs(u) \cup {None}
    PROVE  /\ Reselect(u, order, active) \in UIType /\ Distinct(Reselect(u, order, active).tabs)
           /\ Tabs(Reselect(u, order, active)) = Tabs(u) /\ Reselect(u, order, active).retained = u.retained
           /\ Reselect(u, order, active).active \in Tabs(u) \cup {None}
           /\ u.active # None => Reselect(u, order, active).active = u.active
<1> DEFINE later == {order[j] : j \in {k \in DOMAIN order : \E i \in DOMAIN order : order[i] = active /\ i < k}}
           after == Without(u.tabs, Tabs(u) \ later)
<1>1. u.tabs \in Seq(Notes)
  BY LastType
<1>2. after \in Seq(Notes) /\ Range(after) \subseteq Tabs(u)
  BY <1>1, WithoutFacts DEF Tabs
<1>3. Reselect(u, order, active) =
        IF u.active # None THEN u
        ELSE IF u.tabs = <<>> THEN [u EXCEPT !.selected = None]
        ELSE IF active \notin Range(order) THEN Show(u, Head(u.tabs))
        ELSE IF after # <<>> THEN Show(u, Head(after))
        ELSE Show(u, u.tabs[Len(u.tabs)])
  BY DEF Reselect
<1> HIDE DEF after
<1>4. u.tabs # <<>> => Head(u.tabs) \in Tabs(u) /\ u.tabs[Len(u.tabs)] \in Tabs(u)
  BY <1>1 DEF Tabs, Range
<1>5. after # <<>> => Head(after) \in Tabs(u)
  BY <1>2, Behind
<1>6. \A n \in Tabs(u) : Looks(Show(u, n), Tabs(u), u.retained, n)
  BY LooksActivate, LastType
<1>7. Looks([u EXCEPT !.selected = None], Tabs(u), u.retained, u.active)
  BY LooksSelected DEF Id
<1> QED
  BY <1>3, <1>4, <1>5, <1>6, <1>7 DEF Looks

LEMMA LooksActive ==
    ASSUME NEW u \in UIType, Distinct(u.tabs), NEW x \in Id
    PROVE  Looks([u EXCEPT !.active = x], Tabs(u), u.retained, x)
BY DEF Looks, UIType, Tabs

LEMMA LooksRecord ==
    ASSUME NEW u \in UIType, Distinct(u.tabs), NEW n \in Notes, NEW from
    PROVE  Looks(Record(u, n, from), Tabs(u), u.retained, u.active)
<1>1. CASE from \in {None, n}
  BY <1>1, LooksRecordActive DEF Record
<1>2. CASE from \notin {None, n}
  <2>1. Record(u, n, from) = Rekey(u, from, n, TRUE)
    BY <1>2 DEF Record
  <2>2. Rekeys(Record(u, n, from), u)
    BY <2>1, RekeyRekeys
  <2> QED
    BY <2>2, LooksRekeyed
<1> QED
  BY <1>1, <1>2

-----------------------------------------------------------------------------
(* The queues: what they hold, and which session their head answers for.     *)

TaskType ==
    [kind : {"user", "life", "restore"}, note : Id, from : Id,
     pc : {"queued", "core", "retire"}, fenced : BOOLEAN]

(* Only the head of the open queue is with the core or waits for a close,    *)
(* and a restoration is at the head.                                         *)
TasksFit(q) ==
    /\ q \in Seq(TaskType)
    /\ \A i \in DOMAIN q :
          /\ i # 1 => q[i].pc = "queued"
          /\ q[i].kind = "restore" => i = 1 /\ q[i].pc # "queued"
          /\ q[i].kind # "restore" => q[i].note \in Notes

(* The Note whose session the core may be making; a restoration at the head; *)
(* an open whose late session is being closed.                               *)
Opened(q) == IF q # <<>> /\ q[1].pc = "core" /\ q[1].kind # "restore" THEN {q[1].note} ELSE {}
Restoring(q) == q # <<>> /\ q[1].kind = "restore"
Retiring(q) == q # <<>> /\ q[1].pc = "retire"

CloseType == [kind : {"tab", "retire"}, note : Notes]

ClosesFit(q) ==
    /\ q \in Seq(CloseType)
    /\ \A i, j \in DOMAIN q : q[i].kind = "retire" /\ q[j].kind = "retire" => i = j

(* The late sessions that wait to be closed, one at a time.                  *)
Handing(q) == {q[i].note : i \in {k \in DOMAIN q : q[k].kind = "retire"}}

ActionType ==
    [pc : {"queued", "asked", "restored", "renamed", "created", "unadopted"}, old : Id, new : Id]

ActionsFit(q, ex) ==
    /\ q \in Seq(ActionType)
    /\ \A i \in DOMAIN q :
          /\ i # 1 => q[i].pc = "queued"
          /\ q[i].pc \in {"created", "unadopted"} => q[i].new \in Notes
          /\ q[i].pc = "renamed" => q[i].old \in Notes \ ex /\ q[i].new \in Notes

(* The session of a Note that the body of a creation has made.               *)
Given(q) == IF q # <<>> /\ q[1].pc \in {"created", "unadopted"} THEN {q[1].new} ELSE {}

Same(q, r) ==
    Opened(q) = Opened(r) /\ (Restoring(q) <=> Restoring(r)) /\ (Retiring(q) <=> Retiring(r))

LEMMA FenceFacts ==
    ASSUME NEW q, TasksFit(q)
    PROVE  TasksFit(Fence(q)) /\ Same(Fence(q), q)
<1>1. CASE q = <<>>
  BY <1>1 DEF Fence, Same
<1>2. CASE q # <<>>
  <2>1. q \in Seq(TaskType) /\ DOMAIN q = 1..Len(q) /\ Len(q) \in Nat /\ 1 \in DOMAIN q
    BY <1>2, Behind DEF TasksFit
  <2> DEFINE f == Fence(q)
  <2>2. f = [q EXCEPT ![1] = [q[1] EXCEPT !.fenced = TRUE]]
    BY <1>2 DEF Fence
  <2>3. [q[1] EXCEPT !.fenced = TRUE] \in TaskType
    <3> DEFINE t == q[1]
    <3>1. t \in TaskType
      BY <2>1
    <3> HIDE DEF t
    <3>2. [t EXCEPT !.fenced = TRUE] \in TaskType
      BY <3>1 DEF TaskType
    <3> QED
      BY <3>2 DEF t
  <2>4. f \in Seq(TaskType) /\ DOMAIN f = DOMAIN q
    BY <2>1, <2>2, <2>3
  <2>5. ASSUME NEW i \in DOMAIN q
        PROVE  f[i].kind = q[i].kind /\ f[i].pc = q[i].pc /\ f[i].note = q[i].note
    <3>1. q[i] \in TaskType
      BY <2>1
    <3> QED
      BY <2>1, <2>2, <3>1 DEF TaskType
  <2>6. f # <<>>
    BY <2>1, <2>4
  <2> HIDE DEF f
  <2>7. TasksFit(f)
    BY <2>4, <2>5 DEF TasksFit
  <2>8. Same(f, q)
    BY <1>2, <2>1, <2>5, <2>6 DEF Same, Opened, Restoring, Retiring
  <2> QED
    BY <2>7, <2>8 DEF f
<1> QED
  BY <1>1, <1>2

LEMMA TaskFacts ==
    ASSUME NEW kind \in {"user", "life"}, NEW n \in Notes, NEW from \in Id
    PROVE  /\ Task(kind, n, from) \in TaskType
           /\ Task(kind, n, from).kind = kind /\ Task(kind, n, from).note = n
           /\ Task(kind, n, from).pc = "queued"
BY DEF Task, TaskType, Id

LEMMA PublishFacts ==
    ASSUME NEW q, TasksFit(q), NEW n \in Notes
    PROVE  TasksFit(Publish(q, n)) /\ Same(Publish(q, n), q)
<1> DEFINE t == Task("user", n, None)
           p == Append(q, t)
<1>1. t \in TaskType /\ t.kind = "user" /\ t.note = n /\ t.pc = "queued"
  BY TaskFacts DEF Id
<1> HIDE DEF t
<1>2. q \in Seq(TaskType)
  BY DEF TasksFit
<1>3. /\ p \in Seq(TaskType) /\ p # <<>>
      /\ \A i \in DOMAIN p : (i \in DOMAIN q /\ p[i] = q[i]) \/ (i = Len(q) + 1 /\ p[i] = t)
      /\ q # <<>> => p[1] = q[1]
      /\ q = <<>> => p[1] = t
  <2>1. t \in TaskType
    BY <1>1
  <2> QED
    BY <2>1, <1>2, Appended
<1>7. q # <<>> => 1 \in DOMAIN q
  BY <1>2
<1>4. Publish(q, n) = p
  BY DEF Publish, t
<1> HIDE DEF p
<1>5. TasksFit(p)
  BY <1>1, <1>3 DEF TasksFit
<1>6. Same(p, q)
  BY <1>1, <1>3 DEF Same, Opened, Restoring, Retiring
<1> QED
  BY <1>4, <1>5, <1>6

LEMMA TaskEnds ==
    ASSUME NEW q, TasksFit(q), q # <<>>
    PROVE  /\ TasksFit(Tail(q)) /\ Same(Tail(q), <<>>)
           /\ Head(q) = q[1] /\ q[1] \in TaskType
           /\ q[1].kind # "restore" => q[1].note \in Notes
<1> DEFINE t == Tail(q)
<1>1. /\ t \in Seq(TaskType) /\ Head(q) = q[1] /\ 1 \in DOMAIN q /\ Head(q) \in TaskType
      /\ \A i \in DOMAIN t : i + 1 \in DOMAIN q /\ i + 1 # 1 /\ t[i] = q[i + 1]
  BY Behind DEF TasksFit
<1>2. t # <<>> => 1 \in DOMAIN t
  BY <1>1
<1> HIDE DEF t
<1>3. TasksFit(t)
  BY <1>1 DEF TasksFit
<1>4. Same(t, <<>>)
  <2>1. t # <<>> => t[1].pc = "queued" /\ t[1].kind # "restore"
    BY <1>1, <1>2 DEF TasksFit
  <2> QED
    BY <2>1 DEF Same, Opened, Restoring, Retiring
<1> QED
  BY <1>1, <1>3, <1>4 DEF t, TasksFit

(* The head of the open queue goes to the Core, or waits for its session to  *)
(* be retired.                                                               *)
LEMMA TaskTurns ==
    ASSUME NEW q, TasksFit(q), q # <<>>, NEW pc \in {"core", "retire"}
    PROVE  /\ TasksFit([q EXCEPT ![1].pc = pc])
           /\ [q EXCEPT ![1].pc = pc] # <<>>
           /\ [q EXCEPT ![1].pc = pc][1].kind = q[1].kind
           /\ [q EXCEPT ![1].pc = pc][1].note = q[1].note
           /\ [q EXCEPT ![1].pc = pc][1].pc = pc
<1>1. q \in Seq(TaskType) /\ DOMAIN q = 1..Len(q) /\ Len(q) \in Nat /\ 1 \in DOMAIN q
  BY Behind DEF TasksFit
<1> DEFINE f == [q EXCEPT ![1].pc = pc]
<1>2. f = [q EXCEPT ![1] = [q[1] EXCEPT !.pc = pc]]
  OBVIOUS
<1>3. [q[1] EXCEPT !.pc = pc] \in TaskType
  <2> DEFINE t == q[1]
  <2>1. t \in TaskType
    BY <1>1
  <2> HIDE DEF t
  <2>2. [t EXCEPT !.pc = pc] \in TaskType
    BY <2>1 DEF TaskType
  <2> QED
    BY <2>2 DEF t
<1>4. f \in Seq(TaskType) /\ DOMAIN f = DOMAIN q
  BY <1>1, <1>2, <1>3
<1>5. ASSUME NEW i \in DOMAIN q
      PROVE  f[i].kind = q[i].kind /\ f[i].note = q[i].note /\ f[i].pc = IF i = 1 THEN pc ELSE q[i].pc
  <2>1. q[i] \in TaskType
    BY <1>1
  <2> QED
    BY <1>1, <1>2, <2>1 DEF TaskType
<1>6. f # <<>>
  BY <1>1, <1>4
<1> HIDE DEF f
<1>7. TasksFit(f)
  BY <1>4, <1>5 DEF TasksFit
<1> QED
  BY <1>1, <1>5, <1>6, <1>7 DEF f

LEMMA OneTask ==
    ASSUME NEW t \in TaskType, t.kind # "restore" => t.note \in Notes, t.kind = "restore" => t.pc # "queued"
    PROVE  TasksFit(<<t>>) /\ <<t>> # <<>> /\ <<t>>[1] = t
<1>1. <<t>> \in Seq(TaskType) /\ DOMAIN <<t>> = {1} /\ <<t>>[1] = t
  OBVIOUS
<1> QED
  BY <1>1 DEF TasksFit

LEMMA NoTask == TasksFit(<<>>) /\ Opened(<<>>) = {} /\ ~Restoring(<<>>) /\ ~Retiring(<<>>)
BY DEF TasksFit, Opened, Restoring, Retiring

LEMMA CloseQueued ==
    ASSUME NEW q, ClosesFit(q), NEW n \in Notes
    PROVE  /\ ClosesFit(Append(q, [kind |-> "tab", note |-> n]))
           /\ Handing(Append(q, [kind |-> "tab", note |-> n])) = Handing(q)
           /\ Handing(q) = {} =>
                 /\ ClosesFit(Append(q, [kind |-> "retire", note |-> n]))
                 /\ Handing(Append(q, [kind |-> "retire", note |-> n])) = {n}
<1>1. ASSUME NEW kind \in {"tab", "retire"}
      PROVE  LET x == [kind |-> kind, note |-> n]
                 a == Append(q, x)
             IN  /\ a \in Seq(CloseType)
                 /\ \A i \in DOMAIN q : i \in DOMAIN a /\ a[i] = q[i]
                 /\ Len(q) + 1 \in DOMAIN a /\ a[Len(q) + 1] = x
                 /\ \A i \in DOMAIN a : i \in DOMAIN q \/ i = Len(q) + 1
                 /\ Len(q) + 1 \notin DOMAIN q
  <2> DEFINE x == [kind |-> kind, note |-> n]
             a == Append(q, x)
  <2>1. x \in CloseType /\ q \in Seq(CloseType)
    BY DEF CloseType, ClosesFit
  <2> HIDE DEF x
  <2>2. /\ a \in Seq(CloseType) /\ Len(a) = Len(q) + 1 /\ a[Len(a)] = x /\ \A i \in 1..Len(q) : a[i] = q[i]
    BY <2>1, AppendProperties
  <2>3. Len(q) \in Nat /\ DOMAIN q = 1..Len(q) /\ DOMAIN a = 1..(Len(q) + 1)
    BY <2>1, <2>2
  <2> HIDE DEF a
  <2>4. /\ a \in Seq(CloseType)
        /\ \A i \in DOMAIN q : i \in DOMAIN a /\ a[i] = q[i]
        /\ Len(q) + 1 \in DOMAIN a /\ a[Len(q) + 1] = x
        /\ \A i \in DOMAIN a : i \in DOMAIN q \/ i = Len(q) + 1
        /\ Len(q) + 1 \notin DOMAIN q
    BY <2>2, <2>3
  <2> QED
    BY <2>4 DEF a, x
<1>2. /\ ClosesFit(Append(q, [kind |-> "tab", note |-> n]))
      /\ Handing(Append(q, [kind |-> "tab", note |-> n])) = Handing(q)
  <2> DEFINE x == [kind |-> "tab", note |-> n]
             a == Append(q, x)
  <2>1. /\ a \in Seq(CloseType)
        /\ \A i \in DOMAIN q : i \in DOMAIN a /\ a[i] = q[i]
        /\ Len(q) + 1 \in DOMAIN a /\ a[Len(q) + 1] = x
        /\ \A i \in DOMAIN a : i \in DOMAIN q \/ i = Len(q) + 1
    BY <1>1
  <2>2. x.kind = "tab"
    OBVIOUS
  <2> HIDE DEF a, x
  <2>3. \A i \in DOMAIN a : a[i].kind = "retire" => i \in DOMAIN q /\ q[i].kind = "retire" /\ a[i] = q[i]
    BY <2>1, <2>2
  <2>4. ClosesFit(a)
    BY <2>1, <2>3 DEF ClosesFit
  <2>5. Handing(a) = Handing(q)
    BY <2>1, <2>3 DEF Handing
  <2> QED
    BY <2>4, <2>5 DEF a, x
<1>3. ASSUME Handing(q) = {}
      PROVE  /\ ClosesFit(Append(q, [kind |-> "retire", note |-> n]))
             /\ Handing(Append(q, [kind |-> "retire", note |-> n])) = {n}
  <2> DEFINE x == [kind |-> "retire", note |-> n]
             a == Append(q, x)
  <2>1. /\ a \in Seq(CloseType)
        /\ \A i \in DOMAIN q : i \in DOMAIN a /\ a[i] = q[i]
        /\ Len(q) + 1 \in DOMAIN a /\ a[Len(q) + 1] = x
        /\ \A i \in DOMAIN a : i \in DOMAIN q \/ i = Len(q) + 1
    BY <1>1
  <2>2. x.kind = "retire" /\ x.note = n
    OBVIOUS
  <2>3. \A i \in DOMAIN q : q[i].kind # "retire"
    BY <1>3 DEF Handing
  <2> HIDE DEF a, x
  <2>4. \A i \in DOMAIN a : a[i].kind = "retire" <=> i = Len(q) + 1
    BY <2>1, <2>2, <2>3
  <2>5. ClosesFit(a)
    BY <2>1, <2>4 DEF ClosesFit
  <2>6. Handing(a) = {n}
    BY <2>1, <2>2, <2>4 DEF Handing
  <2> QED
    BY <2>5, <2>6 DEF a, x
<1> QED
  BY <1>2, <1>3

LEMMA CloseEnded ==
    ASSUME NEW q, ClosesFit(q), q # <<>>
    PROVE  /\ ClosesFit(Tail(q)) /\ Head(q) \in CloseType
           /\ Head(q).kind = "tab" => Handing(Tail(q)) = Handing(q)
           /\ Head(q).kind = "retire" => Handing(q) = {Head(q).note} /\ Handing(Tail(q)) = {}
<1> DEFINE t == Tail(q)
<1>1. /\ t \in Seq(CloseType) /\ Head(q) = q[1] /\ 1 \in DOMAIN q /\ Head(q) \in CloseType
      /\ \A i \in DOMAIN t : i + 1 \in DOMAIN q /\ i + 1 # 1 /\ t[i] = q[i + 1]
  BY Behind DEF ClosesFit
<1>2. \A i \in DOMAIN q : i # 1 => \E j \in DOMAIN t : i = j + 1
  <2>1. q \in Seq(CloseType)
    BY DEF ClosesFit
  <2>2. \A i \in DOMAIN q : i # 1 => i - 1 \in DOMAIN t /\ i = (i - 1) + 1
    BY <2>1
  <2> HIDE DEF t
  <2> QED
    BY <2>2
<1>3. DOMAIN t \subseteq Int
  BY <1>1
<1> HIDE DEF t
<1>4. ClosesFit(t)
  <2> SUFFICES ASSUME NEW i \in DOMAIN t, NEW j \in DOMAIN t, t[i].kind = "retire", t[j].kind = "retire"
               PROVE  i = j
    BY <1>1 DEF ClosesFit
  <2>1. i + 1 = j + 1
    BY <1>1 DEF ClosesFit
  <2> QED
    BY <2>1, <1>3
<1>5. ASSUME q[1].kind = "tab" PROVE Handing(t) = Handing(q)
  <2>1. ASSUME NEW x \in Handing(q) PROVE x \in Handing(t)
    <3>1. PICK i \in DOMAIN q : q[i].kind = "retire" /\ x = q[i].note
      BY DEF Handing
    <3>2. PICK j \in DOMAIN t : i = j + 1
      BY <1>2, <1>5, <3>1
    <3> QED
      BY <1>1, <3>1, <3>2 DEF Handing
  <2>2. ASSUME NEW x \in Handing(t) PROVE x \in Handing(q)
    BY <1>1 DEF Handing
  <2> QED
    BY <2>1, <2>2
<1>6. ASSUME q[1].kind = "retire" PROVE Handing(q) = {q[1].note} /\ Handing(t) = {}
  <2>1. \A i \in DOMAIN q : q[i].kind = "retire" <=> i = 1
    BY <1>1, <1>6 DEF ClosesFit
  <2>2. \A i \in DOMAIN t : t[i].kind # "retire"
    BY <1>1, <2>1
  <2> QED
    BY <1>1, <2>1, <2>2 DEF Handing
<1> QED
  BY <1>1, <1>4, <1>5, <1>6 DEF t

-----------------------------------------------------------------------------
(* The invariant: who owns each session that the core has.                   *)

LEMMA ActionsEnd ==
    ASSUME NEW q, NEW ex, ActionsFit(q, ex), q # <<>>, NEW fx
    PROVE  ActionsFit(Tail(q), fx) /\ Given(Tail(q)) = {} /\ q[1] \in ActionType
<1> DEFINE t == Tail(q)
<1>1. /\ t \in Seq(ActionType) /\ Head(q) = q[1] /\ Head(q) \in ActionType
      /\ \A i \in DOMAIN t : i + 1 \in DOMAIN q /\ i + 1 # 1 /\ t[i] = q[i + 1]
  BY Behind DEF ActionsFit
<1>2. t # <<>> => 1 \in DOMAIN t
  BY <1>1
<1> HIDE DEF t
<1>3. \A i \in DOMAIN t : t[i].pc = "queued"
  BY <1>1 DEF ActionsFit
<1>4. ActionsFit(t, fx)
  BY <1>1, <1>3 DEF ActionsFit
<1>5. Given(t) = {}
  BY <1>2, <1>3 DEF Given
<1> QED
  BY <1>1, <1>4, <1>5 DEF t

LEMMA ActionsTurn ==
    ASSUME NEW q, NEW ex, ActionsFit(q, ex), q # <<>>, NEW fx,
           NEW x \in ActionType, x.pc \in {"created", "unadopted"} => x.new \in Notes,
           x.pc = "renamed" => x.old \in Notes \ fx /\ x.new \in Notes
    PROVE  /\ ActionsFit([q EXCEPT ![1] = x], fx)
           /\ Given([q EXCEPT ![1] = x]) = IF x.pc \in {"created", "unadopted"} THEN {x.new} ELSE {}
<1> DEFINE f == [q EXCEPT ![1] = x]
<1>1. q \in Seq(ActionType) /\ DOMAIN q = 1..Len(q) /\ Len(q) \in Nat /\ 1 \in DOMAIN q
  BY Behind DEF ActionsFit
<1>3. f \in Seq(ActionType) /\ DOMAIN f = DOMAIN q /\ f[1] = x /\ \A i \in DOMAIN q : i # 1 => f[i] = q[i]
  BY <1>1
<1>4. f # <<>>
  BY <1>1, <1>3
<1> HIDE DEF f
<1>5. ActionsFit(f, fx)
  BY <1>3 DEF ActionsFit
<1>6. Given(f) = IF x.pc \in {"created", "unadopted"} THEN {x.new} ELSE {}
  BY <1>3, <1>4 DEF Given
<1> QED
  BY <1>5, <1>6 DEF f

LEMMA ActionsGrow ==
    ASSUME NEW q, NEW ex, ActionsFit(q, ex)
    PROVE  LET r == Append(q, [pc |-> "queued", old |-> None, new |-> None])
           IN  ActionsFit(r, ex) /\ Given(r) = Given(q)
<1> DEFINE x == [pc |-> "queued", old |-> None, new |-> None]
           r == Append(q, x)
<1>1. x \in ActionType /\ x.pc = "queued"
  BY DEF ActionType, Id
<1>2. q \in Seq(ActionType)
  BY DEF ActionsFit
<1> HIDE DEF x
<1>3. /\ r \in Seq(ActionType) /\ r # <<>>
      /\ \A i \in DOMAIN r : (i \in DOMAIN q /\ r[i] = q[i]) \/ (i = Len(q) + 1 /\ r[i] = x)
      /\ q # <<>> => r[1] = q[1]
      /\ q = <<>> => r[1] = x
  BY <1>1, <1>2, Appended
<1> HIDE DEF r
<1>4. ActionsFit(r, ex)
  BY <1>1, <1>3 DEF ActionsFit
<1>5. Given(r) = Given(q)
  BY <1>1, <1>3 DEF Given
<1> QED
  BY <1>4, <1>5 DEF r, x

LEMMA ActionsElsewhere ==
    ASSUME NEW q, NEW ex, ActionsFit(q, ex), q # <<>> => q[1].pc # "renamed", NEW fx
    PROVE  ActionsFit(q, fx)
<1>1. q \in Seq(ActionType)
  BY DEF ActionsFit
<1>2. \A i \in DOMAIN q : q # <<>>
  BY <1>1
<1> QED
  BY <1>1, <1>2 DEF ActionsFit

RestoreType ==
    [todo : SUBSET Notes, done : Seq(Notes), late : Id, retry : SUBSET Notes, last : Id]
BatchType ==
    [kind : {"all", "others", "exit"}, keep : Id, dirty : BOOLEAN,
     gone : SUBSET Notes, saved : SUBSET Notes]
AnchorType == [id : Id, order : Seq(Notes)]

(* The types; core sessions are of Notes that exist; what restoration has    *)
(* left to do is not done.                                                   *)
Parts ==
    /\ core \subseteq exists /\ exists \subseteq Notes
    /\ ui \in UIType /\ Distinct(ui.tabs)
    /\ TasksFit(opens) /\ ClosesFit(closes) /\ ActionsFit(actions, exists)
    /\ restore \in RestoreType /\ Distinct(restore.done)
    /\ restore.todo \cap Range(restore.done) = {}
    /\ batch \in BatchType \cup {None} /\ anchor \in AnchorType

(* Restoration and late closes belong to the head of the open queue.         *)
Turns ==
    /\ restore.todo # {} \/ restore.done # <<>> => Restoring(opens)
    /\ restore.todo # {} => ~Retiring(opens)
    /\ Handing(closes) # {} => Retiring(opens)
    /\ Handing(closes) # {} /\ Restoring(opens) =>
          restore.done # <<>> /\ Handing(closes) = {Head(restore.done)}

(* Every session of the core is shown, retained, waits to be closed, is held *)
(* by restoration or by a creation: one of them, and none of these without a *)
(* session.                                                                  *)
Owners ==
    /\ core \subseteq Shown(ui) \cup Handing(closes) \cup Range(restore.done) \cup Given(actions)
    /\ Shown(ui) \subseteq core /\ Tabs(ui) \cap ui.retained = {}
    /\ ui.active \in Tabs(ui) \cup {None}
    /\ Handing(closes) \cup Range(restore.done) \subseteq core \ Shown(ui)
    /\ restore.todo # {} => Shown(ui) = {} /\ ui.active = None
    /\ Opened(opens) \cap Tabs(ui) = {}

TabsInv == Parts /\ Turns /\ Owners

LEMMA TabsInit == Init => TabsInv
<1> SUFFICES ASSUME Init PROVE TabsInv
  OBVIOUS
<1>1. PICK saved \in Saved :
        LET todo == saved.open \cup IdIn(saved.last) IN
        /\ exists = Files
        /\ core = {}
        /\ ui = [tabs |-> <<>>, active |-> None, selected |-> None, retained |-> {},
                 open |-> saved.open, last |-> saved.last]
        /\ opens = IF todo = {} THEN <<>>
                   ELSE <<[Task("restore", None, None) EXCEPT !.pc = "core"]>>
        /\ restore = [todo |-> todo, done |-> <<>>, late |-> None, retry |-> {},
                     last |-> saved.last]
        /\ closes = <<>> /\ batch = None /\ actions = <<>>
        /\ gates = [rescan |-> FALSE, reload |-> FALSE]
        /\ anchor = NoAnchor /\ exited = FALSE
        /\ history = [excused |-> FALSE, quirks |-> {}]
        /\ spent = [calls |-> 0, faults |-> 0]
  BY DEF Init
<1>2. saved.open \in SUBSET Notes /\ saved.last \in Id /\ IdIn(saved.last) \in SUBSET Notes
  BY SavedAssumption DEF Id, IdIn
<1> DEFINE t == [Task("restore", None, None) EXCEPT !.pc = "core"]
<1>3. t \in TaskType /\ t.kind = "restore" /\ t.pc = "core"
  BY DEF TaskType, Task, Id
<1> HIDE DEF t
<1>4. /\ restore.done = <<>> /\ restore.todo \in SUBSET Notes /\ restore \in RestoreType
  BY <1>1, <1>2 DEF RestoreType, Id
<1>5. ui \in UIType /\ ui.tabs = <<>> /\ ui.retained = {} /\ ui.active = None
  BY <1>1, <1>2 DEF UIType, Id
<1>6. opens = IF restore.todo = {} THEN <<>> ELSE <<t>>
  BY <1>1 DEF t
<1>7. TasksFit(opens) /\ Opened(opens) = {} /\ ~Retiring(opens) /\ (restore.todo # {} => Restoring(opens))
  <2>1. CASE restore.todo = {}
    BY <1>6, <2>1, NoTask
  <2>2. CASE restore.todo # {}
    <3>1. TasksFit(opens) /\ opens # <<>> /\ opens[1] = t
      BY <1>3, <1>6, <2>2, OneTask
    <3> QED
      BY <3>1, <1>3 DEF Opened, Restoring, Retiring
  <2> QED
    BY <2>1, <2>2
<1>8. Tabs(ui) = {} /\ Distinct(ui.tabs) /\ Range(restore.done) = {} /\ Distinct(restore.done)
  BY <1>4, <1>5 DEF Tabs, Range, Distinct
<1>9. closes = <<>> /\ actions = <<>>
  BY <1>1
<1>10. ClosesFit(closes) /\ Handing(closes) = {} /\ ActionsFit(actions, exists) /\ Given(actions) = {}
  BY <1>9 DEF ClosesFit, Handing, ActionsFit, Given
<1>11. anchor \in AnchorType
  BY <1>1 DEF AnchorType, NoAnchor, Id
<1>12. core = {} /\ exists = Files /\ batch = None
  BY <1>1
<1>13. Parts
  BY <1>4, <1>5, <1>7, <1>8, <1>10, <1>11, <1>12, NotesAssumption DEF Parts
<1>14. Turns /\ Owners
  BY <1>4, <1>5, <1>7, <1>8, <1>10, <1>12 DEF Turns, Owners, Shown
<1> QED
  BY <1>13, <1>14 DEF TabsInv

LEMMA UIMoves ==
    ASSUME TabsInv,
           NEW active \in Tabs(ui) \cup {None}, restore.todo # {} => active = None,
           Looks(ui', Tabs(ui), ui.retained, active),
           UNCHANGED <<exists, core, restore>>,
           TasksFit(opens'), Same(opens', opens),
           ClosesFit(closes'), Handing(closes') = Handing(closes),
           ActionsFit(actions', exists), Given(actions') = Given(actions),
           batch' \in BatchType \cup {None}, anchor' \in AnchorType
    PROVE  TabsInv'
<1>1. Parts'
  BY DEF TabsInv, Parts, Looks
<1>2. Turns'
  BY DEF TabsInv, Turns, Same
<1>3. Owners'
  BY DEF TabsInv, Owners, Same, Looks, Shown
<1> QED
  BY <1>1, <1>2, <1>3 DEF TabsInv

LEMMA Idle ==
    ASSUME TabsInv, opens = <<>>
    PROVE  restore.todo = {} /\ restore.done = <<>> /\ Range(restore.done) = {} /\ Handing(closes) = {}
BY NoTask DEF TabsInv, Turns, Range

LEMMA IdleMoves ==
    ASSUME TabsInv, opens = <<>>, UNCHANGED <<restore, closes>>,
           TasksFit(opens'), Same(opens', <<>>),
           exists' \subseteq Notes, core' \subseteq exists', ActionsFit(actions', exists'),
           batch' \in BatchType \cup {None}, anchor' \in AnchorType,
           NEW shows, NEW owed, NEW active, Looks(ui', shows, owed, active),
           core' \subseteq shows \cup owed \cup Given(actions'),
           shows \cup owed \subseteq core', shows \cap owed = {}, active \in shows \cup {None}
    PROVE  TabsInv'
<1>1. restore.todo = {} /\ restore.done = <<>> /\ Range(restore.done) = {} /\ Handing(closes) = {}
  BY Idle
<1>2. Opened(opens') = {} /\ ~Restoring(opens') /\ ~Retiring(opens')
  BY NoTask DEF Same
<1>3. Parts'
  BY DEF TabsInv, Parts, Looks
<1>4. Turns'
  BY <1>1, <1>2 DEF Turns
<1>5. Owners'
  BY <1>1, <1>2 DEF Owners, Looks, Shown
<1> QED
  BY <1>3, <1>4, <1>5 DEF TabsInv

-----------------------------------------------------------------------------
(* Each action keeps it, as long as no situation of Disowning has come up.   *)

(* The situations of `Quirks` in which a session loses its owner or its tab. *)
Disowning == {"retaken", "rehomed", "unmounted", "orphaned", "twice", "overtaken"}
Calm == history.quirks \cap Disowning = {}

LEMMA TabsSelect == \A n \in Notes : TabsInv /\ Select(n) => TabsInv'
<1> SUFFICES ASSUME TabsInv, NEW n \in Notes, Select(n) PROVE TabsInv'
  OBVIOUS
<1>1. ui' = [ui EXCEPT !.selected = n] /\ opens' = Publish(opens, n)
      /\ UNCHANGED <<exists, core, restore, closes, batch, actions, anchor>>
  BY DEF Select
<1>2. Looks(ui', Tabs(ui), ui.retained, ui.active)
  BY <1>1, LooksSelected DEF TabsInv, Parts, Id
<1>3. TasksFit(opens') /\ Same(opens', opens)
  BY <1>1, PublishFacts DEF TabsInv, Parts
<1> QED
  BY <1>1, <1>2, <1>3, UIMoves DEF TabsInv, Parts, Owners

LEMMA TabsOpenStart == TabsInv /\ OpenStart => TabsInv'
<1> SUFFICES ASSUME TabsInv, OpenStart PROVE TabsInv'
  OBVIOUS
<1> DEFINE t == Head(opens)
<1>1. /\ opens # <<>> /\ t.pc = "queued" /\ t = opens[1] /\ t \in TaskType /\ t.kind # "restore"
      /\ t.note \in Notes /\ UNCHANGED <<exists, core, restore, closes, batch, actions, anchor>>
  <2>1. opens # <<>> /\ t.pc = "queued" /\ UNCHANGED <<exists, core, restore, closes, batch, actions, anchor>>
    BY DEF OpenStart, Ready
  <2>2. TasksFit(opens) /\ 1 \in DOMAIN opens
    BY <2>1, Behind DEF TabsInv, Parts, TasksFit
  <2>3. t = opens[1] /\ t \in TaskType /\ (t.kind # "restore" => t.note \in Notes)
    BY <2>1, <2>2, TaskEnds
  <2> QED
    BY <2>1, <2>2, <2>3 DEF TasksFit
<1>2. ~Restoring(opens) /\ ~Retiring(opens) /\ Opened(opens) = {}
  BY <1>1 DEF Restoring, Retiring, Opened
<1>3. restore.todo = {} /\ restore.done = <<>> /\ Handing(closes) = {}
  BY <1>2 DEF TabsInv, Turns
<1>4. TasksFit(Tail(opens)) /\ Same(Tail(opens), opens)
  <2>1. TasksFit(Tail(opens)) /\ Same(Tail(opens), <<>>)
    BY <1>1, TaskEnds DEF TabsInv, Parts
  <2> QED
    BY <1>2, <2>1, NoTask DEF Same
<1>5. CASE ui' = ui /\ opens' = Tail(opens)
  <2>1. Looks(ui', Tabs(ui), ui.retained, ui.active)
    BY <1>5 DEF Looks, TabsInv, Parts
  <2> QED
    BY <1>1, <1>3, <1>4, <1>5, <2>1, UIMoves DEF TabsInv, Parts, Owners
<1>6. CASE /\ ui.active = t.note \/ Has(ui, t.note)
           /\ ui' = Record(Release(AppendTab([ui EXCEPT !.active = t.note], t.note), t.note), t.note, t.from)
           /\ opens' = Tail(opens)
  <2>1. t.note \in Tabs(ui) /\ t.note \notin ui.retained
    BY <1>1, <1>6, NotesAssumption DEF TabsInv, Owners, Has
  <2> DEFINE v == [ui EXCEPT !.active = t.note]
             w == Release(AppendTab(v, t.note), t.note)
  <2>2. Looks(v, Tabs(ui), ui.retained, t.note)
    BY <1>1, LooksActive DEF Id, TabsInv, Parts
  <2> HIDE DEF v
  <2>0. Tabs(ui) \cup {t.note} = Tabs(ui) /\ ui.retained \ {t.note} = ui.retained
    BY <2>1
  <2>3. Looks(AppendTab(v, t.note), Tabs(ui), ui.retained, t.note)
    BY <1>1, <2>0, <2>2, LooksAppendTab DEF Looks
  <2>4. Looks(w, Tabs(ui), ui.retained, t.note)
    BY ZenonT(60), <1>1, <2>0, <2>3, LooksRelease DEF Looks
  <2> HIDE DEF w
  <2>5. Looks(Record(w, t.note, t.from), Tabs(ui), ui.retained, t.note)
    BY <1>1, <2>4, LooksRecord DEF Looks
  <2> QED
    BY <1>1, <1>3, <1>4, <1>6, <2>1, <2>5, UIMoves DEF TabsInv, Parts, w, v
<1>7. CASE /\ ui' = ui /\ ui.active # t.note /\ ~Has(ui, t.note)
           /\ opens' = <<[t EXCEPT !.pc = "core", !.fenced = FALSE]>>
  <2> DEFINE r == [t EXCEPT !.pc = "core", !.fenced = FALSE]
  <2>1. r \in TaskType /\ r.kind = t.kind /\ r.note = t.note /\ r.pc = "core"
    BY <1>1 DEF TaskType
  <2> HIDE DEF r
  <2>2. TasksFit(opens') /\ opens' # <<>> /\ opens'[1] = r
    BY <1>1, <1>7, <2>1, OneTask DEF r
  <2>3. Opened(opens') = {t.note} /\ ~Restoring(opens') /\ ~Retiring(opens')
    BY <1>1, <2>1, <2>2 DEF Opened, Restoring, Retiring
  <2>4. Parts'
    BY <1>1, <1>7, <2>2 DEF TabsInv, Parts
  <2>5. Turns'
    BY <1>1, <1>3, <2>3 DEF Turns
  <2>6. Owners'
    BY <1>1, <1>3, <1>7, <2>3 DEF TabsInv, Owners, Has
  <2> QED
    BY <2>4, <2>5, <2>6 DEF TabsInv
<1> QED
  BY <1>5, <1>6, <1>7 DEF OpenStart

QuirkNames ==
    {"retaken", "rehomed", "unmounted", "orphaned", "twice", "overtaken", "slipped", "unsaved"}

HistoryFits == history \in [excused : BOOLEAN, quirks : SUBSET QuirkNames]

(* An answer that has been overtaken and disowns nothing is of a Note that   *)
(* neither the tabs nor the selection knows.                                 *)
LEMMA MissedFacts ==
    ASSUME NEW n \in Notes
    PROVE  /\ Missed(n) \in SUBSET QuirkNames
           /\ Missed(n) \cap Disowning = {} /\ ~Expected =>
                 n \notin Tabs(ui) /\ n \notin ui.retained /\ n # ui.selected
<1>1. n # None
  BY NotesAssumption
<1>2. CASE ~Expected /\ n \in Tabs(ui) \cup ui.retained \cup IdIn(ui.selected)
  BY <1>2 DEF Missed, QuirkNames, Disowning
<1>3. CASE ~(~Expected /\ n \in Tabs(ui) \cup ui.retained \cup IdIn(ui.selected))
  BY <1>1, <1>3 DEF Missed, IdIn
<1> QED
  BY <1>2, <1>3

LEMMA Answers ==
    ASSUME TabsInv, NEW kinds, NEW pc, Answering(kinds, pc)
    PROVE  /\ opens # <<>> /\ Head(opens) = opens[1] /\ opens[1] \in TaskType
           /\ opens[1].kind \in kinds /\ opens[1].pc = pc
           /\ opens[1].kind # "restore" => opens[1].note \in Notes
           /\ TasksFit(Tail(opens)) /\ Opened(Tail(opens)) = {}
           /\ ~Restoring(Tail(opens)) /\ ~Retiring(Tail(opens))
<1>1. opens # <<>> /\ Head(opens).kind \in kinds /\ Head(opens).pc = pc
  BY DEF Answering
<1> QED
  BY <1>1, TaskEnds, NoTask DEF TabsInv, Parts, Same

LEMMA TabsOpenAnswered == TabsInv /\ HistoryFits /\ Calm' /\ OpenAnswered => TabsInv'
<1> SUFFICES ASSUME TabsInv, HistoryFits, Calm', OpenAnswered PROVE TabsInv'
  OBVIOUS
<1> DEFINE t == opens[1]
<1>1. /\ Answering({"user", "life"}, "core") /\ Head(opens).note \in exists
      /\ core' = core \cup {Head(opens).note}
      /\ UNCHANGED <<exists, restore, batch, actions, anchor>>
  BY DEF OpenAnswered
<1>2. /\ opens # <<>> /\ Head(opens) = t /\ t \in TaskType /\ t.kind # "restore" /\ t.pc = "core"
      /\ t.note \in Notes \cap exists /\ core' = core \cup {t.note}
      /\ TasksFit(Tail(opens)) /\ Opened(Tail(opens)) = {}
      /\ ~Restoring(Tail(opens)) /\ ~Retiring(Tail(opens))
  BY <1>1, Answers
<1>3. ~Restoring(opens) /\ ~Retiring(opens) /\ Opened(opens) = {t.note}
  BY <1>2 DEF Restoring, Retiring, Opened
<1>4. restore.todo = {} /\ restore.done = <<>> /\ Handing(closes) = {} /\ Range(restore.done) = {}
  BY <1>3 DEF TabsInv, Turns, Range
<1>5. t.note \notin Tabs(ui)
  BY <1>3 DEF TabsInv, Owners
<1>6. CASE /\ ui' = Record(Release(AppendTab([ui EXCEPT !.active = t.note], t.note), t.note), t.note, t.from)
           /\ opens' = Tail(opens) /\ UNCHANGED closes
  <2> DEFINE v == [ui EXCEPT !.active = t.note]
             w == Release(AppendTab(v, t.note), t.note)
  <2>1. Looks(v, Tabs(ui), ui.retained, t.note)
    BY <1>2, LooksActive DEF Id, TabsInv, Parts
  <2> HIDE DEF v
  <2>2. Looks(AppendTab(v, t.note), Tabs(ui) \cup {t.note}, ui.retained, t.note)
    BY <1>2, <2>1, LooksAppendTab DEF Looks
  <2>3. Looks(w, Tabs(ui) \cup {t.note}, ui.retained \ {t.note}, t.note)
    BY <1>2, <2>2, LooksRelease DEF Looks
  <2> HIDE DEF w
  <2>4. Looks(Record(w, t.note, t.from), Tabs(ui) \cup {t.note}, ui.retained \ {t.note}, t.note)
    BY <1>2, <2>3, LooksRecord DEF Looks
  <2>5. Looks(ui', Tabs(ui) \cup {t.note}, ui.retained \ {t.note}, t.note)
    BY <1>6, <2>4 DEF w, v
  <2>6. Parts'
    BY <1>1, <1>2, <1>6, <2>5 DEF TabsInv, Parts, Looks
  <2>7. Turns'
    BY <1>1, <1>4, <1>6 DEF Turns
  <2>8. Owners'
    BY <1>1, <1>2, <1>4, <1>6, <2>5 DEF TabsInv, Owners, Looks, Shown
  <2> QED
    BY <2>6, <2>7, <2>8 DEF TabsInv
<1>7. CASE /\ opens' = [opens EXCEPT ![1].pc = "retire"]
           /\ closes' = Append(closes, [kind |-> "retire", note |-> t.note])
           /\ Excuse(IF t.note \in ui.retained THEN {"retaken"} ELSE {})
           /\ UNCHANGED ui
  <2>1. t.note \notin ui.retained
    BY <1>7 DEF Excuse, Calm, Disowning, HistoryFits
  <2>2. TasksFit(opens') /\ opens' # <<>> /\ opens'[1].kind = t.kind /\ opens'[1].pc = "retire"
    BY <1>2, <1>7, TaskTurns DEF TabsInv, Parts
  <2>3. Opened(opens') = {} /\ ~Restoring(opens') /\ Retiring(opens')
    BY <1>2, <2>2 DEF Opened, Restoring, Retiring
  <2>4. ClosesFit(closes') /\ Handing(closes') = {t.note}
    BY <1>2, <1>4, <1>7, CloseQueued DEF TabsInv, Parts
  <2>5. Parts'
    BY <1>1, <1>2, <1>7, <2>2, <2>4 DEF TabsInv, Parts
  <2>6. Turns'
    BY <1>1, <1>4, <2>3 DEF Turns
  <2>7. Owners'
    BY <1>1, <1>2, <1>4, <1>5, <1>7, <2>1, <2>3, <2>4 DEF TabsInv, Owners, Shown
  <2> QED
    BY <2>5, <2>6, <2>7 DEF TabsInv
<1> QED
  BY <1>2, <1>6, <1>7 DEF OpenAnswered

LEMMA TabsOpenFailed == TabsInv /\ OpenFailed => TabsInv'
<1> SUFFICES ASSUME TabsInv, OpenFailed PROVE TabsInv'
  OBVIOUS
<1>1. /\ Answering({"user", "life"}, "core") /\ opens' = Tail(opens)
      /\ UNCHANGED <<exists, core, ui, restore, closes, batch, actions, anchor>>
  BY DEF OpenFailed
<1>2. /\ opens # <<>> /\ opens[1].kind # "restore" /\ opens[1].pc = "core"
      /\ TasksFit(opens') /\ Opened(opens') = {} /\ ~Restoring(opens') /\ ~Retiring(opens')
  BY <1>1, Answers
<1>3. restore.todo = {} /\ restore.done = <<>> /\ Handing(closes) = {}
  BY <1>2 DEF TabsInv, Turns, Restoring, Retiring
<1>4. Parts'
  BY <1>1, <1>2 DEF TabsInv, Parts
<1>5. Turns'
  BY <1>1, <1>3 DEF Turns
<1>6. Owners'
  BY <1>1, <1>2, <1>3 DEF TabsInv, Owners, Shown
<1> QED
  BY <1>4, <1>5, <1>6 DEF TabsInv

(* Restoration ends with what it held shown or given back.                   *)
LEMMA TabsRestoreEnds ==
    ASSUME TabsInv, opens # <<>>, NEW u, NEW retry \in SUBSET Notes, RestoreEnds(u, retry),
           NEW shows, NEW owed, NEW active, Looks(u, shows, owed, active), active \in shows \cup {None},
           ClosesFit(closes'), Handing(closes') = {},
           core' \subseteq exists, core' \subseteq shows \cup owed \cup Given(actions),
           shows \cup owed \subseteq core', shows \cap owed = {},
           UNCHANGED <<exists, actions, anchor>>, batch' \in BatchType \cup {None}
    PROVE  TabsInv'
<1>1. /\ TasksFit(Tail(opens)) /\ Opened(Tail(opens)) = {}
      /\ ~Restoring(Tail(opens)) /\ ~Retiring(Tail(opens))
  BY TaskEnds, NoTask DEF TabsInv, Parts, Same
<1>2. restore' \in RestoreType /\ restore'.todo = {} /\ restore'.done = <<>>
  <2> DEFINE r == restore
             f == <<>>
  <2>1. restore' = [r EXCEPT !.todo = {}, !.late = None, !.done = f, !.retry = retry]
    BY DEF RestoreEnds
  <2>2. r \in RestoreType /\ f \in Seq(Notes) /\ None \in Id
    BY DEF TabsInv, Parts, Id
  <2> HIDE DEF r, f
  <2>3. restore' \in RestoreType /\ restore'.todo = {} /\ restore'.done = f
    BY <2>1, <2>2 DEF RestoreType
  <2> QED
    BY <2>3 DEF f
<1>3. Looks(ui', shows, owed, active)
  <2>1. u \in UIType /\ Distinct(u.tabs) /\ u.active = active /\ active \in Id
    BY LastType DEF Looks
  <2>2. Looks([u EXCEPT !.selected = u.active], shows, owed, active)
    BY <2>1, LooksSelected DEF Looks
  <2> QED
    BY <2>2 DEF RestoreEnds
<1>4. TasksFit(opens') /\ Opened(opens') = {} /\ ~Restoring(opens') /\ ~Retiring(opens')
  <2>1. CASE opens' = Tail(opens)
    BY <1>1, <2>1
  <2>2. CASE opens' = Publish(Tail(opens), u.active) /\ u.active # None
    <3>1. u.active \in Notes
      BY <2>2, LastType DEF Looks, Id
    <3> QED
      BY <1>1, <2>2, <3>1, PublishFacts DEF Same
  <2> QED
    BY <2>1, <2>2 DEF RestoreEnds
<1>5. Range(restore'.done) = {} /\ Distinct(restore'.done)
  BY <1>2 DEF Range, Distinct
<1>6. Parts'
  BY <1>2, <1>3, <1>4, <1>5 DEF TabsInv, Parts, Looks
<1>7. Turns'
  BY <1>2, <1>4 DEF Turns
<1>8. Owners'
  BY <1>2, <1>3, <1>4, <1>5 DEF Owners, Looks, Shown
<1> QED
  BY <1>6, <1>7, <1>8 DEF TabsInv

(* It starts to give back what it holds.                                     *)
LEMMA TabsGiveBack ==
    ASSUME TabsInv, Restoring(opens), NEW late \in Id, NEW held \in Seq(Notes), held # <<>>,
           Distinct(held), NEW queue, ClosesFit(queue), Handing(queue) = {},
           GiveBack(queue, late, held), ui' \in UIType, Distinct(ui'.tabs),
           Tabs(ui') \cap ui'.retained = {}, ui'.active \in Tabs(ui') \cup {None},
           core' \subseteq exists, core' \subseteq Shown(ui') \cup Range(held) \cup Given(actions),
           Shown(ui') \cup Range(held) \subseteq core', Shown(ui') \cap Range(held) = {},
           UNCHANGED <<exists, actions, anchor>>, batch' \in BatchType \cup {None}
    PROVE  TabsInv'
<1>1. Head(held) \in Notes /\ Head(held) \in Range(held)
  BY Behind
<1>2. opens # <<>> /\ opens[1].kind = "restore"
  BY DEF Restoring
<1>3. TasksFit(opens') /\ opens' # <<>> /\ opens'[1].kind = "restore" /\ opens'[1].pc = "retire"
  BY <1>2, TaskTurns DEF TabsInv, Parts, GiveBack
<1>4. Opened(opens') = {} /\ Restoring(opens') /\ Retiring(opens')
  BY <1>3 DEF Opened, Restoring, Retiring
<1>5. ClosesFit(closes') /\ Handing(closes') = {Head(held)}
  BY <1>1, CloseQueued DEF GiveBack
<1>6. restore' \in RestoreType /\ restore'.todo = {} /\ restore'.done = held
  BY DEF GiveBack, TabsInv, Parts, RestoreType
<1>7. Parts'
  BY <1>3, <1>5, <1>6 DEF TabsInv, Parts
<1>8. Turns'
  BY <1>4, <1>5, <1>6 DEF Turns
<1>9. Owners'
  BY <1>1, <1>4, <1>5, <1>6 DEF Owners, Shown
<1> QED
  BY <1>7, <1>8, <1>9 DEF TabsInv

LEMMA LooksRestored ==
    ASSUME NEW u \in UIType, NEW held \in Seq(Notes), Distinct(held), NEW retry \in SUBSET Notes
    PROVE  /\ Looks(Restored(u, held, retry), Range(held), u.retained, Restored(u, held, retry).active)
           /\ Restored(u, held, retry).active \in Range(held) \cup {None}
<1> DEFINE active == IF held = <<>> THEN None
                     ELSE IF restore.last \in Range(held) THEN restore.last ELSE Head(held)
           r == Range(held) \cup retry
<1>1. active \in Range(held) \cup {None}
  BY Behind
<1>2. Range(held) \subseteq Notes
  BY DEF Range
<1>3. Restored(u, held, retry) = [u EXCEPT !.tabs = held, !.active = active, !.open = r, !.last = active]
  BY DEF Restored
<1>4. r \in SUBSET Notes /\ active \in Id
  BY <1>1, <1>2 DEF Id
<1> HIDE DEF active, r
<1> QED
  BY <1>1, <1>3, <1>4 DEF Looks, UIType, Tabs

LEMMA LooksGivenBack ==
    ASSUME NEW u \in UIType, Distinct(u.tabs)
    PROVE  Looks(GivenBack(u), Tabs(u), u.retained, u.active)
<1> DEFINE x == IF Has(u, u.active) THEN u.active ELSE None
           S == Tabs(u)
<1>1. S \in SUBSET Notes /\ x \in Id
  BY LastType DEF Id
<1>2. GivenBack(u) = IF Exiting THEN u ELSE [u EXCEPT !.open = S, !.last = x]
  BY DEF GivenBack
<1> HIDE DEF x, S
<1>3. CASE Exiting
  BY <1>2, <1>3 DEF Looks
<1>4. CASE ~Exiting
  <2>1. GivenBack(u) = [u EXCEPT !.open = S, !.last = x]
    BY <1>2, <1>4
  <2> QED
    BY <1>1, <2>1, LooksSaved, Zenon
<1> QED
  BY <1>3, <1>4

LEMMA KeptType == TabsInv => Kept \in SUBSET Notes
<1> SUFFICES ASSUME TabsInv PROVE Kept \in SUBSET Notes
  OBVIOUS
<1>1. restore.retry \in SUBSET Notes /\ ui.open \in SUBSET Notes /\ IdIn(ui.last) \in SUBSET Notes
  BY DEF TabsInv, Parts, RestoreType, UIType, IdIn, Id
<1> QED
  BY <1>1 DEF Kept, SavedIds

(* While restoration opens its Notes it is all there is.                     *)
LEMMA RestoringState ==
    ASSUME TabsInv, Answering({"restore"}, "core")
    PROVE  /\ opens # <<>> /\ Restoring(opens) /\ ~Retiring(opens) /\ Handing(closes) = {}
           /\ ClosesFit(closes) /\ batch \in BatchType \cup {None}
           /\ restore.done \in Seq(Notes) /\ Distinct(restore.done) /\ restore.todo \in SUBSET Notes
           /\ restore.retry \in SUBSET Notes /\ Opened(opens) = {}
           /\ Range(restore.done) \in SUBSET Notes
<1>1. opens # <<>> /\ opens[1].kind = "restore" /\ opens[1].pc = "core"
  BY Answers
<1>2. Restoring(opens) /\ ~Retiring(opens) /\ Opened(opens) = {}
  BY <1>1 DEF Restoring, Retiring, Opened
<1> QED
  BY <1>1, <1>2 DEF TabsInv, Turns, Parts, RestoreType, Range

LEMMA TabsRestoreAnswered == \A n \in Notes : TabsInv /\ RestoreAnswered(n) => TabsInv'
<1> SUFFICES ASSUME TabsInv, NEW n \in Notes, RestoreAnswered(n) PROVE TabsInv'
  OBVIOUS
<1> DEFINE held == Append(restore.done, n)
           left == restore.todo \ {n}
           back == <<n>> \o restore.done
<1>1. /\ Answering({"restore"}, "core") /\ n \in restore.todo \cap exists /\ core' = core \cup {n}
      /\ UNCHANGED <<exists, batch, actions, anchor>>
  BY DEF RestoreAnswered
<1>2. \/ GiveBack(closes, n, back) /\ UNCHANGED ui
      \/ /\ left # {} /\ restore' = [restore EXCEPT !.todo = left, !.done = held]
         /\ UNCHANGED <<ui, opens, closes>>
      \/ /\ left = {} /\ RestoreEnds(Restored(ui, held, restore.retry), restore.retry)
         /\ UNCHANGED closes
  BY DEF RestoreAnswered
<1>3. /\ opens # <<>> /\ Restoring(opens) /\ ~Retiring(opens) /\ Handing(closes) = {}
      /\ ClosesFit(closes) /\ batch \in BatchType \cup {None}
      /\ restore.done \in Seq(Notes) /\ Distinct(restore.done) /\ restore.todo \in SUBSET Notes
      /\ restore.retry \in SUBSET Notes /\ Opened(opens) = {}
  BY <1>1, RestoringState
<1>4. Shown(ui) = {} /\ ui.active = None /\ n \notin Range(restore.done)
  BY <1>1 DEF TabsInv, Owners, Parts
<1>5. Tabs(ui) = {} /\ ui.retained = {}
  BY <1>4 DEF Shown
<1>6. core' \subseteq exists /\ core' \subseteq Range(restore.done) \cup {n} \cup Given(actions)
      /\ Range(restore.done) \cup {n} \subseteq core'
  BY <1>1, <1>3, <1>4 DEF TabsInv, Owners, Parts
<1>7. held \in Seq(Notes) /\ Range(held) = Range(restore.done) \cup {n} /\ Distinct(held) /\ held # <<>>
  BY <1>3, <1>4, Appended
<1>8. back \in Seq(Notes) /\ Range(back) = Range(restore.done) \cup {n} /\ Distinct(back) /\ back # <<>>
  <2>1. <<n>> \in Seq(Notes) /\ Range(<<n>>) = {n} /\ Distinct(<<n>>) /\ Len(<<n>>) = 1
    BY DEF Range, Distinct
  <2>2. back \in Seq(Notes) /\ Range(back) = Range(<<n>>) \cup Range(restore.done) /\ Distinct(back)
    <3> DEFINE f == <<n>>
               d == restore.done
    <3>1. f \in Seq(Notes) /\ d \in Seq(Notes) /\ Distinct(f) /\ Distinct(d) /\ Range(f) \cap Range(d) = {}
      BY <1>3, <1>4, <2>1
    <3> HIDE DEF f, d
    <3>2. f \o d \in Seq(Notes) /\ Range(f \o d) = Range(f) \cup Range(d) /\ Distinct(f \o d)
      BY <3>1, Joined
    <3> QED
      BY <3>2 DEF f, d
  <2>3. back # <<>>
    <3>1. n \in Range(back)
      BY <2>1, <2>2
    <3> HIDE DEF back
    <3> QED
      BY <3>1 DEF Range
  <2> QED
    BY <2>1, <2>2, <2>3
<1> HIDE DEF held, left, back
<1>9. CASE GiveBack(closes, n, back) /\ UNCHANGED ui
  <2>1. ui' \in UIType /\ Distinct(ui'.tabs) /\ Shown(ui') = {} /\ Tabs(ui') = {} /\ ui'.active = None
    BY <1>4, <1>5, <1>9 DEF TabsInv, Parts
  <2>2. n \in Id /\ batch' \in BatchType \cup {None}
    BY <1>1, <1>3 DEF Id
  <2> QED
    BY <1>1, <1>3, <1>6, <1>8, <1>9, <2>1, <2>2, TabsGiveBack
<1>10. CASE /\ left # {} /\ restore' = [restore EXCEPT !.todo = left, !.done = held]
            /\ UNCHANGED <<ui, opens, closes>>
  <2>1. restore' \in RestoreType /\ restore'.todo = left /\ restore'.done = held
    <3>1. left \in SUBSET Notes
      BY <1>3 DEF left
    <3> QED
      BY <1>7, <1>10, <3>1 DEF TabsInv, Parts, RestoreType
  <2>2. left \cap Range(held) = {}
    BY <1>7 DEF TabsInv, Parts, left
  <2>3. Parts'
    BY <1>1, <1>6, <1>7, <1>10, <2>1, <2>2 DEF TabsInv, Parts
  <2>4. Turns'
    BY <1>3, <1>10 DEF Turns
  <2>5. Owners'
    BY <1>1, <1>3, <1>4, <1>5, <1>6, <1>7, <1>10, <2>1 DEF Owners, Shown
  <2> QED
    BY <2>3, <2>4, <2>5 DEF TabsInv
<1>11. CASE /\ left = {} /\ RestoreEnds(Restored(ui, held, restore.retry), restore.retry)
            /\ UNCHANGED closes
  <2> DEFINE u == Restored(ui, held, restore.retry)
  <2>1. Looks(u, Range(held), ui.retained, u.active) /\ u.active \in Range(held) \cup {None}
    BY <1>3, <1>7, LooksRestored DEF TabsInv, Parts
  <2> HIDE DEF u
  <2>2. batch' \in BatchType \cup {None} /\ ClosesFit(closes') /\ Handing(closes') = {}
    BY <1>1, <1>3, <1>11
  <2>3. RestoreEnds(u, restore.retry)
    BY <1>11 DEF u
  <2>4. core' \subseteq Range(held) \cup ui.retained \cup Given(actions) /\ Range(held) \cup ui.retained \subseteq core'
        /\ Range(held) \cap ui.retained = {}
    BY <1>5, <1>6, <1>7
  <2> QED
    BY <1>1, <1>3, <1>6, <2>1, <2>2, <2>3, <2>4, TabsRestoreEnds
<1> QED
  BY <1>2, <1>9, <1>10, <1>11

LEMMA TabsRestoreFailed == \A n \in Notes : TabsInv /\ RestoreFailed(n) => TabsInv'
<1> SUFFICES ASSUME TabsInv, NEW n \in Notes, RestoreFailed(n) PROVE TabsInv'
  OBVIOUS
<1> DEFINE left == restore.todo \ {n}
           retry == restore.retry \cup ({n} \cap exists)
           u == IF n \in exists THEN ui ELSE RemoveSaved(ui, {n})
<1>1. /\ Answering({"restore"}, "core") /\ n \in restore.todo
      /\ UNCHANGED <<exists, core, batch, actions, anchor>>
  BY DEF RestoreFailed
<1>2. \/ restore.done # <<>> /\ GiveBack(closes, None, restore.done) /\ UNCHANGED ui
      \/ restore.done = <<>> /\ RestoreEnds(GivenBack(ui), Kept) /\ UNCHANGED closes
      \/ /\ left # {} /\ restore' = [restore EXCEPT !.todo = left, !.retry = retry]
         /\ ui' = u /\ UNCHANGED <<opens, closes>>
      \/ RestoreEnds(Restored(u, restore.done, retry), retry) /\ UNCHANGED closes
  BY DEF RestoreFailed
<1>3. /\ opens # <<>> /\ Restoring(opens) /\ ~Retiring(opens) /\ Handing(closes) = {}
      /\ ClosesFit(closes) /\ batch \in BatchType \cup {None}
      /\ restore.done \in Seq(Notes) /\ Distinct(restore.done) /\ restore.todo \in SUBSET Notes
      /\ restore.retry \in SUBSET Notes /\ Opened(opens) = {}
  BY <1>1, RestoringState
<1>4. Shown(ui) = {} /\ ui.active = None /\ Tabs(ui) = {} /\ ui.retained = {}
  BY <1>1 DEF TabsInv, Owners, Shown
<1>5. Looks(u, {}, {}, None)
  <2>1. ui \in UIType /\ Distinct(ui.tabs)
    BY DEF TabsInv, Parts
  <2> QED
    BY <1>4, <2>1, LooksRemoveSaved DEF Looks
<1>6. core' \subseteq exists /\ core' \subseteq Range(restore.done) \cup Given(actions)
      /\ Range(restore.done) \subseteq core'
  BY <1>1, <1>3, <1>4 DEF TabsInv, Owners, Parts
<1>7. left \in SUBSET Notes /\ retry \in SUBSET Notes /\ left \subseteq restore.todo
  BY <1>3
<1> HIDE DEF left, retry, u
<1>8. CASE restore.done # <<>> /\ GiveBack(closes, None, restore.done) /\ UNCHANGED ui
  <2>1. ui' \in UIType /\ Distinct(ui'.tabs) /\ Shown(ui') = {} /\ Tabs(ui') = {} /\ ui'.active = None
    BY <1>4, <1>8 DEF TabsInv, Parts
  <2>2. None \in Id /\ batch' \in BatchType \cup {None}
    BY <1>1, <1>3 DEF Id
  <2> QED
    BY <1>1, <1>3, <1>6, <1>8, <2>1, <2>2, TabsGiveBack
<1>9. CASE restore.done = <<>> /\ RestoreEnds(GivenBack(ui), Kept) /\ UNCHANGED closes
  <2> DEFINE g == GivenBack(ui)
  <2>1. Looks(g, {}, {}, None)
    BY <1>4, LooksGivenBack DEF TabsInv, Parts
  <2> HIDE DEF g
  <2>2. RestoreEnds(g, Kept) /\ Kept \in SUBSET Notes
    BY <1>9, KeptType DEF g
  <2>3. batch' \in BatchType \cup {None} /\ ClosesFit(closes') /\ Handing(closes') = {}
    BY <1>1, <1>3, <1>9
  <2>4. core' \subseteq {} \cup {} \cup Given(actions)
    BY <1>6, <1>9 DEF Range
  <2> QED
    BY <1>1, <1>3, <1>6, <2>1, <2>2, <2>3, <2>4, TabsRestoreEnds
<1>10. CASE /\ left # {} /\ restore' = [restore EXCEPT !.todo = left, !.retry = retry]
            /\ ui' = u /\ UNCHANGED <<opens, closes>>
  <2>1. restore' \in RestoreType /\ restore'.todo = left /\ restore'.done = restore.done
    BY <1>7, <1>10 DEF TabsInv, Parts, RestoreType
  <2>2. left \cap Range(restore.done) = {}
    BY <1>7 DEF TabsInv, Parts
  <2>3. Parts'
    BY <1>1, <1>5, <1>6, <1>10, <2>1, <2>2 DEF TabsInv, Parts, Looks
  <2>4. Turns'
    BY <1>3, <1>10 DEF Turns
  <2>5. Owners'
    BY <1>1, <1>3, <1>5, <1>6, <1>10, <2>1 DEF Owners, Shown, Looks
  <2> QED
    BY <2>3, <2>4, <2>5 DEF TabsInv
<1>11. CASE RestoreEnds(Restored(u, restore.done, retry), retry) /\ UNCHANGED closes
  <2> DEFINE v == Restored(u, restore.done, retry)
  <2>1. Looks(v, Range(restore.done), {}, v.active) /\ v.active \in Range(restore.done) \cup {None}
    BY <1>3, <1>5, <1>7, LooksRestored DEF Looks
  <2> HIDE DEF v
  <2>2. batch' \in BatchType \cup {None} /\ ClosesFit(closes') /\ Handing(closes') = {}
    BY <1>1, <1>3, <1>11
  <2>3. RestoreEnds(v, retry)
    BY <1>11 DEF v
  <2> QED
    BY <1>1, <1>3, <1>6, <1>7, <2>1, <2>2, <2>3, TabsRestoreEnds
<1> QED
  BY <1>2, <1>8, <1>9, <1>10, <1>11

LEMMA TabsRetireAnswered == \A end : TabsInv /\ RetireAnswered(end) => TabsInv'
<1> SUFFICES ASSUME TabsInv, NEW end, RetireAnswered(end) PROVE TabsInv'
  OBVIOUS
<1> DEFINE n == Head(closes).note
           rest == Tail(restore.done)
           kept == IF n = restore.late THEN rest \o (IF end = "failure" THEN <<n>> ELSE <<>>)
                   ELSE (IF end = "failure" THEN <<n>> ELSE <<>>) \o rest
           u == IF end = "failure" THEN Preserve(ui, n) ELSE ui
<1>1. /\ closes # <<>> /\ Head(closes).kind = "retire" /\ end \in CloseEnds(n) /\ core' = CoreAfter(n, end)
      /\ UNCHANGED <<exists, actions, anchor>>
  BY DEF RetireAnswered, CloseTurn
<1>2. \/ /\ Head(opens).kind # "restore" /\ ui' = u
         /\ opens' = Tail(opens) /\ closes' = Tail(closes) /\ UNCHANGED <<restore, batch>>
      \/ /\ Head(opens).kind = "restore" /\ Exiting
         /\ RestoreEnds(PreserveAll(ui, kept), Kept)
         /\ closes' = Tail(closes)
         /\ batch' = [batch EXCEPT !.dirty = TRUE,
                                   !.gone = IF end = "warning" THEN @ \cup {n} ELSE @]
      \/ /\ Head(opens).kind = "restore" /\ Len(restore.done) > 1
         /\ GiveBack(Tail(closes), None, Tail(restore.done)) /\ ui' = u /\ UNCHANGED batch
      \/ /\ Head(opens).kind = "restore" /\ ~(Len(restore.done) > 1)
         /\ RestoreEnds(GivenBack(u), Kept) /\ closes' = Tail(closes) /\ UNCHANGED batch
  BY DEF RetireAnswered
<1>3. /\ ClosesFit(Tail(closes)) /\ n \in Notes /\ Handing(closes) = {n} /\ Handing(Tail(closes)) = {}
  BY <1>1, CloseEnded DEF TabsInv, Parts, CloseType
<1>4. Retiring(opens) /\ opens # <<>> /\ Head(opens) = opens[1] /\ opens[1].pc = "retire" /\ opens[1] \in TaskType
      /\ TasksFit(Tail(opens)) /\ Opened(Tail(opens)) = {}
      /\ ~Restoring(Tail(opens)) /\ ~Retiring(Tail(opens))
  <2>1. Retiring(opens)
    BY <1>3 DEF TabsInv, Turns
  <2>2. opens # <<>> /\ opens[1].pc = "retire"
    BY <2>1 DEF Retiring
  <2> QED
    BY <2>1, <2>2, TaskEnds, NoTask DEF TabsInv, Parts, Same
<1>5. restore.todo = {}
  BY <1>4 DEF TabsInv, Turns
<1>6. n \in core /\ n \notin Shown(ui) /\ n \notin Tabs(ui) /\ n \notin ui.retained
  BY <1>3 DEF TabsInv, Owners, Shown
<1>7. core' = IF end = "failure" THEN core ELSE core \ {n}
  BY <1>1 DEF CoreAfter
<1>8. ui \in UIType /\ Distinct(ui.tabs) /\ ui.active \in Tabs(ui) \cup {None}
  BY DEF TabsInv, Parts, Owners
<1>9. Looks(u, IF end = "failure" THEN Tabs(ui) \cup {n} ELSE Tabs(ui), ui.retained, ui.active)
  <2>1. Looks(Preserve(ui, n), Tabs(ui) \cup {n}, ui.retained \ {n}, ui.active)
    BY <1>3, <1>8, LooksPreserve
  <2>2. ui.retained \ {n} = ui.retained
    BY <1>6
  <2> QED
    BY <1>8, <2>1, <2>2 DEF Looks
<1>10. core' \subseteq exists
  BY <1>7 DEF TabsInv, Parts
<1> HIDE DEF n, rest, kept, u
<1>11. CASE /\ Head(opens).kind # "restore" /\ ui' = u
            /\ opens' = Tail(opens) /\ closes' = Tail(closes) /\ UNCHANGED <<restore, batch>>
  <2>1. ~Restoring(opens)
    BY <1>4, <1>11 DEF Restoring
  <2>2. restore.done = <<>> /\ Range(restore.done) = {}
    BY <2>1 DEF TabsInv, Turns, Range
  <2>3. Parts'
    BY <1>1, <1>3, <1>4, <1>9, <1>10, <1>11 DEF TabsInv, Parts, Looks
  <2>4. Turns'
    BY <1>3, <1>5, <1>11, <2>2 DEF Turns
  <2>5. Owners'
    <3>1. CASE end = "failure"
      BY <1>1, <1>3, <1>4, <1>5, <1>6, <1>7, <1>8, <1>9, <1>11, <2>2, <3>1 DEF TabsInv, Owners, Shown, Looks
    <3>2. CASE end # "failure"
      BY <1>1, <1>3, <1>4, <1>5, <1>6, <1>7, <1>8, <1>9, <1>11, <2>2, <3>2 DEF TabsInv, Owners, Shown, Looks
    <3> QED
      BY <3>1, <3>2
  <2> QED
    BY <2>3, <2>4, <2>5 DEF TabsInv
<1>12. ASSUME Head(opens).kind = "restore"
       PROVE  /\ Restoring(opens) /\ restore.done \in Seq(Notes) /\ restore.done # <<>> /\ n = Head(restore.done)
              /\ rest \in Seq(Notes) /\ Distinct(rest) /\ Range(restore.done) = {n} \cup Range(rest)
              /\ n \notin Range(rest) /\ Range(rest) \subseteq core \ Shown(ui)
              /\ (Len(restore.done) > 1 => rest # <<>>) /\ (~(Len(restore.done) > 1) => Range(rest) = {})
  <2>1. Restoring(opens)
    BY <1>4, <1>12 DEF Restoring
  <2>2. restore.done # <<>> /\ n = Head(restore.done) /\ restore.done \in Seq(Notes) /\ Distinct(restore.done)
    BY <1>3, <2>1 DEF TabsInv, Turns, Parts, RestoreType
  <2>3. /\ rest \in Seq(Notes) /\ Distinct(rest) /\ Range(restore.done) = {n} \cup Range(rest)
        /\ n \notin Range(rest) /\ (Len(restore.done) = 1 => rest = <<>>) /\ (Len(restore.done) > 1 => rest # <<>>)
    BY <2>2, Behind DEF rest
  <2>4. Len(restore.done) > 1 \/ Len(restore.done) = 1
    <3> DEFINE d == restore.done
    <3>1. d \in Seq(Notes) /\ d # <<>>
      BY <2>2
    <3> HIDE DEF d
    <3>2. Len(d) \in Nat /\ Len(d) >= 1
      BY <3>1
    <3>3. \A k \in Nat : k >= 1 => k > 1 \/ k = 1
      OBVIOUS
    <3>4. Len(d) > 1 \/ Len(d) = 1
      BY <3>2, <3>3, Zenon
    <3> QED
      BY <3>4 DEF d
  <2>5. Range(<<>>) = {}
    BY DEF Range
  <2> QED
    BY <2>1, <2>2, <2>3, <2>4, <2>5 DEF TabsInv, Owners
<1>13. Range(restore.done) \in SUBSET Notes /\ Kept \in SUBSET Notes /\ batch \in BatchType \cup {None}
  BY KeptType DEF TabsInv, Parts, RestoreType, Range
<1>14. CASE /\ Head(opens).kind = "restore" /\ Exiting
            /\ RestoreEnds(PreserveAll(ui, kept), Kept)
            /\ closes' = Tail(closes)
            /\ batch' = [batch EXCEPT !.dirty = TRUE,
                                      !.gone = IF end = "warning" THEN @ \cup {n} ELSE @]
  <2> DEFINE own == IF end = "failure" THEN <<n>> ELSE <<>>
             owns == IF end = "failure" THEN {n} ELSE {}
  <2>1. own \in Seq(Notes) /\ Distinct(own) /\ Range(own) = owns
    BY <1>3 DEF Distinct, Range
  <2>2. kept = rest \o own \/ kept = own \o rest
    BY DEF kept
  <2> HIDE DEF own
  <2>3. kept \in Seq(Notes) /\ Distinct(kept) /\ Range(kept) = Range(rest) \cup owns
    <3>1. Range(rest) \cap Range(own) = {} /\ Range(own) \cap Range(rest) = {}
      BY <1>12, <1>14, <2>1
    <3>2. CASE kept = rest \o own
      BY <1>12, <1>14, <2>1, <3>1, <3>2, Joined
    <3>3. CASE kept = own \o rest
      BY <1>12, <1>14, <2>1, <3>1, <3>3, Joined
    <3> QED
      BY <2>2, <3>2, <3>3
  <2> DEFINE v == PreserveAll(ui, kept)
  <2>4. Looks(v, Tabs(ui) \cup Range(kept), ui.retained \ Range(kept), ui.active)
    BY <1>8, <2>3, LooksPreserveAll
  <2>5. RestoreEnds(v, Kept)
    BY <1>14
  <2> HIDE DEF v
  <2>6. batch' \in BatchType \cup {None}
    <3> DEFINE g == IF end = "warning" THEN batch.gone \cup {n} ELSE batch.gone
    <3>1. batch \in BatchType
      BY <1>13, <1>14 DEF Exiting
    <3>2. g \in SUBSET Notes
      BY <1>3, <3>1 DEF BatchType
    <3>3. batch' = [batch EXCEPT !.dirty = TRUE, !.gone = g]
      BY <1>14
    <3> HIDE DEF g
    <3> QED
      BY <3>1, <3>2, <3>3 DEF BatchType
  <2> DEFINE shows == Tabs(ui) \cup Range(kept)
             owed == ui.retained \ Range(kept)
  <2>7. /\ core' \subseteq shows \cup owed \cup Given(actions)
        /\ shows \cup owed \subseteq core' /\ shows \cap owed = {}
        /\ ui.active \in shows \cup {None}
    <3>1. CASE end = "failure"
      BY <1>3, <1>6, <1>7, <1>8, <1>12, <1>14, <2>3, <3>1 DEF TabsInv, Owners, Shown
    <3>2. CASE end # "failure"
      BY <1>3, <1>6, <1>7, <1>8, <1>12, <1>14, <2>3, <3>2 DEF TabsInv, Owners, Shown
    <3> QED
      BY <3>1, <3>2
  <2> HIDE DEF shows, owed
  <2>8. Looks(v, shows, owed, ui.active)
    BY <2>4 DEF shows, owed
  <2> QED
    BY <1>1, <1>3, <1>4, <1>10, <1>13, <1>14, <2>5, <2>6, <2>7, <2>8, TabsRestoreEnds
<1>15. CASE /\ Head(opens).kind = "restore" /\ Len(restore.done) > 1
            /\ GiveBack(Tail(closes), None, Tail(restore.done)) /\ ui' = u /\ UNCHANGED batch
  <2>1. /\ ui' \in UIType /\ Distinct(ui'.tabs) /\ ui'.retained = ui.retained /\ ui'.active = ui.active
        /\ Tabs(ui') = IF end = "failure" THEN Tabs(ui) \cup {n} ELSE Tabs(ui)
    BY <1>9, <1>15 DEF Looks
  <2>2. /\ Tabs(ui') \cap ui'.retained = {} /\ ui'.active \in Tabs(ui') \cup {None}
        /\ core' \subseteq Shown(ui') \cup Range(rest) \cup Given(actions)
        /\ Shown(ui') \cup Range(rest) \subseteq core' /\ Shown(ui') \cap Range(rest) = {}
    <3>1. CASE end = "failure"
      BY <1>3, <1>6, <1>7, <1>8, <1>12, <1>15, <2>1, <3>1 DEF TabsInv, Owners, Shown
    <3>2. CASE end # "failure"
      BY <1>3, <1>6, <1>7, <1>8, <1>12, <1>15, <2>1, <3>2 DEF TabsInv, Owners, Shown
    <3> QED
      BY <3>1, <3>2
  <2>3. None \in Id /\ batch' \in BatchType \cup {None} /\ GiveBack(Tail(closes), None, rest)
    BY <1>13, <1>15 DEF Id, rest
  <2> QED
    BY <1>1, <1>3, <1>10, <1>12, <1>15, <2>1, <2>2, <2>3, TabsGiveBack
<1>16. CASE /\ Head(opens).kind = "restore" /\ ~(Len(restore.done) > 1)
            /\ RestoreEnds(GivenBack(u), Kept) /\ closes' = Tail(closes) /\ UNCHANGED batch
  <2> DEFINE v == GivenBack(u)
             shows == IF end = "failure" THEN Tabs(ui) \cup {n} ELSE Tabs(ui)
  <2>1. Looks(v, shows, ui.retained, ui.active)
    BY <1>9, LooksGivenBack DEF Looks
  <2>2. RestoreEnds(v, Kept) /\ batch' \in BatchType \cup {None}
    BY <1>13, <1>16
  <2> HIDE DEF v
  <2>3. /\ core' \subseteq shows \cup ui.retained \cup Given(actions)
        /\ shows \cup ui.retained \subseteq core' /\ shows \cap ui.retained = {}
        /\ ui.active \in shows \cup {None}
    <3>1. CASE end = "failure"
      BY <1>3, <1>6, <1>7, <1>8, <1>12, <1>16, <3>1 DEF TabsInv, Owners, Shown
    <3>2. CASE end # "failure"
      BY <1>3, <1>6, <1>7, <1>8, <1>12, <1>16, <3>2 DEF TabsInv, Owners, Shown
    <3> QED
      BY <3>1, <3>2
  <2> HIDE DEF shows
  <2> QED
    BY <1>1, <1>3, <1>4, <1>10, <1>13, <1>16, <2>1, <2>2, <2>3, TabsRestoreEnds
<1> QED
  BY <1>2, <1>11, <1>14, <1>15, <1>16

(* After a close the shell shows a tab that is there, or none.               *)
LEMMA LooksAfterClose ==
    ASSUME TabsInv, NEW n, NEW u \in UIType, Distinct(u.tabs), u.active \in Tabs(u) \cup {None},
           NEW a \in AnchorType, NEW q, AfterClose(n, u, a, q)
    PROVE  /\ \E active \in Tabs(u) \cup {None} : Looks(ui', Tabs(u), u.retained, active)
           /\ TasksFit(opens') /\ Same(opens', opens) /\ anchor' \in AnchorType
<1> DEFINE successor == Successor(a.order, a.id, Tabs(u))
           next == IF successor = None THEN Head(u.tabs) ELSE successor
<1>1. u.tabs \in Seq(Notes) /\ Tabs(u) \in SUBSET Notes /\ None \notin Notes /\ None \in Id
  BY LastType DEF Id
<1>2. u.tabs # <<>> => next \in Tabs(u)
  <2>1. successor \in Tabs(u) \cup {None}
    BY SuccessorLeft DEF AnchorType
  <2>2. u.tabs # <<>> => Head(u.tabs) \in Tabs(u)
    BY <1>1, Behind DEF Tabs
  <2> QED
    BY <2>1, <2>2
<1>3. NoAnchor \in AnchorType
  <2> DEFINE f == <<>>
  <2>1. f \in Seq(Notes) /\ None \in Id
    BY <1>1
  <2> HIDE DEF f
  <2>2. [id |-> None, order |-> f] \in AnchorType
    BY <2>1 DEF AnchorType
  <2> QED
    BY <2>2 DEF NoAnchor, f
<1>4. TasksFit(opens) /\ Same(opens, opens)
  BY DEF TabsInv, Parts, Same
<1>5. \/ ui' = u /\ anchor' \in {NoAnchor, a} /\ opens' = opens
      \/ ui' = [u EXCEPT !.selected = None] /\ anchor' = NoAnchor /\ opens' = opens
      \/ Has(u, u.selected) /\ ui' = Activate(u, u.selected) /\ anchor' = NoAnchor /\ opens' = opens
      \/ /\ u.tabs # <<>> /\ ui' = Show(u, next) /\ anchor' = NoAnchor /\ opens' = Publish(opens, next)
  BY DEF AfterClose
<1> HIDE DEF next
<1>6. CASE ui' = u /\ anchor' \in {NoAnchor, a} /\ opens' = opens
  BY <1>3, <1>4, <1>6 DEF Looks
<1>7. CASE ui' = [u EXCEPT !.selected = None] /\ anchor' = NoAnchor /\ opens' = opens
  <2>1. Looks(ui', Tabs(u), u.retained, u.active)
    BY <1>1, <1>7, LooksSelected
  <2> QED
    BY <1>3, <1>4, <1>7, <2>1
<1>8. CASE Has(u, u.selected) /\ ui' = Activate(u, u.selected) /\ anchor' = NoAnchor /\ opens' = opens
  <2>1. u.selected \in Tabs(u) /\ u.selected \in Notes
    BY <1>1, <1>8 DEF Has
  <2>2. Looks(ui', Tabs(u), u.retained, u.selected)
    BY <1>8, <2>1, LooksActivate
  <2> QED
    BY <1>3, <1>4, <1>8, <2>1, <2>2
<1>9. CASE u.tabs # <<>> /\ ui' = Show(u, next) /\ anchor' = NoAnchor /\ opens' = Publish(opens, next)
  <2>1. next \in Tabs(u) /\ next \in Notes
    BY <1>1, <1>2, <1>9
  <2>2. Looks(ui', Tabs(u), u.retained, next)
    BY <1>9, <2>1, LooksActivate
  <2>3. TasksFit(opens') /\ Same(opens', opens)
    BY <1>4, <1>9, <2>1, PublishFacts
  <2> QED
    BY <1>3, <1>9, <2>1, <2>2, <2>3
<1> QED
  BY <1>5, <1>6, <1>7, <1>8, <1>9

LEMMA TabsCloseTab == \A n \in Notes : TabsInv /\ CloseTab(n) => TabsInv'
<1> SUFFICES ASSUME TabsInv, NEW n \in Notes, CloseTab(n) PROVE TabsInv'
  OBVIOUS
<1> DEFINE from == IF ui.active = n THEN [id |-> n, order |-> ui.tabs] ELSE anchor
<1>1. /\ Has(ui, n) /\ UNCHANGED <<exists, core, restore, batch, actions>>
      /\ \/ AfterClose(n, ui, from, closes) /\ UNCHANGED closes
         \/ /\ closes' = Append(closes, [kind |-> "tab", note |-> n])
            /\ opens' = Fence(opens) /\ anchor' = from /\ UNCHANGED ui
  BY DEF CloseTab
<1>2. ui \in UIType /\ Distinct(ui.tabs) /\ ui.active \in Tabs(ui) \cup {None} /\ ClosesFit(closes)
      /\ TasksFit(opens) /\ batch \in BatchType \cup {None} /\ ActionsFit(actions, exists)
  BY DEF TabsInv, Parts, Owners
<1>3. from \in AnchorType
  <2>1. ui.tabs \in Seq(Notes) /\ n \in Id
    BY <1>2, LastType DEF Id
  <2>2. [id |-> n, order |-> ui.tabs] \in AnchorType
    BY <2>1 DEF AnchorType
  <2> QED
    BY <2>2 DEF TabsInv, Parts
<1>4. restore.todo = {}
  BY <1>1 DEF TabsInv, Owners, Shown, Has
<1> HIDE DEF from
<1>5. CASE AfterClose(n, ui, from, closes) /\ UNCHANGED closes
  <2>1. /\ \E active \in Tabs(ui) \cup {None} : Looks(ui', Tabs(ui), ui.retained, active)
        /\ TasksFit(opens') /\ Same(opens', opens) /\ anchor' \in AnchorType
    BY <1>2, <1>3, <1>5, LooksAfterClose
  <2>2. PICK active \in Tabs(ui) \cup {None} : Looks(ui', Tabs(ui), ui.retained, active)
    BY <2>1
  <2> QED
    BY <1>1, <1>2, <1>4, <1>5, <2>1, <2>2, UIMoves
<1>6. CASE /\ closes' = Append(closes, [kind |-> "tab", note |-> n])
           /\ opens' = Fence(opens) /\ anchor' = from /\ UNCHANGED ui
  <2>1. ClosesFit(closes') /\ Handing(closes') = Handing(closes)
    BY <1>2, <1>6, CloseQueued
  <2>2. TasksFit(opens') /\ Same(opens', opens)
    BY <1>2, <1>6, FenceFacts
  <2>3. Looks(ui', Tabs(ui), ui.retained, ui.active)
    BY <1>2, <1>6 DEF Looks
  <2> QED
    BY <1>1, <1>2, <1>3, <1>4, <1>6, <2>1, <2>2, <2>3, UIMoves
<1> QED
  BY <1>1, <1>5, <1>6

LEMMA TabsTabClosed == \A end : TabsInv /\ TabClosed(end) => TabsInv'
<1> SUFFICES ASSUME TabsInv, NEW end, TabClosed(end) PROVE TabsInv'
  OBVIOUS
<1> DEFINE n == Head(closes).note
           live == Has(ui, n) \/ n \in ui.retained
           v == Retire(ui, {n}, FALSE)
<1>1. /\ closes # <<>> /\ Head(closes).kind = "tab" /\ closes' = Tail(closes)
      /\ UNCHANGED <<exists, restore, batch, actions>>
      /\ \/ core' = core /\ AfterClose(n, ui, anchor, Tail(closes))
         \/ live /\ core' = core \ {n} /\ AfterClose(n, v, anchor, Tail(closes))
  BY DEF TabClosed, CloseTurn, CoreAfter
<1>2. ui \in UIType /\ Distinct(ui.tabs) /\ ui.active \in Tabs(ui) \cup {None} /\ anchor \in AnchorType
      /\ TasksFit(opens) /\ batch \in BatchType \cup {None} /\ ActionsFit(actions, exists)
  BY DEF TabsInv, Parts, Owners
<1>3. ClosesFit(closes') /\ Handing(closes') = Handing(closes) /\ n \in Notes
  BY <1>1, CloseEnded DEF TabsInv, Parts, CloseType
<1> HIDE DEF v, n
<1>4. CASE core' = core /\ AfterClose(n, ui, anchor, Tail(closes))
  <2>1. /\ \E active \in Tabs(ui) \cup {None} : Looks(ui', Tabs(ui), ui.retained, active)
        /\ TasksFit(opens') /\ Same(opens', opens) /\ anchor' \in AnchorType
    BY <1>2, <1>4, LooksAfterClose
  <2>2. PICK active \in Tabs(ui) \cup {None} : Looks(ui', Tabs(ui), ui.retained, active)
    BY <2>1
  <2>3. restore.todo # {} => active = None
    BY <2>2 DEF TabsInv, Owners, Shown
  <2> QED
    BY <1>1, <1>2, <1>3, <1>4, <2>1, <2>2, <2>3, UIMoves
<1>5. CASE live /\ core' = core \ {n} /\ AfterClose(n, v, anchor, Tail(closes))
  <2>1. Looks(v, Tabs(ui) \ {n}, ui.retained \ {n}, IF ui.active \in {n} THEN None ELSE ui.active)
    BY <1>2, <1>3, LooksRetire DEF v
  <2>2. /\ v \in UIType /\ Distinct(v.tabs) /\ v.active \in Tabs(v) \cup {None}
        /\ Tabs(v) = Tabs(ui) \ {n} /\ v.retained = ui.retained \ {n}
    BY <1>2, <2>1 DEF Looks
  <2>3. /\ \E active \in Tabs(v) \cup {None} : Looks(ui', Tabs(v), v.retained, active)
        /\ TasksFit(opens') /\ Same(opens', opens) /\ anchor' \in AnchorType
    BY <1>2, <1>5, <2>2, LooksAfterClose
  <2>4. PICK active \in Tabs(v) \cup {None} : Looks(ui', Tabs(v), v.retained, active)
    BY <2>3
  <2>5. n \in Shown(ui) /\ restore.todo = {}
    BY <1>5 DEF Shown, Has, TabsInv, Owners
  <2>6. Parts'
    BY <1>1, <1>3, <1>5, <2>3, <2>4 DEF TabsInv, Parts, Looks
  <2>7. Turns'
    BY <1>1, <1>3, <2>3 DEF TabsInv, Turns, Same
  <2>8. Owners'
    BY <1>1, <1>3, <1>5, <2>2, <2>3, <2>4, <2>5 DEF TabsInv, Owners, Looks, Shown, Same
  <2> QED
    BY <2>6, <2>7, <2>8 DEF TabsInv
<1> QED
  BY <1>1, <1>4, <1>5

(* What the shell may do with the tabs `u` once a batch has ended.           *)
Reshows(u) ==
    \/ ui' = u /\ opens' = opens
    \/ ui' = [u EXCEPT !.selected = None] /\ opens' = opens
    \/ u.tabs # <<>> /\ ui' = Activate(u, Head(u.tabs)) /\ opens' = opens
    \/ u.tabs # <<>> /\ ui' = Show(u, Head(u.tabs)) /\ opens' = Publish(opens, Head(u.tabs))

LEMMA LooksReshown ==
    ASSUME TabsInv, NEW u \in UIType, Distinct(u.tabs), u.active \in Tabs(u) \cup {None}, Reshows(u)
    PROVE  /\ \E active \in Tabs(u) \cup {None} : Looks(ui', Tabs(u), u.retained, active)
           /\ TasksFit(opens') /\ Same(opens', opens)
<1>1. u.tabs \in Seq(Notes) /\ Tabs(u) \in SUBSET Notes /\ None \in Id
  BY LastType DEF Id
<1>2. u.tabs # <<>> => Head(u.tabs) \in Tabs(u) /\ Head(u.tabs) \in Notes
  BY <1>1, Behind DEF Tabs
<1>3. TasksFit(opens) /\ Same(opens, opens)
  BY DEF TabsInv, Parts, Same
<1>4. CASE ui' = u /\ opens' = opens
  BY <1>3, <1>4 DEF Looks
<1>5. CASE ui' = [u EXCEPT !.selected = None] /\ opens' = opens
  <2>1. Looks(ui', Tabs(u), u.retained, u.active)
    BY <1>1, <1>5, LooksSelected
  <2> QED
    BY <1>3, <1>5, <2>1
<1>6. CASE u.tabs # <<>> /\ ui' = Activate(u, Head(u.tabs)) /\ opens' = opens
  <2>1. Looks(ui', Tabs(u), u.retained, Head(u.tabs))
    BY <1>2, <1>6, LooksActivate
  <2> QED
    BY <1>2, <1>3, <1>6, <2>1
<1>7. CASE u.tabs # <<>> /\ ui' = Show(u, Head(u.tabs)) /\ opens' = Publish(opens, Head(u.tabs))
  <2>1. Looks(ui', Tabs(u), u.retained, Head(u.tabs))
    BY <1>2, <1>7, LooksActivate
  <2>2. TasksFit(opens') /\ Same(opens', opens)
    BY <1>2, <1>3, <1>7, PublishFacts
  <2> QED
    BY <1>2, <1>7, <2>1, <2>2
<1> QED
  BY <1>4, <1>5, <1>6, <1>7 DEF Reshows

LEMMA TabsCloseAllRefused == TabsInv /\ CloseAllRefused => TabsInv'
<1> SUFFICES ASSUME TabsInv, CloseAllRefused PROVE TabsInv'
  OBVIOUS
<1>1. Reshows(ui) /\ UNCHANGED <<exists, core, restore, closes, batch, actions, anchor>>
  BY DEF CloseAllRefused, AfterCloseAll, Reshows
<1>2. ui \in UIType /\ Distinct(ui.tabs) /\ ui.active \in Tabs(ui) \cup {None} /\ ClosesFit(closes)
      /\ batch \in BatchType \cup {None} /\ ActionsFit(actions, exists) /\ anchor \in AnchorType
  BY DEF TabsInv, Parts, Owners
<1>3. /\ \E active \in Tabs(ui) \cup {None} : Looks(ui', Tabs(ui), ui.retained, active)
      /\ TasksFit(opens') /\ Same(opens', opens)
  BY <1>1, <1>2, LooksReshown
<1>4. PICK active \in Tabs(ui) \cup {None} : Looks(ui', Tabs(ui), ui.retained, active)
  BY <1>3
<1>5. restore.todo # {} => active = None
  BY <1>4 DEF TabsInv, Owners, Shown
<1> QED
  BY <1>1, <1>2, <1>3, <1>4, <1>5, UIMoves

LEMMA TabsStartBatch ==
    \A kind \in {"all", "others", "exit"}, keep \in Notes \cup {None} :
        TabsInv /\ StartBatch(kind, keep) => TabsInv'
<1> SUFFICES ASSUME TabsInv, NEW kind \in {"all", "others", "exit"}, NEW keep \in Notes \cup {None},
                    StartBatch(kind, keep)
             PROVE  TabsInv'
  OBVIOUS
<1> DEFINE s == SavedIds(ui) \ {closes[i].note : i \in {j \in DOMAIN closes : closes[j].kind = "tab"}}
<1>1. /\ opens' = Fence(opens) /\ UNCHANGED <<exists, core, ui, restore, closes, actions, anchor>>
      /\ batch' = [kind |-> kind, keep |-> keep, dirty |-> FALSE, gone |-> {}, saved |-> s]
  BY DEF StartBatch
<1>2. s \in SUBSET Notes
  <2>1. ui.open \in SUBSET Notes /\ IdIn(ui.last) \in SUBSET Notes
    BY DEF TabsInv, Parts, UIType, IdIn, Id
  <2> QED
    BY <2>1 DEF SavedIds
<1> HIDE DEF s
<1>3. batch' \in BatchType
  BY <1>1, <1>2 DEF BatchType, Id
<1>4. TasksFit(opens') /\ Same(opens', opens)
  BY <1>1, FenceFacts DEF TabsInv, Parts
<1>5. Looks(ui', Tabs(ui), ui.retained, ui.active)
  BY <1>1 DEF Looks, TabsInv, Parts
<1> QED
  BY <1>1, <1>3, <1>4, <1>5, UIMoves DEF TabsInv, Parts, Owners

LEMMA TabsBatchOff == TabsInv /\ BatchOff => TabsInv'
<1> SUFFICES ASSUME TabsInv, BatchOff PROVE TabsInv'
  OBVIOUS
<1> DEFINE v == RemoveSaved(ui, batch.gone)
<1>1. /\ opens = <<>> /\ batch' = None /\ ui' \in {ui, Reselect(v, ui.tabs, ui.active)}
      /\ UNCHANGED <<exists, core, opens, restore, closes, actions, anchor>>
  BY DEF BatchOff, BatchTurn, Soiled
<1>2. ui \in UIType /\ Distinct(ui.tabs) /\ ui.active \in Tabs(ui) \cup {None} /\ ClosesFit(closes)
      /\ ActionsFit(actions, exists) /\ anchor \in AnchorType /\ TasksFit(opens)
  BY DEF TabsInv, Parts, Owners
<1>3. Looks(v, Tabs(ui), ui.retained, ui.active)
  BY <1>2, LooksRemoveSaved
<1> HIDE DEF v
<1> DEFINE order == ui.tabs
           was == ui.active
           w == Reselect(v, order, was)
<1>4. /\ w \in UIType /\ Distinct(w.tabs) /\ Tabs(w) = Tabs(v) /\ w.retained = v.retained
      /\ w.active \in Tabs(v) \cup {None}
  <2> HIDE DEF order, was
  <2> QED
    BY <1>2, <1>3, LooksReselect DEF Looks
<1>5. Looks(w, Tabs(ui), ui.retained, w.active) /\ w.active \in Tabs(ui) \cup {None}
  BY <1>3, <1>4 DEF Looks
<1>6. Looks(ui, Tabs(ui), ui.retained, ui.active)
  BY <1>2 DEF Looks
<1>7. PICK active \in Tabs(ui) \cup {None} : Looks(ui', Tabs(ui), ui.retained, active)
  BY <1>1, <1>2, <1>5, <1>6
<1>8. restore.todo = {} /\ Same(opens', opens)
  BY <1>1, Idle DEF Same
<1> QED
  BY <1>1, <1>2, <1>7, <1>8, UIMoves

LEMMA TabsBatchClosed == \A saved : TabsInv /\ BatchClosed(saved) => TabsInv'
<1> SUFFICES ASSUME TabsInv, NEW saved, BatchClosed(saved) PROVE TabsInv'
  OBVIOUS
<1> DEFINE u == Retire(ui, Batched, Exiting)
<1>1. /\ opens = <<>> /\ batch # None /\ (batch.kind = "others" => Has(ui, batch.keep))
      /\ Batched \subseteq core /\ core' = core \ Batched /\ batch' = None
      /\ UNCHANGED <<exists, restore, closes, actions, anchor>>
      /\ \/ Reshows(u)
         \/ /\ batch.kind = "others" /\ ui' = Show(u, batch.keep) /\ opens' = Publish(opens, batch.keep)
         \/ ui' = [u EXCEPT !.selected = None] /\ opens' = opens
  BY DEF BatchClosed, BatchMayClose, BatchTurn, AfterBatch, AfterCloseAll, Reshows
<1>2. ui \in UIType /\ Distinct(ui.tabs) /\ ui.active \in Tabs(ui) \cup {None} /\ ClosesFit(closes)
      /\ ActionsFit(actions, exists) /\ anchor \in AnchorType /\ TasksFit(opens)
      /\ Tabs(ui) \in SUBSET Notes /\ ui.retained \in SUBSET Notes
  <2>1. ui \in UIType
    BY DEF TabsInv, Parts
  <2> QED
    BY <2>1, LastType DEF TabsInv, Parts, Owners
<1> DEFINE gone == Batched
<1>3. gone \in SUBSET Notes /\ (batch.kind = "others" => batch.keep \in Tabs(ui) \ gone)
  BY <1>1, <1>2 DEF Batched, Has
<1> HIDE DEF gone
<1>4. Looks(u, Tabs(ui) \ gone, ui.retained \ gone, IF ui.active \in gone THEN None ELSE ui.active)
  <2>1. CASE Exiting
    <3>1. u = Retire(ui, gone, TRUE)
      BY <2>1 DEF gone, Retire
    <3> QED
      BY <1>2, <1>3, <3>1, LooksRetire
  <2>2. CASE ~Exiting
    <3>1. u = Retire(ui, gone, FALSE)
      BY <2>2 DEF gone, Retire
    <3> QED
      BY <1>2, <1>3, <3>1, LooksRetire
  <2> QED
    BY <2>1, <2>2
<1> HIDE DEF u
<1>5. /\ u \in UIType /\ Distinct(u.tabs) /\ u.active \in Tabs(u) \cup {None}
      /\ Tabs(u) = Tabs(ui) \ gone /\ u.retained = ui.retained \ gone
  BY <1>2, <1>4 DEF Looks
<1>6. /\ \E active \in Tabs(u) \cup {None} : Looks(ui', Tabs(u), u.retained, active)
      /\ TasksFit(opens') /\ Same(opens', opens)
  <2>1. CASE Reshows(u)
    BY <1>5, <2>1, LooksReshown
  <2>2. CASE ui' = [u EXCEPT !.selected = None] /\ opens' = opens
    BY <1>5, <2>2, LooksReshown DEF Reshows
  <2>3. CASE /\ batch.kind = "others" /\ ui' = Show(u, batch.keep) /\ opens' = Publish(opens, batch.keep)
    <3>1. batch.keep \in Tabs(u) /\ batch.keep \in Notes
      BY <1>2, <1>3, <1>5, <2>3
    <3>2. Looks(ui', Tabs(u), u.retained, batch.keep)
      BY <1>5, <2>3, <3>1, LooksActivate
    <3> QED
      BY <1>2, <2>3, <3>1, <3>2, PublishFacts
  <2> QED
    BY <1>1, <2>1, <2>2, <2>3
<1>7. PICK active \in Tabs(u) \cup {None} : Looks(ui', Tabs(u), u.retained, active)
  BY <1>6
<1>8. Handing(closes) = {} /\ Range(restore.done) = {}
  BY <1>1, Idle
<1>9. /\ exists' \subseteq Notes /\ core' \subseteq exists' /\ ActionsFit(actions', exists')
      /\ core' = core \ gone
  BY <1>1 DEF TabsInv, Parts, gone
<1>10. /\ core' \subseteq Tabs(u) \cup u.retained \cup Given(actions')
       /\ Tabs(u) \cup u.retained \subseteq core' /\ Tabs(u) \cap u.retained = {}
  BY <1>1, <1>5, <1>8, <1>9 DEF TabsInv, Owners, Shown
<1>11. batch' \in BatchType \cup {None} /\ anchor' \in AnchorType /\ Same(opens', <<>>)
  BY <1>1, <1>2, <1>6
<1> QED
  BY <1>1, <1>6, <1>7, <1>9, <1>10, <1>11, IdleMoves

LEMMA TabsBatchCancelled ==
    \A bad \in Notes, before \in SUBSET Notes : \A end :
        TabsInv /\ BatchCancelled(bad, before, end) => TabsInv'
<1> SUFFICES ASSUME TabsInv, NEW bad \in Notes, NEW before \in SUBSET Notes, NEW end,
                    BatchCancelled(bad, before, end)
             PROVE  TabsInv'
  OBVIOUS
<1> DEFINE gone == before \cup (IF end = "warning" THEN {bad} ELSE {})
           u == Retire(ui, gone, FALSE)
           order == ui.tabs
           was == ui.active
           v == Reselect(u, order, was)
<1>1. /\ opens = <<>> /\ bad \in Batched /\ end \in CloseEnds(bad) \ {"clean"}
      /\ core' = CoreAfter(bad, end) \ before /\ batch' = None
      /\ Reshows(v)
      /\ UNCHANGED <<exists, restore, closes, actions, anchor>>
  BY DEF BatchCancelled, BatchMayClose, BatchTurn, AfterBatch, AfterCloseAll, Reshows
<1>2. ui \in UIType /\ Distinct(ui.tabs) /\ ui.active \in Tabs(ui) \cup {None} /\ ClosesFit(closes)
      /\ ActionsFit(actions, exists) /\ anchor \in AnchorType /\ TasksFit(opens)
  BY DEF TabsInv, Parts, Owners
<1>3. core' = core \ gone /\ gone \in SUBSET Notes
  <2>1. end = "warning" \/ end = "failure"
    BY <1>1 DEF CloseEnds
  <2> QED
    BY <1>1, <2>1 DEF CoreAfter
<1> HIDE DEF gone, order, was
<1>4. Looks(u, Tabs(ui) \ gone, ui.retained \ gone, IF ui.active \in gone THEN None ELSE ui.active)
  BY <1>2, <1>3, LooksRetire
<1> HIDE DEF u
<1>5. /\ u \in UIType /\ Distinct(u.tabs) /\ u.active \in Tabs(u) \cup {None}
      /\ Tabs(u) = Tabs(ui) \ gone /\ u.retained = ui.retained \ gone
  BY <1>2, <1>4 DEF Looks
<1>6. /\ v \in UIType /\ Distinct(v.tabs) /\ Tabs(v) = Tabs(u) /\ v.retained = u.retained
      /\ v.active \in Tabs(v) \cup {None}
  BY <1>5, LooksReselect
<1> HIDE DEF v
<1>7. /\ \E active \in Tabs(v) \cup {None} : Looks(ui', Tabs(v), v.retained, active)
      /\ TasksFit(opens') /\ Same(opens', opens)
  BY <1>1, <1>6, LooksReshown
<1>8. PICK active \in Tabs(v) \cup {None} : Looks(ui', Tabs(v), v.retained, active)
  BY <1>7
<1>9. Handing(closes) = {} /\ Range(restore.done) = {}
  BY <1>1, Idle
<1>10. /\ exists' \subseteq Notes /\ core' \subseteq exists' /\ ActionsFit(actions', exists')
  BY <1>1, <1>3 DEF TabsInv, Parts
<1>11. /\ core' \subseteq Tabs(v) \cup v.retained \cup Given(actions')
       /\ Tabs(v) \cup v.retained \subseteq core' /\ Tabs(v) \cap v.retained = {}
  BY <1>1, <1>3, <1>5, <1>6, <1>9 DEF TabsInv, Owners, Shown
<1>12. batch' \in BatchType \cup {None} /\ anchor' \in AnchorType /\ Same(opens', <<>>)
  BY <1>1, <1>2, <1>7
<1> QED
  BY <1>1, <1>7, <1>8, <1>10, <1>11, <1>12, IdleMoves

LEMMA TabsGates == TabsInv /\ (Rescan \/ Reload \/ Answered \/ Submit) => TabsInv'
<1> SUFFICES ASSUME TabsInv, Rescan \/ Reload \/ Answered \/ Submit PROVE TabsInv'
  OBVIOUS
<1>1. ASSUME UNCHANGED <<exists, core, ui, opens, restore, closes, batch, actions, anchor>> PROVE TabsInv'
  <2>1. Parts'
    BY <1>1 DEF TabsInv, Parts
  <2>2. Turns'
    BY <1>1 DEF TabsInv, Turns
  <2>3. Owners'
    BY <1>1 DEF TabsInv, Owners
  <2> QED
    BY <2>1, <2>2, <2>3 DEF TabsInv
<1>2. TasksFit(Fence(opens)) /\ Same(Fence(opens), opens)
  BY FenceFacts DEF TabsInv, Parts
<1>3. Looks(ui, Tabs(ui), ui.retained, ui.active)
  BY DEF Looks, TabsInv, Parts
<1>4. CASE Rescan
  <2>1. opens' = Fence(opens) /\ UNCHANGED <<exists, core, ui, restore, closes, batch, actions, anchor>>
    BY <1>4 DEF Rescan
  <2> QED
    BY <1>2, <1>3, <2>1, UIMoves DEF TabsInv, Parts, Owners
<1>5. CASE Submit
  <2>1. /\ opens' = Fence(opens) /\ UNCHANGED <<exists, core, ui, restore, closes, batch, anchor>>
        /\ actions' = Append(actions, [pc |-> "queued", old |-> None, new |-> None])
    BY <1>5 DEF Submit
  <2>2. ActionsFit(actions', exists) /\ Given(actions') = Given(actions)
    BY <2>1, ActionsGrow DEF TabsInv, Parts
  <2> QED
    BY <1>2, <1>3, <2>1, <2>2, UIMoves DEF TabsInv, Parts, Owners
<1>6. CASE Reload
  BY <1>1, <1>6 DEF Reload
<1>7. CASE Answered
  BY <1>1, <1>7 DEF Answered
<1> QED
  BY <1>4, <1>5, <1>6, <1>7

(* The body of an action ends, or waits for an open of its own.              *)
LEMMA BodyOpens ==
    ASSUME TabsInv, opens = <<>>, actions # <<>>, UNCHANGED <<restore, closes, batch, anchor>>,
           exists' \subseteq Notes, core' \subseteq exists',
           NEW u, NEW shows, NEW owed, NEW active, Looks(u, shows, owed, active),
           shows \cup owed \subseteq core', shows \cap owed = {}, active \in shows \cup {None},
           NEW pc \in {"restored", "renamed", "created"}, NEW old \in Id, NEW new \in Notes, NEW from \in Id,
           pc = "renamed" => old \in Notes \ exists',
           core' \subseteq shows \cup owed \cup (IF pc = "created" THEN {new} ELSE {}),
           Opening(u, pc, old, new, from)
    PROVE  TabsInv'
<1>1. ActionsFit(actions', exists') /\ Given(actions') = IF pc = "created" THEN {new} ELSE {}
  <2> DEFINE x == [pc |-> pc, old |-> old, new |-> new]
             fx == exists'
  <2>1. actions' = [actions EXCEPT ![1] = x] /\ ActionsFit(actions, exists)
    BY DEF Opening, TabsInv, Parts
  <2>2. x \in ActionType /\ x.pc = pc /\ x.old = old /\ x.new = new
    BY DEF ActionType, Id
  <2>3. pc = "renamed" => old \in Notes \ fx
    OBVIOUS
  <2> HIDE DEF x, fx
  <2>4. ActionsFit([actions EXCEPT ![1] = x], fx) /\ Given([actions EXCEPT ![1] = x]) = IF x.pc \in {"created", "unadopted"} THEN {x.new} ELSE {}
    BY <2>1, <2>2, <2>3, ActionsTurn
  <2> QED
    BY <2>1, <2>2, <2>4 DEF fx
<1> DEFINE t == Task("life", new, from)
<1>2. t \in TaskType /\ t.kind = "life" /\ t.note = new /\ t.pc = "queued"
  BY TaskFacts
<1>3. opens' = <<t>> /\ ui' = u
  BY DEF Opening
<1> HIDE DEF t
<1>4. TasksFit(opens') /\ opens' # <<>> /\ opens'[1] = t
  BY <1>2, <1>3, OneTask
<1>5. Same(opens', <<>>)
  BY <1>2, <1>4, NoTask DEF Same, Opened, Restoring, Retiring
<1>6. batch' \in BatchType \cup {None} /\ anchor' \in AnchorType
  BY DEF TabsInv, Parts
<1>7. core' \subseteq shows \cup owed \cup Given(actions') /\ Looks(ui', shows, owed, active)
  BY <1>1, <1>3
<1> QED
  BY <1>1, <1>4, <1>5, <1>6, <1>7, IdleMoves

LEMMA BodyEnds ==
    ASSUME TabsInv, opens = <<>>, actions # <<>>, UNCHANGED <<restore, closes, batch, anchor>>,
           exists' \subseteq Notes, core' \subseteq exists',
           NEW u, NEW shows, NEW owed, NEW active, Looks(u, shows, owed, active),
           shows \cup owed = core', shows \cap owed = {}, active \in shows \cup {None},
           Ends(u) \/ AfterSuccess(u)
    PROVE  TabsInv'
<1>1. CASE Ends(u)
  <2>1. ui' = u /\ actions' = Tail(actions) /\ opens' = <<>>
    BY <1>1 DEF Ends
  <2>2. ActionsFit(actions', exists') /\ Given(actions') = {}
    BY <2>1, ActionsEnd DEF TabsInv, Parts
  <2>3. TasksFit(opens') /\ Same(opens', <<>>) /\ batch' \in BatchType \cup {None} /\ anchor' \in AnchorType
    BY <2>1, NoTask DEF Same, TabsInv, Parts
  <2>4. core' \subseteq shows \cup owed \cup Given(actions') /\ shows \cup owed \subseteq core'
        /\ Looks(ui', shows, owed, active)
    BY <2>1
  <2> QED
    BY <2>2, <2>3, <2>4, IdleMoves
<1>2. CASE ~Ends(u)
  <2>1. u.selected # None /\ Opening(u, "restored", None, u.selected, None)
    BY <1>2 DEF AfterSuccess
  <2>2. u.selected \in Notes /\ None \in Id
    BY <2>1, LastType DEF Looks, Id
  <2>3. core' \subseteq shows \cup owed /\ shows \cup owed \subseteq core'
    OBVIOUS
  <2> QED
    BY <2>1, <2>2, <2>3, BodyOpens
<1> QED
  BY <1>1, <1>2

(* At the turn of an action every session the Core holds is shown or owed.   *)
LEMMA TurnState ==
    ASSUME TabsInv, opens = <<>>, actions # <<>>
    PROVE  /\ core \subseteq Shown(ui) \cup Given(actions) /\ Shown(ui) \subseteq core
           /\ actions[1].pc \notin {"created", "unadopted"} => Given(actions) = {} /\ core = Tabs(ui) \cup ui.retained
           /\ ui \in UIType /\ Distinct(ui.tabs) /\ Tabs(ui) \cap ui.retained = {}
           /\ ui.active \in Tabs(ui) \cup {None} /\ core \subseteq exists /\ exists \subseteq Notes
           /\ Tabs(ui) \in SUBSET Notes /\ ui.retained \in SUBSET Notes /\ ui.selected \in Id /\ None \notin Notes
           /\ None \in Id /\ Looks(ui, Tabs(ui), ui.retained, ui.active)
<1>1. Handing(closes) = {} /\ Range(restore.done) = {}
  BY Idle
<1>2. actions[1].pc \notin {"created", "unadopted"} => Given(actions) = {}
  BY DEF Given
<1>3. ui \in UIType /\ Distinct(ui.tabs)
  BY DEF TabsInv, Parts
<1>4. Tabs(ui) \in SUBSET Notes /\ ui.retained \in SUBSET Notes /\ ui.selected \in Id /\ None \notin Notes
  BY <1>3, LastType
<1>5. core \subseteq Shown(ui) \cup Given(actions) /\ Shown(ui) \subseteq core
  BY <1>1 DEF TabsInv, Owners
<1> QED
  BY <1>2, <1>3, <1>4, <1>5 DEF TabsInv, Parts, Owners, Shown, Looks, Id

LEMMA TabsRequest == TabsInv /\ Request => TabsInv'
<1> SUFFICES ASSUME TabsInv, Request PROVE TabsInv'
  OBVIOUS
<1> DEFINE x == [pc |-> "asked", old |-> ui.active, new |-> ui.selected]
           fx == exists'
<1>1. /\ opens = <<>> /\ actions # <<>> /\ actions[1].pc = "queued"
      /\ actions' = [actions EXCEPT ![1] = x]
      /\ UNCHANGED <<exists, core, ui, opens, restore, closes, batch, anchor>>
  BY DEF Request
<1>2. /\ core = Tabs(ui) \cup ui.retained /\ Tabs(ui) \cap ui.retained = {}
      /\ ui.active \in Tabs(ui) \cup {None} /\ core \subseteq exists /\ exists \subseteq Notes
      /\ Tabs(ui) \in SUBSET Notes /\ ui.selected \in Id
      /\ None \in Id /\ Looks(ui, Tabs(ui), ui.retained, ui.active)
  BY <1>1, TurnState
<1>3. x \in ActionType /\ x.pc = "asked"
  BY <1>2 DEF ActionType, Id
<1> HIDE DEF x, fx
<1>4. ActionsFit([actions EXCEPT ![1] = x], fx) /\ Given([actions EXCEPT ![1] = x]) = {}
  BY <1>1, <1>3, ActionsTurn DEF TabsInv, Parts
<1>5. ActionsFit(actions', exists') /\ Given(actions') = {}
  BY <1>1, <1>4 DEF fx
<1>6. TasksFit(opens') /\ Same(opens', <<>>) /\ batch' \in BatchType \cup {None} /\ anchor' \in AnchorType
  BY <1>1, NoTask DEF Same, TabsInv, Parts
<1>7. core' \subseteq Tabs(ui) \cup ui.retained \cup Given(actions') /\ Tabs(ui) \cup ui.retained \subseteq core'
      /\ Looks(ui', Tabs(ui), ui.retained, ui.active) /\ exists' \subseteq Notes /\ core' \subseteq exists'
  BY <1>1, <1>2
<1> QED
  BY <1>1, <1>2, <1>5, <1>6, <1>7, IdleMoves

LEMMA TabsRequestFails == TabsInv /\ RequestFails => TabsInv'
<1> SUFFICES ASSUME TabsInv, RequestFails PROVE TabsInv'
  OBVIOUS
<1>1. /\ opens = <<>> /\ actions # <<>> /\ actions[1].pc = "asked" /\ AfterRequestFailed
      /\ UNCHANGED <<exists, core, restore, closes, batch, anchor>>
  BY DEF RequestFails, Turn, BodyUnchanged
<1>2. /\ core = Tabs(ui) \cup ui.retained /\ Tabs(ui) \cap ui.retained = {}
      /\ ui.active \in Tabs(ui) \cup {None} /\ core \subseteq exists /\ exists \subseteq Notes
      /\ ui.selected \in Id /\ None \in Id /\ Looks(ui, Tabs(ui), ui.retained, ui.active)
  BY <1>1, TurnState
<1>3. CASE Ends(ui)
  BY <1>1, <1>2, <1>3, BodyEnds
<1>4. CASE ui.selected # None /\ Opening(ui, "restored", None, ui.selected, None)
  <2>1. ui.selected \in Notes
    BY <1>2, <1>4 DEF Id
  <2>2. core' \subseteq Tabs(ui) \cup ui.retained /\ Tabs(ui) \cup ui.retained \subseteq core'
    BY <1>1, <1>2
  <2> QED
    BY <1>1, <1>2, <1>4, <2>1, <2>2, BodyOpens
<1> QED
  BY <1>1, <1>3, <1>4 DEF AfterRequestFailed

LEMMA TabsCreate == \A n \in Notes : TabsInv /\ Create(n) => TabsInv'
<1> SUFFICES ASSUME TabsInv, NEW n \in Notes, Create(n) PROVE TabsInv'
  OBVIOUS
<1>1. /\ opens = <<>> /\ actions # <<>> /\ actions[1].pc = "asked"
      /\ exists' = exists \cup {n} /\ core' = core \cup {n}
      /\ \/ Opening(ui, "created", None, n, None)
         \/ /\ actions' = [actions EXCEPT ![1] = [pc |-> "unadopted", old |-> None, new |-> n]]
            /\ UNCHANGED <<ui, opens>>
      /\ UNCHANGED <<restore, closes, batch, anchor>>
  BY DEF Create, Turn, BodyUnchanged
<1>2. /\ core = Tabs(ui) \cup ui.retained /\ Tabs(ui) \cap ui.retained = {}
      /\ ui.active \in Tabs(ui) \cup {None} /\ core \subseteq exists /\ exists \subseteq Notes
      /\ None \in Id /\ Looks(ui, Tabs(ui), ui.retained, ui.active)
  BY <1>1, TurnState
<1>3. core' \subseteq Tabs(ui) \cup ui.retained \cup {n} /\ Tabs(ui) \cup ui.retained \subseteq core'
      /\ exists' \subseteq Notes /\ core' \subseteq exists'
  BY <1>1, <1>2
<1>4. CASE Opening(ui, "created", None, n, None)
  BY <1>1, <1>2, <1>3, <1>4, BodyOpens
<1>5. CASE /\ actions' = [actions EXCEPT ![1] = [pc |-> "unadopted", old |-> None, new |-> n]]
           /\ UNCHANGED <<ui, opens>>
  <2> DEFINE x == [pc |-> "unadopted", old |-> None, new |-> n]
             fx == exists'
  <2>1. x \in ActionType /\ x.pc = "unadopted" /\ x.new = n
    BY <1>2 DEF ActionType, Id
  <2> HIDE DEF x, fx
  <2>2. ActionsFit(actions, exists) /\ actions # <<>>
    BY <1>1 DEF TabsInv, Parts
  <2>3. /\ ActionsFit([actions EXCEPT ![1] = x], fx)
        /\ Given([actions EXCEPT ![1] = x]) = IF x.pc \in {"created", "unadopted"} THEN {x.new} ELSE {}
    BY <2>1, <2>2, ActionsTurn
  <2>4. ActionsFit(actions', exists') /\ Given(actions') = {n}
    BY <1>5, <2>1, <2>3 DEF x, fx
  <2>5. TasksFit(opens') /\ Same(opens', <<>>) /\ batch' \in BatchType \cup {None} /\ anchor' \in AnchorType
    BY <1>1, <1>5, NoTask DEF Same, TabsInv, Parts
  <2>6. core' \subseteq Tabs(ui) \cup ui.retained \cup Given(actions') /\ Looks(ui', Tabs(ui), ui.retained, ui.active)
    BY <1>2, <1>3, <1>5, <2>4
  <2> QED
    BY <1>1, <1>2, <1>3, <2>4, <2>5, <2>6, IdleMoves
<1> QED
  BY <1>1, <1>4, <1>5

LEMMA TabsDelete == \A n \in Notes : TabsInv /\ HistoryFits /\ Calm' /\ Delete(n) => TabsInv'
<1> SUFFICES ASSUME TabsInv, HistoryFits, Calm', NEW n \in Notes, Delete(n) PROVE TabsInv'
  OBVIOUS
<1> DEFINE left == Tabs(ui) \ {n}
           order == ui.tabs
           next == IF ui.active = n THEN Successor(order, n, left) ELSE None
           v == Discard(ui, n)
           u == Unselect(v, n)
<1>1. /\ opens = <<>> /\ actions # <<>> /\ actions[1].pc = "asked"
      /\ exists' = exists \ {n} /\ core' = core \ {n}
      /\ (~Expected /\ Ends(ui)) \/ AfterSuccess(u) \/ (next # None /\ AfterSuccess(Show(u, next)))
      /\ UNCHANGED <<restore, closes, batch, anchor>>
  BY DEF Delete, Turn, BodyUnchanged
<1>2. /\ core = Tabs(ui) \cup ui.retained /\ Tabs(ui) \cap ui.retained = {} /\ ui \in UIType /\ Distinct(ui.tabs)
      /\ ui.active \in Tabs(ui) \cup {None} /\ core \subseteq exists /\ exists \subseteq Notes
      /\ Tabs(ui) \in SUBSET Notes /\ None \notin Notes /\ Looks(ui, Tabs(ui), ui.retained, ui.active)
  BY <1>1, TurnState
<1>0. CASE ~Expected /\ Ends(ui)
  <2> DEFINE missed == Missed(n)
  <2>1. history' = [history EXCEPT !.quirks = @ \cup missed]
    BY DEF Delete
  <2>2. Missed(n) \in SUBSET QuirkNames
    BY MissedFacts
  <2>3. missed \cap Disowning = {}
    <3> HIDE DEF missed
    <3> QED
      BY <2>1 DEF HistoryFits, Calm
  <2>4. n \notin Tabs(ui) /\ n \notin ui.retained
    BY <1>0, <2>3, MissedFacts
  <2>5. Tabs(ui) \cup ui.retained = core' /\ exists' \subseteq Notes /\ core' \subseteq exists'
    BY <1>1, <1>2, <2>4
  <2> QED
    BY <1>0, <1>1, <1>2, <2>5, BodyEnds
<1>3. next \in left \cup {None}
  <2>1. order \in Seq(Notes)
    BY <1>2, LastType
  <2> HIDE DEF order, left
  <2> QED
    BY <2>1, SuccessorLeft
<1> HIDE DEF next, order
<1>4. /\ Looks(v, left, ui.retained \ {n}, v.active) /\ v.active # n /\ v.active \in left \cup {None}
  <2>1. Looks(v, Tabs(ui) \ {n}, IF ui.active = n THEN ui.retained ELSE ui.retained \ {n},
              IF ui.active = n THEN None ELSE ui.active)
    BY <1>2, LooksDiscard
  <2> HIDE DEF v
  <2>2. ui.active = n => ui.retained = ui.retained \ {n}
    BY <1>2
  <2>3. Looks(v, left, ui.retained \ {n}, IF ui.active = n THEN None ELSE ui.active)
    BY <2>1, <2>2
  <2>4. v.active = IF ui.active = n THEN None ELSE ui.active
    BY <2>3 DEF Looks
  <2> QED
    BY <1>2, <2>3, <2>4
<1> HIDE DEF v, left
<1>5. Looks(u, left, ui.retained \ {n}, v.active)
  BY <1>4, LooksUnselect DEF Looks
<1> HIDE DEF u
<1>6. left \cup (ui.retained \ {n}) = core' /\ left \cap (ui.retained \ {n}) = {}
      /\ exists' \subseteq Notes /\ core' \subseteq exists'
  BY <1>1, <1>2 DEF left
<1>7. CASE AfterSuccess(u)
  BY <1>1, <1>4, <1>5, <1>6, <1>7, BodyEnds
<1>8. CASE next # None /\ AfterSuccess(Show(u, next))
  <2> DEFINE w == Show(u, next)
  <2>1. next \in left /\ next \in Notes
    BY <1>2, <1>3, <1>8 DEF left
  <2>2. Looks(w, left, ui.retained \ {n}, next)
    BY <1>5, <2>1, LooksActivate DEF Looks
  <2>3. AfterSuccess(w)
    BY <1>8
  <2> HIDE DEF w
  <2> QED
    BY <1>1, <1>6, <2>1, <2>2, <2>3, BodyEnds
<1> QED
  BY <1>0, <1>1, <1>7, <1>8

LEMMA TabsOther == TabsInv /\ (Other \/ ActionRestored) => TabsInv'
<1> SUFFICES ASSUME TabsInv, Other \/ ActionRestored PROVE TabsInv'
  OBVIOUS
<1>1. /\ opens = <<>> /\ actions # <<>> /\ actions[1].pc \notin {"created", "unadopted"}
      /\ Ends(ui) \/ AfterSuccess(ui)
      /\ UNCHANGED <<exists, core, restore, closes, batch, anchor>>
  BY DEF Other, Turn, BodyUnchanged, ActionRestored, Resumes, BodyPaused, ResumeUnchanged
<1>2. /\ core = Tabs(ui) \cup ui.retained /\ Tabs(ui) \cap ui.retained = {}
      /\ ui.active \in Tabs(ui) \cup {None} /\ core \subseteq exists /\ exists \subseteq Notes
      /\ Looks(ui, Tabs(ui), ui.retained, ui.active)
  BY <1>1, TurnState
<1> QED
  BY <1>1, <1>2, BodyEnds

(* What a rename that ends calm does not act on.                             *)
LEMMA TabsRename ==
    \A old, new \in Notes, bad \in Notes \cup {None} :
        TabsInv /\ HistoryFits /\ Calm' /\ Rename(old, new, bad) => TabsInv'
<1> SUFFICES ASSUME TabsInv, HistoryFits, Calm', NEW old \in Notes, NEW new \in Notes,
                    NEW bad \in Notes \cup {None}, Rename(old, new, bad)
             PROVE  TabsInv'
  OBVIOUS
<1> DEFINE adopted == Adopt(ui, new, old)
           taken == [adopted EXCEPT !.selected = new]
           u == IF ui.active = old THEN taken ELSE ReplaceTab(ui, old, new)
           now == Reidentified(Tabs(ui), old, new)
           waits == ui.active = None /\ ui.selected = old
           homes == IF old \in ui.retained \ Tabs(ui) THEN {"rehomed"} ELSE {}
           doubles == IF waits /\ Has(ui, old) THEN {"twice"} ELSE {}
           missed == Missed(old)
           faulted == history.excused \/ bad # None
<1>1. /\ opens = <<>> /\ actions # <<>> /\ actions[1].pc = "asked"
      /\ old \in exists /\ new \in Notes \ exists
      /\ exists' = Reidentified(exists, old, new) /\ core' = Reidentified(core, old, new)
      /\ UNCHANGED <<restore, closes, batch, anchor>>
      /\ \/ ~Expected /\ Ends(ui)
         \/ waits /\ Opening(ui, "renamed", old, new, old)
         \/ ~waits /\ bad = None /\ AfterSuccess(u)
         \/ ~waits /\ bad # None /\ bad \in Tabs(u) \ {new} /\ Ends(Unreadable(u, bad))
  BY DEF Rename, Turn, BodyUnchanged, Reidentify
<1>2. /\ core = Tabs(ui) \cup ui.retained /\ Tabs(ui) \cap ui.retained = {} /\ ui \in UIType /\ Distinct(ui.tabs)
      /\ ui.active \in Tabs(ui) \cup {None} /\ core \subseteq exists /\ exists \subseteq Notes
      /\ Tabs(ui) \in SUBSET Notes /\ ui.retained \in SUBSET Notes /\ None \notin Notes /\ None \in Id
      /\ Looks(ui, Tabs(ui), ui.retained, ui.active)
  BY <1>1, TurnState
<1>3. history' = [history EXCEPT !.excused = faulted, !.quirks = @ \cup homes \cup doubles \cup missed]
  BY DEF Rename
<1>4. homes = {} /\ doubles = {} /\ missed \cap Disowning = {}
  <2> HIDE DEF homes, doubles, missed, faulted
  <2>1. homes \cap Disowning = {} /\ doubles \cap Disowning = {} /\ missed \cap Disowning = {}
    BY <1>3 DEF HistoryFits, Calm
  <2> QED
    BY <2>1 DEF homes, doubles, Disowning
<1>5. old \notin ui.retained /\ (waits => ~Has(ui, old))
  <2>1. (old \in ui.retained \ Tabs(ui) => homes = {"rehomed"}) /\ (waits /\ Has(ui, old) => doubles = {"twice"})
    OBVIOUS
  <2> QED
    BY <1>2, <1>4, <2>1
<1>12. CASE ~Expected /\ Ends(ui)
  <2>1. old \notin Tabs(ui) /\ old \notin ui.retained
    BY <1>4, <1>12, MissedFacts
  <2>2. Tabs(ui) \cup ui.retained = core' /\ exists' \subseteq Notes /\ core' \subseteq exists'
    BY <1>1, <1>2, <2>1 DEF Reidentified
  <2> QED
    BY <1>1, <1>2, <1>12, <2>2, BodyEnds
<1> HIDE DEF homes, doubles, missed, faulted
<1>6. new # old /\ new \notin Tabs(ui) /\ new \notin ui.retained
  BY <1>1, <1>2
<1>7. now \cup ui.retained = core' /\ now \cap ui.retained = {} /\ core' \subseteq exists' /\ exists' \subseteq Notes
  <2>1. now \cup ui.retained = core' /\ now \cap ui.retained = {}
    BY <1>1, <1>2, <1>5, <1>6 DEF Reidentified
  <2>2. core' \subseteq exists' /\ exists' \subseteq Notes
    BY <1>1, <1>2 DEF Reidentified
  <2> QED
    BY <2>1, <2>2
<1>8. CASE waits /\ Opening(ui, "renamed", old, new, old)
  <2>1. old \notin core /\ old \in Id
    BY <1>2, <1>5, <1>8 DEF Has, Id
  <2>2. core' = core
    BY <1>1, <2>1 DEF Reidentified
  <2>3. old \in Notes \ exists'
    BY <1>1, <1>6 DEF Reidentified
  <2>4. core' \subseteq Tabs(ui) \cup ui.retained \cup {} /\ Tabs(ui) \cup ui.retained \subseteq core'
    BY <1>2, <2>2
  <2>5. exists' \subseteq Notes /\ core' \subseteq exists'
    BY <1>7
  <2> DEFINE pc == "renamed"
             shows == Tabs(ui)
             owed == ui.retained
             active == ui.active
  <2>6. /\ pc \in {"restored", "renamed", "created"} /\ (pc = "renamed" => old \in Notes \ exists')
        /\ core' \subseteq shows \cup owed \cup (IF pc = "created" THEN {new} ELSE {})
        /\ shows \cup owed \subseteq core' /\ shows \cap owed = {} /\ active \in shows \cup {None}
        /\ Looks(ui, shows, owed, active) /\ Opening(ui, pc, old, new, old)
    BY <1>2, <1>8, <2>3, <2>4
  <2> HIDE DEF pc, shows, owed, active
  <2> QED
    BY <1>1, <2>1, <2>5, <2>6, BodyOpens
<1>9. Looks(u, now, ui.retained, u.active) /\ u.active \in now \cup {None}
  <2>1. CASE ui.active = old
    <3>1. Looks(adopted, now, ui.retained \ {new}, new)
      BY <1>2, <1>6, LooksAdopt
    <3> HIDE DEF adopted
    <3>2. Looks(taken, now, ui.retained \ {new}, new)
      BY <3>1, LooksSelected DEF Looks, Id
    <3>3. u = taken /\ ui.retained \ {new} = ui.retained
      BY <1>6, <2>1
    <3> HIDE DEF taken, now, u
    <3>4. Looks(u, now, ui.retained, new) /\ u.active = new
      BY <3>2, <3>3 DEF Looks
    <3>5. new \in now
      BY <1>2, <2>1 DEF now, Reidentified
    <3> QED
      BY <3>4, <3>5
  <2>2. CASE ui.active # old
    <3> DEFINE r == ReplaceTab(ui, old, new)
    <3>1. Looks(r, now, IF Has(ui, old) THEN ui.retained \ {new} ELSE ui.retained, ui.active)
      BY <1>2, <1>6, LooksReplaceTab
    <3>2. u = r /\ ui.retained \ {new} = ui.retained
      BY <1>6, <2>2
    <3>3. ui.active \in now \cup {None}
      BY <1>2, <2>2 DEF Reidentified
    <3> HIDE DEF r, u, now
    <3>4. Looks(u, now, ui.retained, ui.active)
      BY <3>1, <3>2
    <3> QED
      BY <3>3, <3>4 DEF Looks
  <2> QED
    BY <2>1, <2>2
<1> HIDE DEF u, now
<1>10. CASE ~waits /\ bad = None /\ AfterSuccess(u)
  BY <1>1, <1>7, <1>9, <1>10, BodyEnds
<1>11. CASE ~waits /\ bad # None /\ bad \in Tabs(u) \ {new} /\ Ends(Unreadable(u, bad))
  <2> DEFINE v == Unreadable(u, bad)
  <2>1. Looks(v, Tabs(u) \ {bad}, u.retained \cup {bad}, IF u.active = bad THEN None ELSE u.active)
    BY <1>9, <1>11, LooksUnreadable DEF Looks
  <2>2. Tabs(u) = now /\ u.retained = ui.retained
    BY <1>9 DEF Looks
  <2> HIDE DEF v
  <2>3. /\ (Tabs(u) \ {bad}) \cup (u.retained \cup {bad}) = core'
        /\ (Tabs(u) \ {bad}) \cap (u.retained \cup {bad}) = {}
    BY <1>7, <1>11, <2>2
  <2>4. (IF u.active = bad THEN None ELSE u.active) \in (Tabs(u) \ {bad}) \cup {None}
    BY <1>9, <2>2
  <2>5. Ends(v)
    BY <1>11 DEF v
  <2> QED
    BY <1>1, <1>7, <2>1, <2>3, <2>4, <2>5, BodyEnds
<1> QED
  BY <1>1, <1>8, <1>10, <1>11, <1>12

LEMMA TabsActionRenamed ==
    \A bad \in Notes \cup {None} : TabsInv /\ ActionRenamed(bad) => TabsInv'
<1> SUFFICES ASSUME TabsInv, NEW bad \in Notes \cup {None}, ActionRenamed(bad) PROVE TabsInv'
  OBVIOUS
<1> DEFINE old == actions[1].old
           new == actions[1].new
           s == [ui EXCEPT !.selected = new]
           u == ReplaceTab(s, old, new)
<1>1. /\ opens = <<>> /\ actions # <<>> /\ actions[1].pc = "renamed"
      /\ UNCHANGED <<exists, core, restore, closes, batch, anchor>>
      /\ \/ Ends(ui)
         \/ bad = None /\ Ends(Unreadable(u, bad))
         \/ bad # None /\ bad \in Tabs(u) \ {new} /\ Ends(Unreadable(u, bad))
  BY DEF ActionRenamed, Resumes, BodyPaused, ResumeUnchanged
<1>2. /\ core = Tabs(ui) \cup ui.retained /\ Tabs(ui) \cap ui.retained = {} /\ ui \in UIType /\ Distinct(ui.tabs)
      /\ ui.active \in Tabs(ui) \cup {None} /\ core \subseteq exists /\ exists \subseteq Notes
      /\ None \notin Notes /\ None \in Id /\ Looks(ui, Tabs(ui), ui.retained, ui.active)
  BY <1>1, TurnState
<1>3. old \in Notes \ exists /\ new \in Notes
  <2>1. actions \in Seq(ActionType)
    BY DEF TabsInv, Parts, ActionsFit
  <2>2. 1 \in DOMAIN actions
    BY <1>1, <2>1, Behind
  <2> QED
    BY <1>1, <2>2 DEF TabsInv, Parts, ActionsFit
<1> HIDE DEF old, new
<1>4. Looks(s, Tabs(ui), ui.retained, ui.active)
  BY <1>2, <1>3, LooksSelected DEF Id
<1> HIDE DEF s
<1>5. u = s
  <2>1. ~Has(s, old)
    BY <1>2, <1>3, <1>4 DEF Has, Looks
  <2> QED
    BY <2>1 DEF ReplaceTab
<1>6. Looks(u, Tabs(ui), ui.retained, ui.active)
  BY <1>4, <1>5
<1> HIDE DEF u
<1>7. CASE Ends(ui)
  BY <1>1, <1>2, <1>7, BodyEnds
<1>8. CASE bad = None /\ Ends(Unreadable(u, bad))
  <2>1. Ends(u)
    BY <1>8 DEF Unreadable
  <2> QED
    BY <1>1, <1>2, <1>6, <2>1, BodyEnds
<1>9. CASE bad # None /\ bad \in Tabs(u) \ {new} /\ Ends(Unreadable(u, bad))
  <2> DEFINE v == Unreadable(u, bad)
  <2>1. Looks(v, Tabs(u) \ {bad}, u.retained \cup {bad}, IF u.active = bad THEN None ELSE u.active)
    BY <1>6, <1>9, LooksUnreadable DEF Looks
  <2>2. Tabs(u) = Tabs(ui) /\ u.retained = ui.retained /\ u.active = ui.active
    BY <1>6 DEF Looks
  <2> HIDE DEF v
  <2>3. /\ (Tabs(u) \ {bad}) \cup (u.retained \cup {bad}) = core'
        /\ (Tabs(u) \ {bad}) \cap (u.retained \cup {bad}) = {}
    BY <1>1, <1>2, <1>9, <2>2
  <2>4. (IF u.active = bad THEN None ELSE u.active) \in (Tabs(u) \ {bad}) \cup {None}
    BY <1>2, <2>2
  <2>5. Ends(v)
    BY <1>9 DEF v
  <2> QED
    BY <1>1, <1>2, <2>1, <2>3, <2>4, <2>5, BodyEnds
<1> QED
  BY <1>1, <1>7, <1>8, <1>9

LEMMA TabsActionCreated == \A end : TabsInv /\ HistoryFits /\ Calm' /\ ActionCreated(end) => TabsInv'
<1> SUFFICES ASSUME TabsInv, HistoryFits, Calm', NEW end, ActionCreated(end) PROVE TabsInv'
  OBVIOUS
<1> DEFINE n == actions[1].new
           lost == IF end = "failure" /\ n \in core THEN {"orphaned"} ELSE {}
           u == Discard(ui, n)
<1>1. /\ opens = <<>> /\ actions # <<>> /\ actions[1].pc \in {"created", "unadopted"}
      /\ UNCHANGED <<exists, restore, closes, batch, anchor>>
      /\ history' = [history EXCEPT !.quirks = @ \cup lost]
      /\ \/ /\ ui.active = n /\ core' = core /\ Ends([ui EXCEPT !.selected = n])
         \/ /\ ui.active = n \/ Has(ui, n)
            /\ core' = core
            /\ \/ Ends(ui)
               \/ Has(ui, ui.selected) /\ Ends(Activate(ui, ui.selected))
               \/ ui.active # None /\ Ends([ui EXCEPT !.selected = ui.active])
               \/ Ends(Show(ui, n))
         \/ /\ ui.active # n /\ ~Has(ui, n)
            /\ \/ end = "failure" /\ core' = core /\ Ends(ui)
               \/ /\ end # "failure" /\ core' = core \ {n}
                  /\ \/ Has(u, u.selected) /\ Ends(Activate(u, u.selected))
                     \/ Ends([u EXCEPT !.selected = u.active])
  BY DEF ActionCreated, Resumes, BodyPaused, ResumeUnchanged, CoreAfter
<1>2. /\ core \subseteq Shown(ui) \cup Given(actions) /\ Shown(ui) \subseteq core
      /\ ui \in UIType /\ Distinct(ui.tabs) /\ Tabs(ui) \cap ui.retained = {}
      /\ ui.active \in Tabs(ui) \cup {None} /\ core \subseteq exists /\ exists \subseteq Notes
      /\ Tabs(ui) \in SUBSET Notes /\ ui.retained \in SUBSET Notes /\ None \notin Notes
      /\ None \in Id /\ Looks(ui, Tabs(ui), ui.retained, ui.active)
  BY <1>1, TurnState
<1>3. n \in Notes /\ Given(actions) = {n}
  <2>1. actions \in Seq(ActionType)
    BY DEF TabsInv, Parts, ActionsFit
  <2>2. 1 \in DOMAIN actions
    BY <1>1, <2>1, Behind
  <2> QED
    BY <1>1, <2>2 DEF TabsInv, Parts, ActionsFit, Given
<1> HIDE DEF n
<1>4. ~(end = "failure" /\ n \in core)
  <2>1. lost \cap Disowning = {}
    <3> HIDE DEF lost
    <3> QED
      BY <1>1 DEF HistoryFits, Calm
  <2>2. end = "failure" /\ n \in core => lost = {"orphaned"}
    OBVIOUS
  <2> QED
    BY <2>1, <2>2 DEF Disowning
<1> HIDE DEF lost
<1>5. ASSUME Has(ui, n), core' = core, NEW v, NEW active \in Tabs(ui) \cup {None},
             Looks(v, Tabs(ui), ui.retained, active), Ends(v)
      PROVE  TabsInv'
  <2>1. Tabs(ui) \cup ui.retained = core' /\ core' \subseteq exists' /\ exists' \subseteq Notes
    BY <1>1, <1>2, <1>3, <1>5 DEF Shown, Has
  <2> QED
    BY <1>1, <1>2, <1>5, <2>1, BodyEnds
<1>6. CASE ui.active = n /\ core' = core /\ Ends([ui EXCEPT !.selected = n])
  <2> DEFINE v == [ui EXCEPT !.selected = n]
  <2>1. Looks(v, Tabs(ui), ui.retained, ui.active)
    BY <1>2, <1>3, LooksSelected DEF Id
  <2>2. Has(ui, n) /\ Ends(v)
    BY <1>2, <1>3, <1>6 DEF Has
  <2> HIDE DEF v
  <2> QED
    BY <1>2, <1>5, <1>6, <2>1, <2>2
<1>7. CASE /\ Has(ui, n) /\ core' = core
           /\ \/ Ends(ui)
              \/ Has(ui, ui.selected) /\ Ends(Activate(ui, ui.selected))
              \/ ui.active # None /\ Ends([ui EXCEPT !.selected = ui.active])
              \/ Ends(Show(ui, n))
  <2>1. CASE Ends(ui)
    BY <1>2, <1>5, <1>7, <2>1
  <2>2. CASE Has(ui, ui.selected) /\ Ends(Activate(ui, ui.selected))
    <3> DEFINE x == ui.selected
               v == Activate(ui, x)
    <3>1. x \in Tabs(ui) /\ x \in Notes
      BY <1>2, <2>2 DEF Has
    <3> HIDE DEF x
    <3>2. Looks(v, Tabs(ui), ui.retained, x)
      BY <1>2, <3>1, LooksActivate
    <3>3. Ends(v)
      BY <2>2 DEF x
    <3> HIDE DEF v
    <3> QED
      BY <1>5, <1>7, <3>1, <3>2, <3>3
  <2>3. CASE Ends([ui EXCEPT !.selected = ui.active])
    <3> DEFINE x == ui.active
               v == [ui EXCEPT !.selected = x]
    <3>1. x \in Id
      BY <1>2 DEF Id
    <3> HIDE DEF x
    <3>2. Looks(v, Tabs(ui), ui.retained, ui.active)
      BY <1>2, <3>1, LooksSelected
    <3>3. Ends(v)
      BY <2>3 DEF x
    <3> HIDE DEF v
    <3> QED
      BY <1>2, <1>5, <1>7, <3>2, <3>3
  <2>4. CASE Ends(Show(ui, n))
    <3>1. Looks(Show(ui, n), Tabs(ui), ui.retained, n) /\ n \in Tabs(ui)
      BY <1>2, <1>3, <1>7, LooksActivate DEF Has
    <3> QED
      BY <1>5, <1>7, <2>4, <3>1
  <2> QED
    BY <1>7, <2>1, <2>2, <2>3, <2>4
<1>10. Has(ui, n) <=> (ui.active = n \/ Has(ui, n))
  BY <1>2, <1>3 DEF Has
<1>8. CASE /\ ui.active # n /\ ~Has(ui, n) /\ end = "failure" /\ core' = core /\ Ends(ui)
  <2>1. Tabs(ui) \cup ui.retained = core' /\ core' \subseteq exists' /\ exists' \subseteq Notes
    BY <1>1, <1>2, <1>3, <1>4, <1>8 DEF Shown
  <2> QED
    BY <1>1, <1>2, <1>8, <2>1, BodyEnds
<1>9. CASE /\ ui.active # n /\ ~Has(ui, n) /\ core' = core \ {n}
           /\ \/ Has(u, u.selected) /\ Ends(Activate(u, u.selected))
              \/ Ends([u EXCEPT !.selected = u.active])
  <2>1. Looks(u, Tabs(ui), ui.retained \ {n}, ui.active)
    <3>1. Looks(u, Tabs(ui) \ {n}, IF ui.active = n THEN ui.retained ELSE ui.retained \ {n},
                IF ui.active = n THEN None ELSE ui.active)
      BY <1>2, <1>3, LooksDiscard
    <3>2. Tabs(ui) \ {n} = Tabs(ui)
      BY <1>9 DEF Has
    <3> QED
      BY <1>9, <3>1, <3>2
  <2> HIDE DEF u
  <2>2. u \in UIType /\ Distinct(u.tabs) /\ Tabs(u) = Tabs(ui) /\ u.retained = ui.retained \ {n} /\ u.active = ui.active
    BY <2>1 DEF Looks
  <2>3. /\ Tabs(u) \cup u.retained = core' /\ Tabs(u) \cap u.retained = {}
        /\ core' \subseteq exists' /\ exists' \subseteq Notes
    BY <1>1, <1>2, <1>3, <1>9, <2>2 DEF Shown, Has
  <2>4. CASE Has(u, u.selected) /\ Ends(Activate(u, u.selected))
    <3> DEFINE x == u.selected
               v == Activate(u, x)
    <3>1. x \in Tabs(u) /\ x \in Notes
      BY <1>2, <2>2, <2>4 DEF Has
    <3> HIDE DEF x
    <3>2. Looks(v, Tabs(u), u.retained, x)
      BY <2>2, <3>1, LooksActivate
    <3>3. Ends(v)
      BY <2>4 DEF x
    <3> HIDE DEF v
    <3> QED
      BY <1>1, <2>3, <3>1, <3>2, <3>3, BodyEnds
  <2>5. CASE Ends([u EXCEPT !.selected = u.active])
    <3> DEFINE x == u.active
               v == [u EXCEPT !.selected = x]
    <3>1. x \in Id
      BY <2>2 DEF UIType
    <3> HIDE DEF x
    <3>2. Looks(v, Tabs(u), u.retained, u.active) /\ u.active \in Tabs(u) \cup {None}
      BY <1>2, <2>2, <3>1, LooksSelected
    <3>3. Ends(v)
      BY <2>5 DEF x
    <3> HIDE DEF v
    <3> QED
      BY <1>1, <2>3, <3>2, <3>3, BodyEnds
  <2> QED
    BY <1>9, <2>4, <2>5
<1> QED
  BY <1>1, <1>6, <1>7, <1>8, <1>9, <1>10

LEMMA TabsRedirect ==
    \A old, new \in Notes, unread \in BOOLEAN : \A end :
        TabsInv /\ HistoryFits /\ Calm' /\ Redirect(old, new, unread, end) => TabsInv'
<1> SUFFICES ASSUME TabsInv, HistoryFits, Calm', NEW old \in Notes, NEW new \in Notes,
                    NEW unread \in BOOLEAN, NEW end, Redirect(old, new, unread, end)
             PROVE  TabsInv'
  OBVIOUS
<1> DEFINE anchored == old = (IF actions[1].old = None THEN actions[1].new ELSE actions[1].old)
           carried == Reidentified(core, old, new)
           kept == ui.active = old /\ Has(ui, old)
           retired == RetainActive(ui, old, new)
           revoked == IF retired.selected = old THEN [retired EXCEPT !.selected = new] ELSE retired
           read == anchored \/ Has(ui, old)
           adopted == Adopt(ui, new, old)
           taken == IF anchored THEN [adopted EXCEPT !.selected = new] ELSE ReplaceTab(ui, old, new)
           leaves == IF ui.active = None /\ ui.selected = old THEN {"unmounted"} ELSE {}
           missed == Missed(old)
           faulted == history.excused \/ unread
           now == Reidentified(Tabs(ui), old, new)
           owes == Reidentified(ui.retained, old, new)
<1>1. /\ opens = <<>> /\ actions # <<>> /\ actions[1].pc = "asked"
      /\ old \in exists /\ new \in Notes \ exists
      /\ exists' = Reidentified(exists, old, new)
      /\ UNCHANGED <<restore, closes, batch, anchor>>
      /\ \/ /\ ~Expected /\ Ends(ui)
            /\ core' = carried \/ ui.selected = old \/ Has(ui, old)
         \/ /\ Expected /\ core' = IF read THEN carried \cup {new} ELSE carried
            /\ AfterSuccess(RekeyRetained(taken, old, new))
         \/ /\ Expected /\ anchored /\ core' = carried
            /\ Ends(RekeyRetained(IF kept THEN revoked ELSE ReplaceTab(ui, old, new), old, new))
         \/ /\ ~anchored /\ read
            /\ \/ core' = carried /\ Ends(IF ui.active = old THEN ui ELSE RetainTab(ui, old, new))
               \/ core' = carried \ {new} /\ Ends(Discard(ui, old))
  BY DEF Redirect, Turn, BodyUnchanged, Reidentify
<1>2. /\ core = Tabs(ui) \cup ui.retained /\ Tabs(ui) \cap ui.retained = {} /\ ui \in UIType /\ Distinct(ui.tabs)
      /\ ui.active \in Tabs(ui) \cup {None} /\ core \subseteq exists /\ exists \subseteq Notes
      /\ Tabs(ui) \in SUBSET Notes /\ ui.retained \in SUBSET Notes /\ None \notin Notes /\ None \in Id
      /\ Looks(ui, Tabs(ui), ui.retained, ui.active)
  BY <1>1, TurnState
<1>3. history' = [history EXCEPT !.excused = faulted, !.quirks = @ \cup leaves \cup missed]
  BY DEF Redirect
<1>4. ~(ui.active = None /\ ui.selected = old) /\ missed \cap Disowning = {}
  <2>1. leaves \cap Disowning = {} /\ missed \cap Disowning = {}
    <3> HIDE DEF leaves, missed, faulted
    <3> QED
      BY <1>3 DEF HistoryFits, Calm
  <2>2. ui.active = None /\ ui.selected = old => leaves = {"unmounted"}
    OBVIOUS
  <2> QED
    BY <2>1, <2>2 DEF Disowning
<1>13. ~Expected => old \notin Tabs(ui) /\ old \notin ui.retained /\ old # ui.selected
  BY <1>4, MissedFacts
<1>14. CASE ~Expected /\ Ends(ui) /\ (core' = carried \/ ui.selected = old \/ Has(ui, old))
  <2>1. Tabs(ui) \cup ui.retained = core' /\ exists' \subseteq Notes /\ core' \subseteq exists'
    BY <1>1, <1>2, <1>13, <1>14 DEF Reidentified, Has
  <2> QED
    BY <1>1, <1>2, <1>14, <2>1, BodyEnds
<1> HIDE DEF leaves, missed, faulted
<1>5. Expected => (anchored <=> ui.active = old) /\ (read <=> Has(ui, old)) /\ (kept <=> anchored)
  BY <1>2, <1>4 DEF Has, Expected
<1>6. new # old /\ new \notin Tabs(ui) /\ new \notin ui.retained /\ new \notin core /\ old \notin now
  <2>1. new # old /\ new \notin Tabs(ui) /\ new \notin ui.retained /\ new \notin core
    BY <1>1, <1>2
  <2> QED
    BY <2>1 DEF Reidentified
<1>7. now \cup owes = carried /\ now \cap owes = {} /\ now \in SUBSET Notes
  BY <1>2, <1>6 DEF Reidentified
<1>8. exists' \subseteq Notes /\ carried \subseteq exists'
  BY <1>1, <1>2 DEF Reidentified
<1>9. (Expected /\ read => new \in carried) /\ (old \in Tabs(ui) => new \in now)
  BY <1>2, <1>5 DEF Reidentified, Has
<1>10. CASE /\ Expected /\ core' = IF read THEN carried \cup {new} ELSE carried
            /\ AfterSuccess(RekeyRetained(taken, old, new))
  <2> DEFINE was == IF ui.active = old THEN new ELSE ui.active
  <2>1. Looks(taken, now, ui.retained, was)
    <3>1. CASE anchored
      <4>1. Looks(adopted, now, ui.retained \ {new}, new)
        BY <1>2, <1>6, LooksAdopt
      <4> HIDE DEF adopted
      <4>2. Looks([adopted EXCEPT !.selected = new], now, ui.retained \ {new}, new)
        BY <4>1, LooksSelected DEF Looks, Id
      <4>3. ui.retained \ {new} = ui.retained /\ was = new /\ taken = [adopted EXCEPT !.selected = new]
        BY <1>5, <1>6, <1>10, <3>1
      <4> HIDE DEF taken, now, was
      <4> QED
        BY <4>2, <4>3
    <3>2. CASE ~anchored
      <4> DEFINE r == ReplaceTab(ui, old, new)
      <4>1. Looks(r, now, IF Has(ui, old) THEN ui.retained \ {new} ELSE ui.retained, ui.active)
        BY <1>2, <1>6, LooksReplaceTab
      <4>2. ui.retained \ {new} = ui.retained /\ was = ui.active /\ taken = r
        BY <1>5, <1>6, <1>10, <3>2
      <4> HIDE DEF r, taken, now, was
      <4> QED
        BY <4>1, <4>2
    <3> QED
      BY <3>1, <3>2
  <2>2. was \in now \cup {None}
    BY <1>2 DEF Reidentified
  <2>3. core' = carried
    BY <1>9, <1>10
  <2> HIDE DEF was, taken
  <2> DEFINE v == RekeyRetained(taken, old, new)
  <2>4. Looks(v, now, owes, was)
    <3>1. taken \in UIType /\ Distinct(taken.tabs) /\ Tabs(taken) = now /\ taken.retained = ui.retained /\ taken.active = was
      BY <2>1 DEF Looks
    <3>2. Looks(v, Tabs(taken), IF old \notin taken.retained \/ Has(taken, old) THEN taken.retained
                ELSE (taken.retained \ {old}) \cup ({new} \ Tabs(taken)), taken.active)
      BY <3>1, LooksRekeyRetained
    <3> HIDE DEF v, now
    <3>3. old \notin ui.retained => owes = ui.retained
      BY DEF Reidentified
    <3>4. old \in ui.retained => (ui.retained \ {old}) \cup ({new} \ now) = owes
      BY <1>2, <1>6 DEF Reidentified, now
    <3>5. ~Has(taken, old)
      BY <1>6, <3>1 DEF Has
    <3> HIDE DEF owes
    <3>6. CASE old \in ui.retained
      BY <3>1, <3>2, <3>4, <3>5, <3>6
    <3>7. CASE old \notin ui.retained
      BY <3>1, <3>2, <3>3, <3>7
    <3> QED
      BY <3>6, <3>7
  <2>5. AfterSuccess(v)
    BY <1>10
  <2> HIDE DEF v, now, owes, carried
  <2> QED
    BY <1>1, <1>7, <1>8, <2>2, <2>3, <2>4, <2>5, BodyEnds
<1>11. CASE /\ Expected /\ anchored /\ core' = carried
            /\ Ends(RekeyRetained(IF kept THEN revoked ELSE ReplaceTab(ui, old, new), old, new))
  <2>1. old \in Tabs(ui) /\ old \notin ui.retained
    BY <1>2, <1>5, <1>11 DEF Has
  <2> DEFINE shows == Tabs(ui) \ {old}
             owed == (ui.retained \ {old}) \cup {new}
  <2>2. Looks(retired, shows, owed, None)
    BY <1>2, LooksRetain
  <2> HIDE DEF retired, shows, owed
  <2>3. Looks(revoked, shows, owed, None)
    BY <2>2, LooksSelected DEF Looks, Id
  <2> HIDE DEF revoked
  <2> DEFINE v == RekeyRetained(revoked, old, new)
  <2>4. v = revoked
    <3>1. old \notin revoked.retained
      BY <1>6, <2>1, <2>3 DEF Looks, owed
    <3> QED
      BY <3>1 DEF RekeyRetained
  <2>5. Ends(v)
    BY <1>5, <1>11
  <2> HIDE DEF v
  <2>6. shows \cup owed = carried /\ shows \cap owed = {}
    BY <1>2, <1>6, <2>1 DEF shows, owed, Reidentified
  <2> HIDE DEF carried
  <2>7. Looks(v, shows, owed, None)
    BY <2>3, <2>4
  <2> QED
    BY <1>1, <1>8, <1>11, <2>5, <2>6, <2>7, BodyEnds
<1>12. CASE /\ ~anchored /\ read
            /\ \/ core' = carried /\ Ends(IF ui.active = old THEN ui ELSE RetainTab(ui, old, new))
               \/ core' = carried \ {new} /\ Ends(Discard(ui, old))
  <2>0. Expected
    BY <1>12, <1>13 DEF Has
  <2>1. old \in Tabs(ui) /\ old \notin ui.retained /\ ui.active # old
    BY <1>2, <1>5, <1>12, <2>0 DEF Has
  <2> DEFINE shows == Tabs(ui) \ {old}
  <2>2. ui.active \in shows \cup {None} /\ ui.retained \ {old} = ui.retained
    BY <1>2, <2>1
  <2>3. shows \cup (ui.retained \cup {new}) = carried /\ shows \cap (ui.retained \cup {new}) = {}
    BY <1>2, <1>6, <2>1 DEF Reidentified
  <2>4. CASE core' = carried /\ Ends(IF ui.active = old THEN ui ELSE RetainTab(ui, old, new))
    <3> DEFINE v == RetainTab(ui, old, new)
    <3>1. Looks(v, shows, ui.retained \cup {new}, ui.active)
      BY <1>2, LooksRetain
    <3>2. Ends(v)
      BY <2>1, <2>4
    <3> HIDE DEF v, shows, carried
    <3> QED
      BY <1>1, <1>8, <2>2, <2>3, <2>4, <3>1, <3>2, BodyEnds
  <2>5. CASE core' = carried \ {new} /\ Ends(Discard(ui, old))
    <3> DEFINE v == Discard(ui, old)
    <3>1. Looks(v, shows, IF ui.active = old THEN ui.retained ELSE ui.retained \ {old},
                IF ui.active = old THEN None ELSE ui.active)
      BY <1>2, LooksDiscard
    <3>2. Ends(v)
      BY <2>5
    <3> HIDE DEF v
    <3>3. Looks(v, shows, ui.retained, ui.active)
      BY <2>1, <2>2, <3>1
    <3>4. shows \cup ui.retained = carried \ {new} /\ shows \cap ui.retained = {}
      BY <1>6, <2>3
    <3> HIDE DEF shows, carried
    <3>5. core' \subseteq exists' /\ shows \cup ui.retained = core'
      BY <1>8, <2>5, <3>4
    <3> QED
      BY <1>1, <1>8, <2>2, <3>2, <3>3, <3>4, <3>5, BodyEnds
  <2> QED
    BY <1>12, <2>4, <2>5
<1> QED
  BY <1>1, <1>10, <1>11, <1>12, <1>14

(* What has come up is not forgotten.                                        *)
HistoryGrows == HistoryFits' /\ history.quirks \subseteq history'.quirks

LEMMA HistoryStep == HistoryFits /\ [Next]_vars => HistoryGrows
<1> SUFFICES ASSUME HistoryFits, [Next]_vars PROVE HistoryGrows
  OBVIOUS
<1> USE DEF HistoryFits, HistoryGrows
<1>1. ASSUME UNCHANGED history PROVE HistoryGrows
  BY <1>1
<1>2. ASSUME NEW cause \in SUBSET QuirkNames, Excuse(cause) PROVE HistoryGrows
  BY <1>2 DEF Excuse
<1>3. ASSUME NEW e \in BOOLEAN, history' = [history EXCEPT !.excused = e] PROVE HistoryGrows
  BY <1>3
<1>4. ASSUME NEW e \in BOOLEAN, NEW c \in SUBSET QuirkNames,
             history' = [history EXCEPT !.excused = e, !.quirks = history.quirks \cup c]
      PROVE  HistoryGrows
  BY <1>4
<1>5. ASSUME NEW c \in SUBSET QuirkNames, history' = [history EXCEPT !.quirks = history.quirks \cup c]
      PROVE  HistoryGrows
  BY <1>5
<1>6. {} \in SUBSET QuirkNames /\ history.excused \in BOOLEAN
  OBVIOUS
<1> USE DEF HistoryFits, HistoryGrows
<1>7. ASSUME NEW n \in Notes, Select(n) PROVE HistoryGrows
  BY <1>3, <1>7 DEF Select
<1>8. CASE OpenStart \/ OpenFailed \/ Rescan \/ Submit \/ \E n \in Notes : CloseTab(n)
  <2>1. (UNCHANGED history) \/ Excuse({})
    BY <1>8 DEF OpenStart, OpenFailed, Rescan, Submit, CloseTab
  <2> QED
    BY <1>1, <1>2, <1>6, <2>1
<1>9. ASSUME NEW kind, NEW keep, StartBatch(kind, keep) PROVE HistoryGrows
  <2>1. (UNCHANGED history) \/ Excuse({})
    BY <1>9 DEF StartBatch
  <2> QED
    BY <1>1, <1>2, <1>6, <2>1
<1>10. CASE OpenAnswered
  <2>1. (UNCHANGED history) \/ Excuse({}) \/ Excuse({"retaken"})
    BY <1>10 DEF OpenAnswered
  <2>2. {"retaken"} \in SUBSET QuirkNames
    BY DEF QuirkNames
  <2> QED
    BY <1>1, <1>2, <1>6, <2>1, <2>2
<1>11. CASE \/ BatchOff \/ Answered \/ Reload \/ Request \/ RequestFails \/ Other \/ ActionRestored
            \/ \E n \in Notes : RestoreAnswered(n) \/ RestoreFailed(n) \/ Create(n)
            \/ \E end \in Ending : RetireAnswered(end) \/ TabClosed(end)
            \/ \E end \in Ending, bad \in Notes, before \in SUBSET Notes : BatchCancelled(bad, before, end)
            \/ UNCHANGED vars
  <2>1. UNCHANGED history
    BY <1>11, Zenon DEF BatchOff, Answered, Reload, Request, RequestFails, Other, ActionRestored,
                 RestoreAnswered, RestoreFailed, Create, RetireAnswered, TabClosed, BatchCancelled, vars
  <2> QED
    BY <1>1, <2>1
<1>12. CASE CloseAllRefused
  <2> DEFINE c == IF ui.active = None THEN {"slipped"} ELSE {}
  <2>1. history' = [history EXCEPT !.quirks = history.quirks \cup c]
    BY <1>12 DEF CloseAllRefused
  <2>2. c \in SUBSET QuirkNames
    BY DEF QuirkNames
  <2> HIDE DEF c
  <2> QED
    BY <1>5, <2>1, <2>2
<1>13. ASSUME NEW saved \in BOOLEAN, BatchClosed(saved) PROVE HistoryGrows
  <2>1. (UNCHANGED history) \/ history' = [history EXCEPT !.quirks = history.quirks \cup {"unsaved"}]
    BY <1>13 DEF BatchClosed
  <2>2. {"unsaved"} \in SUBSET QuirkNames
    BY DEF QuirkNames
  <2> QED
    BY <1>1, <1>5, <2>1, <2>2
<1>14. ASSUME NEW old \in Notes, NEW new \in Notes, NEW bad \in Notes \cup {None}, Rename(old, new, bad)
       PROVE  HistoryGrows
  <2> DEFINE e == history.excused \/ bad # None
             c == (IF old \in ui.retained \ Tabs(ui) THEN {"rehomed"} ELSE {}) \cup
                  (IF ui.active = None /\ ui.selected = old /\ Has(ui, old) THEN {"twice"} ELSE {}) \cup
                  Missed(old)
  <2>1. history' = [history EXCEPT !.excused = e, !.quirks = history.quirks \cup c]
    <3> DEFINE a == IF old \in ui.retained \ Tabs(ui) THEN {"rehomed"} ELSE {}
               b == IF ui.active = None /\ ui.selected = old /\ Has(ui, old) THEN {"twice"} ELSE {}
               m == Missed(old)
    <3>1. history' = [history EXCEPT !.excused = e, !.quirks = ((history.quirks \cup a) \cup b) \cup m]
      BY <1>14 DEF Rename
    <3>2. ((history.quirks \cup a) \cup b) \cup m = history.quirks \cup (a \cup b \cup m)
      OBVIOUS
    <3> QED
      BY <3>1, <3>2
  <2>2. c \in SUBSET QuirkNames /\ e \in BOOLEAN
    BY MissedFacts DEF QuirkNames
  <2> HIDE DEF c, e
  <2> QED
    BY <1>4, <2>1, <2>2, Zenon
<1>15. ASSUME NEW old \in Notes, NEW new \in Notes, NEW unread \in BOOLEAN, NEW end,
              Redirect(old, new, unread, end)
       PROVE  HistoryGrows
  <2> DEFINE e == history.excused \/ unread
             a == IF ui.active = None /\ ui.selected = old THEN {"unmounted"} ELSE {}
             c == a \cup Missed(old)
  <2>1. history' = [history EXCEPT !.excused = e, !.quirks = history.quirks \cup c]
    <3> DEFINE m == Missed(old)
    <3>1. history' = [history EXCEPT !.excused = e, !.quirks = (history.quirks \cup a) \cup m]
      BY <1>15 DEF Redirect
    <3>2. (history.quirks \cup a) \cup m = history.quirks \cup c
      OBVIOUS
    <3> QED
      BY <3>1, <3>2
  <2>2. c \in SUBSET QuirkNames /\ e \in BOOLEAN
    BY MissedFacts DEF QuirkNames
  <2> HIDE DEF c, e
  <2> QED
    BY <1>4, <2>1, <2>2, Zenon
<1>16. ASSUME NEW bad \in Notes \cup {None}, ActionRenamed(bad) PROVE HistoryGrows
  <2> DEFINE e == history.excused \/ bad # None
  <2>1. history' = [history EXCEPT !.excused = e]
    BY <1>16 DEF ActionRenamed
  <2>2. e \in BOOLEAN
    OBVIOUS
  <2> HIDE DEF e
  <2> QED
    BY <1>3, <2>1, <2>2
<1>17. ASSUME NEW end, ActionCreated(end) PROVE HistoryGrows
  <2> DEFINE c == IF end = "failure" /\ actions[1].new \in core THEN {"orphaned"} ELSE {}
  <2>1. history' = [history EXCEPT !.quirks = history.quirks \cup c]
    BY <1>17 DEF ActionCreated
  <2>2. c \in SUBSET QuirkNames
    BY DEF QuirkNames
  <2> HIDE DEF c
  <2> QED
    BY <1>5, <2>1, <2>2
<1>18. ASSUME NEW n \in Notes, Delete(n) PROVE HistoryGrows
  <2> DEFINE c == Missed(n)
  <2>1. history' = [history EXCEPT !.quirks = history.quirks \cup c]
    BY <1>18 DEF Delete
  <2>2. c \in SUBSET QuirkNames
    BY MissedFacts
  <2> HIDE DEF c
  <2> QED
    BY <1>5, <2>1, <2>2
<1> HIDE DEF HistoryFits, HistoryGrows
<1> QED
  BY <1>7, <1>8, <1>9, <1>10, <1>11, <1>12, <1>13, <1>14, <1>15, <1>16, <1>17, <1>18 DEF Next, User, Program

(* With no such situation so far, every session has its owner.               *)
CalmInv == HistoryFits /\ (Calm => TabsInv)

LEMMA CalmStep == CalmInv /\ [Next]_vars => CalmInv'
<1> SUFFICES ASSUME HistoryFits, Calm => TabsInv, [Next]_vars PROVE HistoryFits' /\ (Calm' => TabsInv')
  BY DEF CalmInv
<1>1. HistoryGrows
  BY HistoryStep
<1>2. HistoryFits'
  BY <1>1 DEF HistoryGrows
<1>3. SUFFICES ASSUME Calm' PROVE TabsInv'
  BY <1>2
<1>4. TabsInv
  <2>1. Calm
    BY <1>1, <1>3 DEF HistoryGrows, Calm
  <2> QED
    BY <2>1
<1>5. CASE User
  <2>1. CASE CloseAllRefused
    BY <1>4, <2>1, TabsCloseAllRefused
  <2>2. CASE Rescan \/ Reload \/ Submit
    BY <1>4, <2>2, TabsGates
  <2>3. ASSUME NEW n \in Notes, Select(n) PROVE TabsInv'
    BY <1>4, <2>3, TabsSelect
  <2>4. ASSUME NEW n \in Notes, CloseTab(n) PROVE TabsInv'
    BY <1>4, <2>4, TabsCloseTab
  <2>5. ASSUME NEW n \in Notes, StartBatch("others", n) PROVE TabsInv'
    BY <1>4, <2>5, TabsStartBatch
  <2>6. ASSUME NEW kind \in {"all", "exit"}, StartBatch(kind, None) PROVE TabsInv'
    BY <1>4, <2>6, TabsStartBatch
  <2> QED
    BY <1>5, <2>1, <2>2, <2>3, <2>4, <2>5, <2>6 DEF User
<1>6. CASE Program
  <2>1. CASE OpenStart
    BY <1>4, <2>1, TabsOpenStart
  <2>2. CASE OpenAnswered
    BY <1>3, <1>4, <2>2, TabsOpenAnswered
  <2>3. CASE OpenFailed
    BY <1>4, <2>3, TabsOpenFailed
  <2>4. CASE BatchOff
    BY <1>4, <2>4, TabsBatchOff
  <2>5. CASE Answered
    BY <1>4, <2>5, TabsGates
  <2>6. CASE RequestFails
    BY <1>4, <2>6, TabsRequestFails
  <2>7. CASE Other \/ ActionRestored
    BY <1>4, <2>7, TabsOther
  <2>8. ASSUME NEW n \in Notes, RestoreAnswered(n) PROVE TabsInv'
    BY <1>4, <2>8, TabsRestoreAnswered
  <2>9. ASSUME NEW n \in Notes, RestoreFailed(n) PROVE TabsInv'
    BY <1>4, <2>9, TabsRestoreFailed
  <2>10. ASSUME NEW n \in Notes, Create(n) PROVE TabsInv'
    BY <1>4, <2>10, TabsCreate
  <2>11. ASSUME NEW n \in Notes, Delete(n) PROVE TabsInv'
    BY <1>3, <1>4, <2>11, TabsDelete
  <2>12. ASSUME NEW saved \in BOOLEAN, BatchClosed(saved) PROVE TabsInv'
    BY <1>4, <2>12, TabsBatchClosed
  <2>13. ASSUME NEW bad \in Notes \cup {None}, ActionRenamed(bad) PROVE TabsInv'
    BY <1>4, <2>13, TabsActionRenamed
  <2>14. ASSUME NEW end \in Ending, RetireAnswered(end) PROVE TabsInv'
    BY <1>4, <2>14, TabsRetireAnswered
  <2>15. ASSUME NEW end \in Ending, TabClosed(end) PROVE TabsInv'
    BY <1>4, <2>15, TabsTabClosed
  <2>16. ASSUME NEW end \in Ending, ActionCreated(end) PROVE TabsInv'
    BY <1>3, <1>4, <2>16, TabsActionCreated
  <2>17. ASSUME NEW end \in Ending, NEW bad \in Notes, NEW before \in SUBSET Notes,
                BatchCancelled(bad, before, end)
         PROVE  TabsInv'
    BY <1>4, <2>17, TabsBatchCancelled
  <2>18. ASSUME NEW end \in Ending, NEW old \in Notes, NEW new \in Notes, NEW unread \in BOOLEAN,
                Redirect(old, new, unread, end)
         PROVE  TabsInv'
    BY <1>3, <1>4, <2>18, TabsRedirect
  <2>19. ASSUME NEW old \in Notes, NEW new \in Notes, NEW bad \in Notes \cup {None}, Rename(old, new, bad)
         PROVE  TabsInv'
    BY <1>3, <1>4, <2>19, TabsRename
  <2>20. CASE Request
    BY <1>4, <2>20, TabsRequest
  <2> QED
    BY <1>6, <2>1, <2>2, <2>3, <2>4, <2>5, <2>6, <2>7, <2>8, <2>9, <2>10, <2>11, <2>12, <2>13, <2>14,
       <2>15, <2>16, <2>17, <2>18, <2>19, <2>20 DEF Program
<1>7. CASE UNCHANGED vars
  <2>1. UNCHANGED <<exists, core, ui, opens, restore, closes, batch, actions, anchor>>
    BY <1>7 DEF vars
  <2>2. Parts'
    BY <1>4, <2>1 DEF TabsInv, Parts
  <2>3. Turns' /\ Owners'
    BY <1>4, <2>1 DEF TabsInv, Turns, Owners
  <2> QED
    BY <2>2, <2>3 DEF TabsInv
<1> QED
  BY <1>5, <1>6, <1>7 DEF Next

(* Whatever the shell, the queues and the core interleave, every session has *)
(* an owner until one of the situations in Disowning has come up.            *)
THEOREM TabsCalm == Spec => []CalmInv
<1>1. Init => CalmInv
  <2>1. Init => HistoryFits
    BY DEF Init, HistoryFits
  <2> QED
    BY <2>1, TabsInit DEF CalmInv
<1> QED
  BY <1>1, CalmStep, PTL DEF Spec

(* SessionsMatchTabs: when nothing is underway every session of the core has *)
(* a tab or is on the list of retained ones, so that a close or an exit      *)
(* still reaches it, and no tab, retained entry or active Note is ever       *)
(* without its session.                                                      *)
THEOREM TabsMatchSessions ==
    ASSUME Disowning \subseteq Quirks
    PROVE  Spec => []SessionsMatchTabs
<1>1. CalmInv => SessionsMatchTabs
  <2> SUFFICES ASSUME HistoryFits, Calm => TabsInv, ~Excused
               PROVE  /\ AtRest => core \subseteq Shown(ui)
                      /\ Shown(ui) \cup IdIn(ui.active) \subseteq core
    BY DEF CalmInv, SessionsMatchTabs
  <2>1. TabsInv
    BY DEF Calm, Excused
  <2>2. AtRest => Given(actions) = {} /\ Handing(closes) = {} /\ Range(restore.done) = {}
    BY <2>1, Idle DEF AtRest, Given
  <2>3. IdIn(ui.active) \subseteq Tabs(ui)
    BY <2>1 DEF TabsInv, Owners, IdIn
  <2> QED
    BY <2>1, <2>2, <2>3 DEF TabsInv, Owners, Shown
<1> QED
  BY <1>1, TabsCalm, PTL

(* The lasting half of ShowsTheSelection: no Note has two tabs, and what the *)
(* editor shows is one of them.                                              *)
THEOREM TabsDiffer ==
    ASSUME Disowning \subseteq Quirks
    PROVE  Spec => [](~Excused => Distinct(ui.tabs) /\ (ui.active # None => Has(ui, ui.active)))
<1>1. CalmInv => (~Excused => Distinct(ui.tabs) /\ (ui.active # None => Has(ui, ui.active)))
  <2> SUFFICES ASSUME CalmInv, ~Excused
               PROVE  Distinct(ui.tabs) /\ (ui.active # None => Has(ui, ui.active))
    OBVIOUS
  <2>1. TabsInv
    BY DEF CalmInv, Calm, Excused
  <2> QED
    BY <2>1 DEF TabsInv, Parts, Owners, Has
<1> QED
  BY <1>1, TabsCalm, PTL

-----------------------------------------------------------------------------
(* Whatever situation comes up, the types stay and the queues take turns.    *)

(* The types of the operators on tabs, whatever they are applied to.         *)
LEMMA FitsBasics ==
    ASSUME NEW u \in UIType
    PROVE  /\ \A n \in Notes : /\ Release(u, n) \in UIType /\ AppendTab(u, n) \in UIType
                               /\ RecordActive(u, n) \in UIType /\ SaveActive(u, n) \in UIType
           /\ \A gone : Drop(u, gone) \in UIType /\ RemoveSaved(u, gone) \in UIType
           /\ \A old, new \in Notes : /\ Renamed(u, old, new) \in UIType
                                      /\ Rekey(u, old, new, TRUE) \in UIType
                                      /\ Rekey(u, old, new, FALSE) \in UIType
<1>0. u.tabs \in Seq(Notes)
  BY LastType
<1>1. ASSUME NEW n \in Notes
      PROVE  /\ Release(u, n) \in UIType /\ AppendTab(u, n) \in UIType
             /\ RecordActive(u, n) \in UIType /\ SaveActive(u, n) \in UIType
  <2>1. Release(u, n) \in UIType
    BY DEF Release, UIType
  <2>2. AppendTab(u, n) \in UIType
    <3> DEFINE a == Append(u.tabs, n)
    <3>1. a \in Seq(Notes)
      BY <1>0, Appended
    <3>2. AppendTab(u, n) = IF Has(u, n) THEN u ELSE [u EXCEPT !.tabs = a]
      BY DEF AppendTab
    <3> HIDE DEF a
    <3> QED
      BY <3>1, <3>2 DEF UIType
  <2>3. RecordActive(u, n) \in UIType
    <3> DEFINE S == u.open \cup ({u.last} \ {None, n}) \cup (IF u.last = n THEN {} ELSE {n})
    <3>1. RecordActive(u, n) = [u EXCEPT !.open = S, !.last = n]
      BY DEF RecordActive, UIType
    <3>2. S \in SUBSET Notes /\ n \in Id
      BY DEF Id, UIType
    <3> HIDE DEF S
    <3> QED
      BY <3>1, <3>2 DEF UIType
  <2>4. SaveActive(u, n) \in UIType
    <3> DEFINE S == u.open \cup ({n} \ {None, u.last})
    <3>1. SaveActive(u, n) = [u EXCEPT !.open = S, !.last = n]
      BY DEF SaveActive, UIType
    <3>2. S \in SUBSET Notes /\ n \in Id
      BY DEF Id, UIType
    <3> HIDE DEF S
    <3> QED
      BY <3>1, <3>2 DEF UIType
  <2> QED
    BY <2>1, <2>2, <2>3, <2>4
<1>2. ASSUME NEW gone PROVE Drop(u, gone) \in UIType /\ RemoveSaved(u, gone) \in UIType
  <2>1. Drop(u, gone) \in UIType
    <3> DEFINE w == Without(u.tabs, {gone})
    <3>1. w \in Seq(Notes)
      BY <1>0, WithoutFacts
    <3>2. Drop(u, gone) = [u EXCEPT !.tabs = w]
      BY DEF Drop
    <3> HIDE DEF w
    <3> QED
      BY <3>1, <3>2 DEF UIType
  <2>2. RemoveSaved(u, gone) \in UIType
    <3> DEFINE x == IF u.last \in gone \cap u.open THEN None ELSE u.last
               S == u.open \ gone
    <3>1. RemoveSaved(u, gone) = [u EXCEPT !.open = S, !.last = x]
      BY DEF RemoveSaved, UIType
    <3>2. x \in Id /\ S \in SUBSET Notes
      BY DEF Id, UIType
    <3> HIDE DEF x, S
    <3> QED
      BY <3>1, <3>2 DEF UIType
  <2> QED
    BY <2>1, <2>2
<1>3. ASSUME NEW old \in Notes, NEW new \in Notes
      PROVE  /\ Renamed(u, old, new) \in UIType
             /\ Rekey(u, old, new, TRUE) \in UIType /\ Rekey(u, old, new, FALSE) \in UIType
  <2>1. Renamed(u, old, new) \in UIType
    <3> DEFINE t == [i \in DOMAIN u.tabs |-> IF u.tabs[i] = old THEN new ELSE u.tabs[i]]
    <3>1. t \in Seq(Notes)
      BY <1>0
    <3>2. Renamed(u, old, new) = [u EXCEPT !.tabs = t]
      BY DEF Renamed
    <3> HIDE DEF t
    <3> QED
      BY <3>1, <3>2 DEF UIType
  <2>2. Rekeys(Rekey(u, old, new, TRUE), u) /\ Rekeys(Rekey(u, old, new, FALSE), u)
    BY RekeyRekeys
  <2>3. \A v : Rekeys(v, u) => v \in UIType
    BY DEF Rekeys, UIType
  <2> QED
    BY <2>1, <2>2, <2>3
<1> QED
  BY <1>1, <1>2, <1>3

LEMMA FitsRekey ==
    ASSUME NEW u \in UIType, NEW old, NEW new \in Notes
    PROVE  Rekey(u, old, new, TRUE) \in UIType /\ Rekey(u, old, new, FALSE) \in UIType
<1>2. Rekeys(Rekey(u, old, new, TRUE), u) /\ Rekeys(Rekey(u, old, new, FALSE), u)
  BY RekeyRekeys
<1>3. \A v : Rekeys(v, u) => v \in UIType
  BY DEF Rekeys, UIType
<1> QED
  BY <1>2, <1>3

LEMMA FitsShown ==
    ASSUME NEW u \in UIType, NEW n \in Notes
    PROVE  /\ [u EXCEPT !.active = n] \in UIType /\ [u EXCEPT !.selected = n] \in UIType
           /\ [u EXCEPT !.selected = u.active] \in UIType
           /\ [u EXCEPT !.active = None] \in UIType /\ [u EXCEPT !.selected = None] \in UIType
           /\ Activate(u, n) \in UIType /\ Show(u, n) \in UIType
           /\ \A from : Record(u, n, from) \in UIType
<1>1. /\ [u EXCEPT !.active = n] \in UIType /\ [u EXCEPT !.selected = n] \in UIType
      /\ [u EXCEPT !.selected = u.active] \in UIType
      /\ [u EXCEPT !.active = None] \in UIType /\ [u EXCEPT !.selected = None] \in UIType
  BY DEF UIType, Id
<1>2. Activate(u, n) \in UIType
  BY <1>1, FitsBasics DEF Activate
<1>3. Show(u, n) \in UIType
  BY <1>2 DEF Show, UIType, Id
<1>4. ASSUME NEW from PROVE Record(u, n, from) \in UIType
  <2>1. RecordActive(u, n) \in UIType /\ Rekey(u, from, n, TRUE) \in UIType
    BY FitsBasics, FitsRekey
  <2> QED
    BY <2>1 DEF Record
<1> QED
  BY <1>1, <1>2, <1>3, <1>4

LEMMA FitsPreserved ==
    ASSUME NEW u \in UIType
    PROVE  /\ \A n \in Notes : Preserve(u, n) \in UIType
           /\ \A held \in Seq(Notes) : PreserveAll(u, held) \in UIType
           /\ \A gone \in SUBSET Notes : Retire(u, gone, TRUE) \in UIType /\ Retire(u, gone, FALSE) \in UIType
           /\ GivenBack(u) \in UIType
<1>0. u.tabs \in Seq(Notes) /\ u.retained \in SUBSET Notes /\ u.open \in SUBSET Notes
      /\ u.active \in Id /\ None \in Id /\ Tabs(u) \in SUBSET Notes
  BY LastType DEF Id
<1>1. ASSUME NEW n \in Notes PROVE Preserve(u, n) \in UIType
  <2> DEFINE v == Release(AppendTab(u, n), n)
  <2>1. v \in UIType
    BY FitsBasics
  <2>2. Preserve(u, n) = [v EXCEPT !.open = v.open \cup {n}]
    BY DEF Preserve
  <2> HIDE DEF v
  <2> QED
    BY <2>1, <2>2 DEF UIType
<1>2. ASSUME NEW held \in Seq(Notes) PROVE PreserveAll(u, held) \in UIType
  <2> DEFINE more == Without(held, Tabs(u))
             t == u.tabs \o more
             R == u.retained \ Range(held)
             S == u.open \cup Range(held)
  <2>1. more \in Seq(Notes)
    BY WithoutFacts
  <2>2. t \in Seq(Notes) /\ R \in SUBSET Notes /\ S \in SUBSET Notes
    <3> HIDE DEF more
    <3>1. t \in Seq(Notes)
      BY <1>0, <2>1, Joined
    <3>2. Range(held) \subseteq Notes
      BY DEF Range
    <3> HIDE DEF t
    <3> QED
      BY <1>0, <3>1, <3>2
  <2>3. PreserveAll(u, held) = [u EXCEPT !.tabs = t, !.retained = R, !.open = S]
    BY DEF PreserveAll
  <2> HIDE DEF t, R, S
  <2> QED
    BY <2>2, <2>3 DEF UIType
<1>3. ASSUME NEW gone \in SUBSET Notes PROVE Retire(u, gone, TRUE) \in UIType /\ Retire(u, gone, FALSE) \in UIType
  <2> DEFINE left == Without(u.tabs, gone)
             R == u.retained \ gone
             x == IF u.active \in gone THEN None ELSE u.active
             v == [u EXCEPT !.tabs = left, !.retained = R, !.active = x]
  <2>1. left \in Seq(Notes)
    BY <1>0, WithoutFacts
  <2>2. R \in SUBSET Notes /\ x \in Id
    BY <1>0
  <2>3. Retire(u, gone, TRUE) = v /\ Retire(u, gone, FALSE) = RemoveSaved(v, gone)
    BY DEF Retire
  <2>4. v \in UIType
    <3> HIDE DEF left, R, x
    <3> QED
      BY <2>1, <2>2 DEF UIType
  <2> HIDE DEF v
  <2> QED
    BY <2>3, <2>4, FitsBasics
<1>4. GivenBack(u) \in UIType
  <2> DEFINE x == IF Has(u, u.active) THEN u.active ELSE None
             S == Tabs(u)
  <2>1. S \in SUBSET Notes /\ x \in Id
    BY <1>0
  <2>2. GivenBack(u) = IF Exiting THEN u ELSE [u EXCEPT !.open = S, !.last = x]
    BY DEF GivenBack
  <2> HIDE DEF x, S
  <2>3. [u EXCEPT !.open = S, !.last = x] \in UIType
    BY <2>1 DEF UIType
  <2> QED
    BY <2>2, <2>3
<1> QED
  BY <1>1, <1>2, <1>3, <1>4

LEMMA FitsRetained ==
    ASSUME NEW u \in UIType, NEW old \in Notes, NEW new \in Notes
    PROVE  /\ Adopt(u, new, old) \in UIType /\ ReplaceTab(u, old, new) \in UIType
           /\ RetainActive(u, old, new) \in UIType /\ RetainTab(u, old, new) \in UIType
           /\ RekeyRetained(u, old, new) \in UIType
<1>1. Adopt(u, new, old) \in UIType
  <2> DEFINE a == [u EXCEPT !.active = new]
             v == Release(a, new)
             w == IF Has(v, old) THEN Renamed(v, old, new) ELSE v
  <2>1. a \in UIType
    BY FitsShown
  <2> HIDE DEF a
  <2>2. v \in UIType
    BY <2>1, FitsBasics
  <2> HIDE DEF v
  <2>3. w \in UIType
    BY <2>2, FitsBasics
  <2>4. Adopt(u, new, old) = IF old # new THEN Rekey(w, old, new, TRUE) ELSE SaveActive(w, new)
    BY DEF Adopt, w, v, a
  <2> HIDE DEF w
  <2>5. Rekey(w, old, new, TRUE) \in UIType /\ SaveActive(w, new) \in UIType
    BY <2>3, FitsBasics
  <2> QED
    BY <2>4, <2>5
<1>2. ReplaceTab(u, old, new) \in UIType
  <2> DEFINE r == Renamed(u, old, new)
             v == Release(r, new)
  <2>1. r \in UIType
    BY FitsBasics
  <2> HIDE DEF r
  <2>2. v \in UIType
    BY <2>1, FitsBasics
  <2> HIDE DEF v
  <2>3. Rekey(v, old, new, FALSE) \in UIType
    BY <2>2, FitsBasics
  <2>4. ReplaceTab(u, old, new) = IF ~Has(u, old) THEN u ELSE IF old = new THEN v ELSE Rekey(v, old, new, FALSE)
    BY DEF ReplaceTab, v, r
  <2> QED
    BY <2>2, <2>3, <2>4
<1>3. RetainActive(u, old, new) \in UIType /\ RetainTab(u, old, new) \in UIType
  <2> DEFINE v == Drop(u, old)
             w == [v EXCEPT !.retained = (v.retained \ {old}) \cup {new}, !.active = None]
             x == [v EXCEPT !.retained = v.retained \cup {new}]
  <2>1. v \in UIType
    BY FitsBasics
  <2>2. RetainActive(u, old, new) = Rekey(w, old, new, FALSE) /\ RetainTab(u, old, new) = Rekey(x, old, new, FALSE)
    BY DEF RetainActive, RetainTab
  <2> HIDE DEF v
  <2>3. w \in UIType /\ x \in UIType
    BY <2>1 DEF UIType, Id
  <2> HIDE DEF w, x
  <2>4. Rekey(w, old, new, FALSE) \in UIType /\ Rekey(x, old, new, FALSE) \in UIType
    BY <2>3, FitsBasics
  <2> QED
    BY <2>2, <2>4
<1>4. RekeyRetained(u, old, new) \in UIType
  <2> DEFINE R == (u.retained \ {old}) \cup ({new} \ Tabs(u))
             w == [u EXCEPT !.retained = R]
  <2>1. R \in SUBSET Notes
    BY LastType
  <2>2. RekeyRetained(u, old, new) = IF old \notin u.retained \/ Has(u, old) THEN u ELSE Rekey(w, old, new, FALSE)
    BY DEF RekeyRetained
  <2> HIDE DEF R
  <2>3. w \in UIType
    BY <2>1 DEF UIType
  <2> HIDE DEF w
  <2>4. Rekey(w, old, new, FALSE) \in UIType
    BY <2>3, FitsBasics
  <2> QED
    BY <2>2, <2>4
<1> QED
  BY <1>1, <1>2, <1>3, <1>4

LEMMA FitsDiscarded ==
    ASSUME NEW u \in UIType
    PROVE  /\ Clear(u) \in UIType
           /\ \A n \in Notes : Discard(u, n) \in UIType /\ Unselect(u, n) \in UIType
           /\ \A bad \in Notes \cup {None} : Unreadable(u, bad) \in UIType
<1>1. \A v \in UIType : Clear(v) \in UIType
  <2> TAKE v \in UIType
  <2> DEFINE x == v.active
             d == Drop(v, x)
             r == RemoveSaved(d, {x})
  <2>1. d \in UIType
    BY FitsBasics
  <2>5. Clear(v) = IF x # None /\ Has(v, x) THEN [r EXCEPT !.active = None]
                   ELSE [v EXCEPT !.active = None, !.last = None]
    BY DEF Clear
  <2> HIDE DEF d
  <2>2. r \in UIType
    BY <2>1, FitsBasics
  <2> HIDE DEF r, x
  <2>3. [r EXCEPT !.active = None] \in UIType
    BY <2>2 DEF UIType, Id
  <2>4. [v EXCEPT !.active = None, !.last = None] \in UIType
    BY DEF UIType, Id
  <2> QED
    BY <2>3, <2>4, <2>5
<1>2. ASSUME NEW n \in Notes PROVE Discard(u, n) \in UIType
  <2> DEFINE d == Drop(u, n)
             r == Release(d, n)
  <2>1. d \in UIType
    BY FitsBasics
  <2>2. Discard(u, n) = IF u.active = n THEN Clear(u) ELSE RemoveSaved(r, {n})
    BY DEF Discard
  <2> HIDE DEF d
  <2>3. r \in UIType
    BY <2>1, FitsBasics
  <2> HIDE DEF r
  <2>4. RemoveSaved(r, {n}) \in UIType
    BY <2>3, FitsBasics
  <2> QED
    BY <1>1, <2>2, <2>4
<1>3. ASSUME NEW n \in Notes PROVE Unselect(u, n) \in UIType
  <2> DEFINE c == Clear(u)
  <2>1. c \in UIType
    BY <1>1
  <2>2. Unselect(u, n) = IF u.selected # n THEN u
                         ELSE IF u.active \notin {None, n} THEN [u EXCEPT !.selected = u.active]
                         ELSE [c EXCEPT !.selected = None]
    BY DEF Unselect
  <2> HIDE DEF c
  <2>3. [c EXCEPT !.selected = None] \in UIType
    BY <2>1 DEF UIType, Id
  <2>4. [u EXCEPT !.selected = u.active] \in UIType
    BY DEF UIType
  <2> QED
    BY <2>2, <2>3, <2>4
<1>4. ASSUME NEW bad \in Notes \cup {None} PROVE Unreadable(u, bad) \in UIType
  <2>1. bad \in Notes => RetainActive(u, bad, bad) \in UIType /\ RetainTab(u, bad, bad) \in UIType
    BY FitsRetained
  <2> QED
    BY <2>1 DEF Unreadable
<1> QED
  BY <1>1, <1>2, <1>3, <1>4

LEMMA FitsReselected ==
    ASSUME NEW u \in UIType, NEW order, NEW active
    PROVE  Reselect(u, order, active) \in UIType
<1> DEFINE later == {order[j] : j \in {k \in DOMAIN order : \E i \in DOMAIN order : order[i] = active /\ i < k}}
           after == Without(u.tabs, Tabs(u) \ later)
<1>1. u.tabs \in Seq(Notes)
  BY LastType
<1>2. after \in Seq(Notes)
  BY <1>1, WithoutFacts
<1>3. Reselect(u, order, active) =
        IF u.active # None THEN u
        ELSE IF u.tabs = <<>> THEN [u EXCEPT !.selected = None]
        ELSE IF active \notin Range(order) THEN Show(u, Head(u.tabs))
        ELSE IF after # <<>> THEN Show(u, Head(after))
        ELSE Show(u, u.tabs[Len(u.tabs)])
  BY DEF Reselect
<1> HIDE DEF after
<1>4. u.tabs # <<>> => Head(u.tabs) \in Notes /\ u.tabs[Len(u.tabs)] \in Notes
  BY <1>1
<1>5. after # <<>> => Head(after) \in Notes
  BY <1>2, Behind
<1>6. \A n \in Notes : Show(u, n) \in UIType
  BY FitsShown
<1>7. [u EXCEPT !.selected = None] \in UIType
  BY DEF UIType, Id
<1> QED
  BY <1>3, <1>4, <1>5, <1>6, <1>7

(* The types without the owners.                                             *)
Types ==
    /\ core \subseteq Notes /\ exists \subseteq Notes /\ ui \in UIType
    /\ TasksFit(opens) /\ ClosesFit(closes) /\ ActionsFit(actions, exists)
    /\ restore \in RestoreType /\ batch \in BatchType \cup {None} /\ anchor \in AnchorType

Frame == Types /\ Turns

LEMMA FrameInit == Init => Frame
BY TabsInit DEF TabsInv, Parts, Types, Frame

(* A step that leaves to the queues what they owe.                           *)
LEMMA FrameMoves ==
    ASSUME Frame, core' \subseteq Notes, UNCHANGED <<exists, restore>>, ui' \in UIType,
           TasksFit(opens'), Same(opens', opens), ClosesFit(closes'), Handing(closes') = Handing(closes),
           ActionsFit(actions', exists), batch' \in BatchType \cup {None}, anchor' \in AnchorType
    PROVE  Frame'
<1>1. Types'
  BY DEF Frame, Types
<1>2. Turns'
  BY DEF Frame, Turns, Same
<1> QED
  BY <1>1, <1>2 DEF Frame

LEMMA FrameIdle ==
    ASSUME Frame, Restoring(opens) \/ Retiring(opens) => FALSE
    PROVE  restore.todo = {} /\ restore.done = <<>> /\ Handing(closes) = {}
BY DEF Frame, Turns

LEMMA FrameRests ==
    ASSUME Frame, restore'.todo = {}, restore'.done = <<>>, restore' \in RestoreType,
           ClosesFit(closes'), Handing(closes') = {},
           core' \subseteq Notes, exists' \subseteq Notes, ui' \in UIType, TasksFit(opens'),
           ActionsFit(actions', exists'), batch' \in BatchType \cup {None}, anchor' \in AnchorType
    PROVE  Frame'
<1>1. Types'
  BY DEF Types
<1>2. Turns'
  BY DEF Turns
<1> QED
  BY <1>1, <1>2 DEF Frame

LEMMA FrameAnswers ==
    ASSUME Frame, NEW kinds, NEW pc, Answering(kinds, pc)
    PROVE  /\ opens # <<>> /\ Head(opens) = opens[1] /\ opens[1] \in TaskType
           /\ opens[1].kind \in kinds /\ opens[1].pc = pc
           /\ opens[1].kind # "restore" => opens[1].note \in Notes
           /\ TasksFit(Tail(opens)) /\ Opened(Tail(opens)) = {}
           /\ ~Restoring(Tail(opens)) /\ ~Retiring(Tail(opens))
<1>1. opens # <<>> /\ Head(opens).kind \in kinds /\ Head(opens).pc = pc
  BY DEF Answering
<1> QED
  BY <1>1, TaskEnds, NoTask DEF Frame, Types, Same

LEMMA FrameSelect == \A n \in Notes : Frame /\ Select(n) => Frame'
<1> SUFFICES ASSUME Frame, NEW n \in Notes, Select(n) PROVE Frame'
  OBVIOUS
<1>1. ui' = [ui EXCEPT !.selected = n] /\ opens' = Publish(opens, n)
      /\ UNCHANGED <<exists, core, restore, closes, batch, actions, anchor>>
  BY DEF Select
<1>2. ui' \in UIType
  BY <1>1, FitsShown DEF Frame, Types
<1>3. TasksFit(opens') /\ Same(opens', opens)
  BY <1>1, PublishFacts DEF Frame, Types
<1> QED
  BY <1>1, <1>2, <1>3, FrameMoves DEF Frame, Types

LEMMA FrameOpenStart == Frame /\ OpenStart => Frame'
<1> SUFFICES ASSUME Frame, OpenStart PROVE Frame'
  OBVIOUS
<1> DEFINE t == Head(opens)
<1>1. /\ opens # <<>> /\ t.pc = "queued" /\ t = opens[1] /\ t \in TaskType /\ t.kind # "restore"
      /\ t.note \in Notes /\ UNCHANGED <<exists, core, restore, closes, batch, actions, anchor>>
      /\ TasksFit(Tail(opens))
  <2>1. opens # <<>> /\ t.pc = "queued" /\ UNCHANGED <<exists, core, restore, closes, batch, actions, anchor>>
    BY DEF OpenStart, Ready
  <2>2. TasksFit(opens) /\ 1 \in DOMAIN opens
    BY <2>1, Behind DEF Frame, Types, TasksFit
  <2>3. t = opens[1] /\ t \in TaskType /\ (t.kind # "restore" => t.note \in Notes) /\ TasksFit(Tail(opens))
    BY <2>1, <2>2, TaskEnds
  <2> QED
    BY <2>1, <2>2, <2>3 DEF TasksFit
<1>2. ~Restoring(opens) /\ ~Retiring(opens)
  BY <1>1 DEF Restoring, Retiring
<1>3. restore.todo = {} /\ restore.done = <<>> /\ Handing(closes) = {}
  BY <1>2 DEF Frame, Turns
<1> DEFINE v == [ui EXCEPT !.active = t.note]
           w == AppendTab(v, t.note)
           x == Release(w, t.note)
           r == [t EXCEPT !.pc = "core", !.fenced = FALSE]
<1>4. \/ ui' = ui /\ opens' = Tail(opens)
      \/ ui' = Record(x, t.note, t.from) /\ opens' = Tail(opens)
      \/ ui' = ui /\ opens' = <<r>>
  BY DEF OpenStart
<1> DEFINE n == t.note
           from == t.from
<1>5. Record(x, n, from) \in UIType
  <2>0. n \in Notes
    BY <1>1
  <2> HIDE DEF n, from, t
  <2>1. v \in UIType
    BY <2>0, FitsShown DEF Frame, Types, n
  <2> HIDE DEF v
  <2>2. w \in UIType
    BY <2>0, <2>1, FitsBasics DEF n
  <2> HIDE DEF w
  <2>3. x \in UIType
    BY <2>0, <2>2, FitsBasics DEF n
  <2> HIDE DEF x
  <2> QED
    BY <2>0, <2>3, FitsShown
<1>6. TasksFit(<<r>>)
  <2>1. r \in TaskType /\ r.kind = t.kind /\ r.note = t.note
    BY <1>1 DEF TaskType
  <2> HIDE DEF r
  <2> QED
    BY <1>1, <2>1, OneTask
<1>7. ui' \in UIType /\ TasksFit(opens')
  BY <1>1, <1>4, <1>5, <1>6 DEF Frame, Types
<1> QED
  BY <1>1, <1>3, <1>7, FrameRests DEF Frame, Types

LEMMA FrameOpenAnswered == Frame /\ OpenAnswered => Frame'
<1> SUFFICES ASSUME Frame, OpenAnswered PROVE Frame'
  OBVIOUS
<1> DEFINE t == opens[1]
           n == t.note
           from == t.from
           v == [ui EXCEPT !.active = n]
           w == AppendTab(v, n)
           x == Release(w, n)
<1>1. /\ Answering({"user", "life"}, "core") /\ core' = core \cup {Head(opens).note}
      /\ UNCHANGED <<exists, restore, batch, actions, anchor>>
  BY DEF OpenAnswered
<1>2. /\ opens # <<>> /\ Head(opens) = t /\ t \in TaskType /\ t.kind # "restore" /\ t.pc = "core"
      /\ n \in Notes /\ TasksFit(Tail(opens))
  BY <1>1, FrameAnswers
<1>3. ~Restoring(opens) /\ ~Retiring(opens)
  BY <1>2 DEF Restoring, Retiring
<1>4. restore.todo = {} /\ restore.done = <<>> /\ Handing(closes) = {}
  BY <1>3 DEF Frame, Turns
<1>5. \/ ui' = Record(x, n, from) /\ opens' = Tail(opens) /\ UNCHANGED closes
      \/ /\ opens' = [opens EXCEPT ![1].pc = "retire"]
         /\ closes' = Append(closes, [kind |-> "retire", note |-> n]) /\ UNCHANGED ui
  BY <1>2 DEF OpenAnswered
<1>6. Record(x, n, from) \in UIType
  <2> HIDE DEF n, from, t
  <2>1. v \in UIType
    BY <1>2, FitsShown DEF Frame, Types
  <2> HIDE DEF v
  <2>2. w \in UIType
    BY <1>2, <2>1, FitsBasics
  <2> HIDE DEF w
  <2>3. x \in UIType
    BY <1>2, <2>2, FitsBasics
  <2> HIDE DEF x
  <2> QED
    BY <1>2, <2>3, FitsShown
<1>7. core' \subseteq Notes
  BY <1>1, <1>2 DEF Frame, Types
<1>8. CASE ui' = Record(x, n, from) /\ opens' = Tail(opens) /\ UNCHANGED closes
  BY <1>1, <1>2, <1>4, <1>6, <1>7, <1>8, FrameRests DEF Frame, Types
<1>9. CASE /\ opens' = [opens EXCEPT ![1].pc = "retire"]
           /\ closes' = Append(closes, [kind |-> "retire", note |-> n]) /\ UNCHANGED ui
  <2>2. TasksFit(opens') /\ opens' # <<>> /\ opens'[1].kind = t.kind /\ opens'[1].pc = "retire"
    BY <1>2, <1>9, TaskTurns DEF Frame, Types
  <2>3. ~Restoring(opens') /\ Retiring(opens')
    BY <1>2, <2>2 DEF Restoring, Retiring
  <2>4. ClosesFit(closes') /\ Handing(closes') = {n}
    BY <1>2, <1>4, <1>9, CloseQueued DEF Frame, Types
  <2>5. Types'
    BY <1>1, <1>7, <1>9, <2>2, <2>4 DEF Frame, Types
  <2>6. Turns'
    BY <1>1, <1>4, <2>3 DEF Turns
  <2> QED
    BY <2>5, <2>6 DEF Frame
<1> QED
  BY <1>5, <1>8, <1>9

LEMMA FrameOpenFailed == Frame /\ OpenFailed => Frame'
<1> SUFFICES ASSUME Frame, OpenFailed PROVE Frame'
  OBVIOUS
<1>1. /\ Answering({"user", "life"}, "core") /\ opens' = Tail(opens)
      /\ UNCHANGED <<exists, core, ui, restore, closes, batch, actions, anchor>>
  BY DEF OpenFailed
<1>2. /\ opens # <<>> /\ opens[1].kind # "restore" /\ opens[1].pc = "core" /\ TasksFit(opens')
  BY <1>1, FrameAnswers
<1>3. restore.todo = {} /\ restore.done = <<>> /\ Handing(closes) = {}
  BY <1>2 DEF Frame, Turns, Restoring, Retiring
<1> QED
  BY <1>1, <1>2, <1>3, FrameRests DEF Frame, Types

LEMMA FrameRestoreEnds ==
    ASSUME Frame, opens # <<>>, NEW u \in UIType, NEW retry \in SUBSET Notes, RestoreEnds(u, retry),
           ClosesFit(closes'), Handing(closes') = {}, core' \subseteq Notes,
           UNCHANGED <<exists, actions, anchor>>, batch' \in BatchType \cup {None}
    PROVE  Frame'
<1>1. TasksFit(Tail(opens))
  BY TaskEnds DEF Frame, Types
<1>2. restore' \in RestoreType /\ restore'.todo = {} /\ restore'.done = <<>>
  <2> DEFINE r == restore
             f == <<>>
  <2>1. restore' = [r EXCEPT !.todo = {}, !.late = None, !.done = f, !.retry = retry]
    BY DEF RestoreEnds
  <2>2. r \in RestoreType /\ f \in Seq(Notes) /\ None \in Id
    BY DEF Frame, Types, Id
  <2> HIDE DEF r, f
  <2>3. restore' \in RestoreType /\ restore'.todo = {} /\ restore'.done = f
    BY <2>1, <2>2 DEF RestoreType
  <2> QED
    BY <2>3 DEF f
<1>3. ui' \in UIType
  <2>1. [u EXCEPT !.selected = u.active] \in UIType
    BY DEF UIType
  <2> QED
    BY <2>1 DEF RestoreEnds
<1>4. TasksFit(opens')
  <2>1. u.active # None => u.active \in Notes
    BY LastType DEF Id
  <2> QED
    BY <1>1, <2>1, PublishFacts DEF RestoreEnds
<1> QED
  BY <1>2, <1>3, <1>4, FrameRests DEF Frame, Types

LEMMA FrameGiveBack ==
    ASSUME Frame, Restoring(opens), NEW late \in Id, NEW held \in Seq(Notes), held # <<>>,
           NEW queue, ClosesFit(queue), Handing(queue) = {}, GiveBack(queue, late, held),
           ui' \in UIType, core' \subseteq Notes,
           UNCHANGED <<exists, actions, anchor>>, batch' \in BatchType \cup {None}
    PROVE  Frame'
<1>1. Head(held) \in Notes
  BY Behind
<1>2. opens # <<>> /\ opens[1].kind = "restore"
  BY DEF Restoring
<1>3. TasksFit(opens') /\ opens' # <<>> /\ opens'[1].kind = "restore" /\ opens'[1].pc = "retire"
  BY <1>2, TaskTurns DEF Frame, Types, GiveBack
<1>4. Restoring(opens') /\ Retiring(opens')
  BY <1>3 DEF Restoring, Retiring
<1>5. ClosesFit(closes') /\ Handing(closes') = {Head(held)}
  BY <1>1, CloseQueued DEF GiveBack
<1>6. restore' \in RestoreType /\ restore'.todo = {} /\ restore'.done = held
  BY DEF GiveBack, Frame, Types, RestoreType
<1>7. Types'
  BY <1>3, <1>5, <1>6 DEF Frame, Types
<1>8. Turns'
  BY <1>4, <1>5, <1>6 DEF Turns
<1> QED
  BY <1>7, <1>8 DEF Frame

LEMMA FrameRestoring ==
    ASSUME Frame, Answering({"restore"}, "core")
    PROVE  /\ opens # <<>> /\ Restoring(opens) /\ ~Retiring(opens) /\ Handing(closes) = {}
           /\ ClosesFit(closes) /\ batch \in BatchType \cup {None}
           /\ restore.done \in Seq(Notes) /\ restore.todo \in SUBSET Notes
           /\ restore.retry \in SUBSET Notes /\ Range(restore.done) \in SUBSET Notes
<1>1. opens # <<>> /\ opens[1].kind = "restore" /\ opens[1].pc = "core"
  BY FrameAnswers
<1>2. Restoring(opens) /\ ~Retiring(opens)
  BY <1>1 DEF Restoring, Retiring
<1> QED
  BY <1>1, <1>2 DEF Frame, Turns, Types, RestoreType, Range

LEMMA FrameKept == Frame => Kept \in SUBSET Notes
<1> SUFFICES ASSUME Frame PROVE Kept \in SUBSET Notes
  OBVIOUS
<1>1. restore.retry \in SUBSET Notes /\ ui.open \in SUBSET Notes /\ IdIn(ui.last) \in SUBSET Notes
  BY DEF Frame, Types, RestoreType, UIType, IdIn, Id
<1> QED
  BY <1>1 DEF Kept, SavedIds

LEMMA FitsRestored ==
    ASSUME NEW u \in UIType, NEW held \in Seq(Notes), NEW retry \in SUBSET Notes
    PROVE  Restored(u, held, retry) \in UIType
<1> DEFINE active == IF held = <<>> THEN None
                     ELSE IF restore.last \in Range(held) THEN restore.last ELSE Head(held)
           r == Range(held) \cup retry
<1>1. active \in Range(held) \cup {None}
  BY Behind
<1>2. Range(held) \subseteq Notes
  BY DEF Range
<1>3. Restored(u, held, retry) = [u EXCEPT !.tabs = held, !.active = active, !.open = r, !.last = active]
  BY DEF Restored
<1>4. r \in SUBSET Notes /\ active \in Id
  BY <1>1, <1>2 DEF Id
<1> HIDE DEF active, r
<1> QED
  BY <1>3, <1>4 DEF UIType

LEMMA FrameRestoreAnswered == \A n \in Notes : Frame /\ RestoreAnswered(n) => Frame'
<1> SUFFICES ASSUME Frame, NEW n \in Notes, RestoreAnswered(n) PROVE Frame'
  OBVIOUS
<1> DEFINE held == Append(restore.done, n)
           left == restore.todo \ {n}
           back == <<n>> \o restore.done
           u == Restored(ui, held, restore.retry)
<1>1. /\ Answering({"restore"}, "core") /\ core' = core \cup {n}
      /\ UNCHANGED <<exists, batch, actions, anchor>>
      /\ \/ GiveBack(closes, n, back) /\ UNCHANGED ui
         \/ /\ restore' = [restore EXCEPT !.todo = left, !.done = held]
            /\ UNCHANGED <<ui, opens, closes>>
         \/ RestoreEnds(u, restore.retry) /\ UNCHANGED closes
  BY DEF RestoreAnswered
<1>2. /\ opens # <<>> /\ Restoring(opens) /\ ~Retiring(opens) /\ Handing(closes) = {}
      /\ ClosesFit(closes) /\ batch \in BatchType \cup {None}
      /\ restore.done \in Seq(Notes) /\ restore.todo \in SUBSET Notes /\ restore.retry \in SUBSET Notes
  BY <1>1, FrameRestoring
<1>3. held \in Seq(Notes) /\ left \in SUBSET Notes /\ core' \subseteq Notes /\ n \in Id
  BY <1>1, <1>2, Appended DEF Frame, Types, Id
<1>4. back \in Seq(Notes) /\ back # <<>>
  <2> DEFINE f == <<n>>
             d == restore.done
  <2>1. f \in Seq(Notes) /\ d \in Seq(Notes) /\ n \in Range(f)
    BY <1>2 DEF Range
  <2> HIDE DEF f, d
  <2>2. f \o d \in Seq(Notes) /\ n \in Range(f \o d)
    BY <2>1, Joined
  <2> DEFINE b == f \o d
  <2> HIDE DEF b
  <2>3. b # <<>>
    BY <2>2 DEF Range, b
  <2> QED
    BY <2>2, <2>3 DEF f, d, b
<1>5. u \in UIType
  BY <1>2, <1>3, FitsRestored DEF Frame, Types
<1> HIDE DEF held, left, back, u
<1>6. CASE GiveBack(closes, n, back) /\ UNCHANGED ui
  BY <1>1, <1>2, <1>3, <1>4, <1>6, FrameGiveBack DEF Frame, Types
<1>7. CASE restore' = [restore EXCEPT !.todo = left, !.done = held] /\ UNCHANGED <<ui, opens, closes>>
  <2>1. restore' \in RestoreType
    BY <1>3, <1>7 DEF Frame, Types, RestoreType
  <2>2. Types'
    BY <1>1, <1>3, <1>7, <2>1 DEF Frame, Types
  <2>3. Turns'
    BY <1>2, <1>7 DEF Turns
  <2> QED
    BY <2>2, <2>3 DEF Frame
<1>8. CASE RestoreEnds(u, restore.retry) /\ UNCHANGED closes
  BY <1>1, <1>2, <1>3, <1>5, <1>8, FrameRestoreEnds
<1> QED
  BY <1>1, <1>6, <1>7, <1>8

LEMMA FrameRestoreFailed == \A n \in Notes : Frame /\ RestoreFailed(n) => Frame'
<1> SUFFICES ASSUME Frame, NEW n \in Notes, RestoreFailed(n) PROVE Frame'
  OBVIOUS
<1> DEFINE left == restore.todo \ {n}
           retry == restore.retry \cup ({n} \cap exists)
           u == IF n \in exists THEN ui ELSE RemoveSaved(ui, {n})
           v == Restored(u, restore.done, retry)
           w == GivenBack(ui)
<1>1. /\ Answering({"restore"}, "core")
      /\ UNCHANGED <<exists, core, batch, actions, anchor>>
      /\ \/ restore.done # <<>> /\ GiveBack(closes, None, restore.done) /\ UNCHANGED ui
         \/ RestoreEnds(w, Kept) /\ UNCHANGED closes
         \/ /\ restore' = [restore EXCEPT !.todo = left, !.retry = retry]
            /\ ui' = u /\ UNCHANGED <<opens, closes>>
         \/ RestoreEnds(v, retry) /\ UNCHANGED closes
  BY DEF RestoreFailed
<1>2. /\ opens # <<>> /\ Restoring(opens) /\ ~Retiring(opens) /\ Handing(closes) = {}
      /\ ClosesFit(closes) /\ batch \in BatchType \cup {None}
      /\ restore.done \in Seq(Notes) /\ restore.todo \in SUBSET Notes /\ restore.retry \in SUBSET Notes
  BY <1>1, FrameRestoring
<1>3. left \in SUBSET Notes /\ retry \in SUBSET Notes /\ core' \subseteq Notes /\ None \in Id
  BY <1>1, <1>2 DEF Frame, Types, Id
<1>4. u \in UIType /\ w \in UIType
  BY FitsBasics, FitsPreserved DEF Frame, Types
<1> HIDE DEF left, retry, u, w
<1>5. v \in UIType
  BY <1>2, <1>3, <1>4, FitsRestored
<1> HIDE DEF v
<1>6. CASE restore.done # <<>> /\ GiveBack(closes, None, restore.done) /\ UNCHANGED ui
  BY <1>1, <1>2, <1>3, <1>6, FrameGiveBack DEF Frame, Types
<1>7. CASE RestoreEnds(w, Kept) /\ UNCHANGED closes
  BY <1>1, <1>2, <1>3, <1>4, <1>7, FrameKept, FrameRestoreEnds
<1>8. CASE restore' = [restore EXCEPT !.todo = left, !.retry = retry] /\ ui' = u /\ UNCHANGED <<opens, closes>>
  <2>1. restore' \in RestoreType /\ restore'.done = restore.done
    BY <1>3, <1>8 DEF Frame, Types, RestoreType
  <2>2. Types'
    BY <1>1, <1>4, <1>8, <2>1 DEF Frame, Types
  <2>3. Turns'
    BY <1>2, <1>8 DEF Turns
  <2> QED
    BY <2>2, <2>3 DEF Frame
<1>9. CASE RestoreEnds(v, retry) /\ UNCHANGED closes
  BY <1>1, <1>2, <1>3, <1>5, <1>9, FrameRestoreEnds
<1> QED
  BY <1>1, <1>6, <1>7, <1>8, <1>9

LEMMA FrameRetireAnswered == \A end : Frame /\ RetireAnswered(end) => Frame'
<1> SUFFICES ASSUME Frame, NEW end, RetireAnswered(end) PROVE Frame'
  OBVIOUS
<1> DEFINE n == Head(closes).note
           rest == Tail(restore.done)
           own == IF end = "failure" THEN <<n>> ELSE <<>>
           kept == IF n = restore.late THEN rest \o own ELSE own \o rest
           u == IF end = "failure" THEN Preserve(ui, n) ELSE ui
           v == PreserveAll(ui, kept)
           w == GivenBack(u)
<1>1. /\ closes # <<>> /\ Head(closes).kind = "retire" /\ core' = CoreAfter(n, end)
      /\ UNCHANGED <<exists, actions, anchor>>
      /\ \/ /\ Head(opens).kind # "restore" /\ ui' = u
            /\ opens' = Tail(opens) /\ closes' = Tail(closes) /\ UNCHANGED <<restore, batch>>
         \/ /\ Head(opens).kind = "restore" /\ Exiting
            /\ RestoreEnds(v, Kept) /\ closes' = Tail(closes)
            /\ batch' = [batch EXCEPT !.dirty = TRUE,
                                      !.gone = IF end = "warning" THEN @ \cup {n} ELSE @]
         \/ /\ Head(opens).kind = "restore" /\ Len(restore.done) > 1
            /\ GiveBack(Tail(closes), None, rest) /\ ui' = u /\ UNCHANGED batch
         \/ /\ Head(opens).kind = "restore" /\ RestoreEnds(w, Kept) /\ closes' = Tail(closes) /\ UNCHANGED batch
  BY DEF RetireAnswered, CloseTurn
<1>2. /\ ClosesFit(Tail(closes)) /\ n \in Notes /\ Handing(closes) = {n} /\ Handing(Tail(closes)) = {}
  BY <1>1, CloseEnded DEF Frame, Types, CloseType
<1>3. Retiring(opens) /\ opens # <<>> /\ Head(opens) = opens[1] /\ TasksFit(Tail(opens))
  <2>1. Retiring(opens)
    BY <1>2 DEF Frame, Turns
  <2>2. opens # <<>>
    BY <2>1 DEF Retiring
  <2> QED
    BY <2>1, <2>2, TaskEnds DEF Frame, Types
<1>4. restore.todo = {} /\ core' \subseteq Notes /\ batch \in BatchType \cup {None} /\ Kept \in SUBSET Notes
  BY <1>1, <1>3, FrameKept DEF Frame, Turns, Types, CoreAfter
<1>5. ui \in UIType /\ restore \in RestoreType /\ anchor \in AnchorType
  BY DEF Frame, Types
<1>6. u \in UIType
  BY <1>2, <1>5, FitsPreserved
<1>7. own \in Seq(Notes)
  BY <1>2
<1> HIDE DEF n, u, own
<1>8. w \in UIType
  BY <1>6, FitsPreserved
<1>9. ASSUME Head(opens).kind = "restore"
      PROVE  Restoring(opens) /\ rest \in Seq(Notes) /\ (Len(restore.done) > 1 => rest # <<>>)
  <2>1. Restoring(opens)
    BY <1>3, <1>9 DEF Restoring
  <2>2. restore.done # <<>> /\ restore.done \in Seq(Notes)
    BY <1>2, <1>5, <2>1 DEF Frame, Turns, RestoreType
  <2> QED
    BY <2>1, <2>2, Behind
<1> HIDE DEF rest, w
<1>10. CASE /\ Head(opens).kind # "restore" /\ ui' = u
            /\ opens' = Tail(opens) /\ closes' = Tail(closes) /\ UNCHANGED <<restore, batch>>
  <2>1. ~Restoring(opens)
    BY <1>3, <1>10 DEF Restoring
  <2>2. restore.done = <<>>
    BY <2>1 DEF Frame, Turns
  <2> QED
    BY <1>1, <1>2, <1>3, <1>4, <1>5, <1>6, <1>10, <2>2, FrameRests DEF Frame, Types
<1>11. CASE /\ Head(opens).kind = "restore" /\ Exiting
            /\ RestoreEnds(v, Kept) /\ closes' = Tail(closes)
            /\ batch' = [batch EXCEPT !.dirty = TRUE,
                                      !.gone = IF end = "warning" THEN @ \cup {n} ELSE @]
  <2>1. rest \o own \in Seq(Notes) /\ own \o rest \in Seq(Notes)
    BY <1>7, <1>9, <1>11, Joined
  <2>2. kept \in Seq(Notes)
    BY <2>1
  <2> HIDE DEF kept
  <2>3. v \in UIType
    BY <1>5, <2>2, FitsPreserved
  <2> HIDE DEF v
  <2>4. batch' \in BatchType \cup {None}
    <3> DEFINE g == IF end = "warning" THEN batch.gone \cup {n} ELSE batch.gone
    <3>1. batch \in BatchType
      BY <1>4, <1>11 DEF Exiting
    <3>2. g \in SUBSET Notes
      BY <1>2, <3>1 DEF BatchType
    <3>3. batch' = [batch EXCEPT !.dirty = TRUE, !.gone = g]
      BY <1>11
    <3> HIDE DEF g
    <3> QED
      BY <3>1, <3>2, <3>3 DEF BatchType
  <2> QED
    BY <1>1, <1>2, <1>3, <1>4, <1>11, <2>3, <2>4, FrameRestoreEnds
<1>12. CASE /\ Head(opens).kind = "restore" /\ Len(restore.done) > 1
            /\ GiveBack(Tail(closes), None, rest) /\ ui' = u /\ UNCHANGED batch
  <2>1. None \in Id
    BY DEF Id
  <2> QED
    BY <1>1, <1>2, <1>4, <1>6, <1>9, <1>12, <2>1, FrameGiveBack
<1>13. CASE Head(opens).kind = "restore" /\ RestoreEnds(w, Kept) /\ closes' = Tail(closes) /\ UNCHANGED batch
  BY <1>1, <1>2, <1>3, <1>4, <1>8, <1>13, FrameRestoreEnds
<1> QED
  BY <1>1, <1>10, <1>11, <1>12, <1>13

LEMMA FitsAfterClose ==
    ASSUME Frame, NEW n, NEW u \in UIType, NEW a \in AnchorType, NEW q, AfterClose(n, u, a, q)
    PROVE  ui' \in UIType /\ TasksFit(opens') /\ Same(opens', opens) /\ anchor' \in AnchorType
<1> DEFINE successor == Successor(a.order, a.id, Tabs(u))
           next == IF successor = None THEN Head(u.tabs) ELSE successor
<1>1. u.tabs \in Seq(Notes) /\ Tabs(u) \in SUBSET Notes /\ None \notin Notes /\ None \in Id
  BY LastType DEF Id
<1>2. u.tabs # <<>> => next \in Notes
  <2>1. successor \in Tabs(u) \cup {None}
    BY SuccessorLeft DEF AnchorType
  <2>2. u.tabs # <<>> => Head(u.tabs) \in Tabs(u)
    BY <1>1, Behind DEF Tabs
  <2> QED
    BY <1>1, <2>1, <2>2
<1>3. NoAnchor \in AnchorType
  <2> DEFINE f == <<>>
  <2>1. f \in Seq(Notes) /\ None \in Id
    BY <1>1
  <2> HIDE DEF f
  <2>2. [id |-> None, order |-> f] \in AnchorType
    BY <2>1 DEF AnchorType
  <2> QED
    BY <2>2 DEF NoAnchor, f
<1>4. TasksFit(opens) /\ Same(opens, opens)
  BY DEF Frame, Types, Same
<1>5. \/ ui' = u /\ anchor' \in {NoAnchor, a} /\ opens' = opens
      \/ ui' = [u EXCEPT !.selected = None] /\ anchor' = NoAnchor /\ opens' = opens
      \/ Has(u, u.selected) /\ ui' = Activate(u, u.selected) /\ anchor' = NoAnchor /\ opens' = opens
      \/ /\ u.tabs # <<>> /\ ui' = Show(u, next) /\ anchor' = NoAnchor /\ opens' = Publish(opens, next)
  BY DEF AfterClose
<1> HIDE DEF next
<1>6. Has(u, u.selected) => u.selected \in Notes
  BY <1>1 DEF Has
<1>7. [u EXCEPT !.selected = None] \in UIType
  BY <1>1 DEF UIType
<1>8. ui' \in UIType
  <2>1. Has(u, u.selected) => Activate(u, u.selected) \in UIType
    BY <1>6, FitsShown
  <2>2. u.tabs # <<>> => Show(u, next) \in UIType
    BY <1>2, FitsShown
  <2> QED
    BY <1>5, <1>7, <2>1, <2>2
<1>9. TasksFit(opens') /\ Same(opens', opens)
  <2>1. u.tabs # <<>> => TasksFit(Publish(opens, next)) /\ Same(Publish(opens, next), opens)
    BY <1>2, <1>4, PublishFacts
  <2> QED
    BY <1>4, <1>5, <2>1
<1> QED
  BY <1>3, <1>5, <1>8, <1>9

LEMMA FrameCloseTab == \A n \in Notes : Frame /\ CloseTab(n) => Frame'
<1> SUFFICES ASSUME Frame, NEW n \in Notes, CloseTab(n) PROVE Frame'
  OBVIOUS
<1> DEFINE from == IF ui.active = n THEN [id |-> n, order |-> ui.tabs] ELSE anchor
<1>1. /\ UNCHANGED <<exists, core, restore, batch, actions>>
      /\ \/ AfterClose(n, ui, from, closes) /\ UNCHANGED closes
         \/ /\ closes' = Append(closes, [kind |-> "tab", note |-> n])
            /\ opens' = Fence(opens) /\ anchor' = from /\ UNCHANGED ui
  BY DEF CloseTab
<1>2. ui \in UIType /\ ClosesFit(closes) /\ TasksFit(opens)
  BY DEF Frame, Types
<1>3. from \in AnchorType
  <2>1. ui.tabs \in Seq(Notes) /\ n \in Id
    BY <1>2, LastType DEF Id
  <2>2. [id |-> n, order |-> ui.tabs] \in AnchorType
    BY <2>1 DEF AnchorType
  <2> QED
    BY <2>2 DEF Frame, Types
<1> HIDE DEF from
<1>4. CASE AfterClose(n, ui, from, closes) /\ UNCHANGED closes
  <2>1. ui' \in UIType /\ TasksFit(opens') /\ Same(opens', opens) /\ anchor' \in AnchorType
    BY <1>2, <1>3, <1>4, FitsAfterClose
  <2> QED
    BY <1>1, <1>4, <2>1, FrameMoves DEF Frame, Types
<1>5. CASE /\ closes' = Append(closes, [kind |-> "tab", note |-> n])
           /\ opens' = Fence(opens) /\ anchor' = from /\ UNCHANGED ui
  <2>1. ClosesFit(closes') /\ Handing(closes') = Handing(closes)
    BY <1>2, <1>5, CloseQueued
  <2>2. TasksFit(opens') /\ Same(opens', opens)
    BY <1>2, <1>5, FenceFacts
  <2> QED
    BY <1>1, <1>3, <1>5, <2>1, <2>2, FrameMoves DEF Frame, Types
<1> QED
  BY <1>1, <1>4, <1>5

LEMMA FrameTabClosed == \A end : Frame /\ TabClosed(end) => Frame'
<1> SUFFICES ASSUME Frame, NEW end, TabClosed(end) PROVE Frame'
  OBVIOUS
<1> DEFINE n == Head(closes).note
           v == Retire(ui, {n}, FALSE)
<1>1. /\ closes # <<>> /\ Head(closes).kind = "tab" /\ closes' = Tail(closes)
      /\ UNCHANGED <<exists, restore, batch, actions>>
      /\ core' \subseteq core
      /\ AfterClose(n, ui, anchor, Tail(closes)) \/ AfterClose(n, v, anchor, Tail(closes))
  BY DEF TabClosed, CloseTurn, CoreAfter
<1>2. ClosesFit(closes') /\ Handing(closes') = Handing(closes) /\ n \in Notes
  BY <1>1, CloseEnded DEF Frame, Types, CloseType
<1> HIDE DEF n
<1>3. ui \in UIType /\ v \in UIType /\ anchor \in AnchorType
  <2>1. ui \in UIType /\ {n} \in SUBSET Notes
    BY <1>2 DEF Frame, Types
  <2> QED
    BY <2>1, FitsPreserved DEF Frame, Types
<1> HIDE DEF v
<1>4. ui' \in UIType /\ TasksFit(opens') /\ Same(opens', opens) /\ anchor' \in AnchorType
  BY <1>1, <1>3, FitsAfterClose
<1> QED
  BY <1>1, <1>2, <1>4, FrameMoves DEF Frame, Types

LEMMA FitsReshown ==
    ASSUME Frame, NEW u \in UIType, Reshows(u)
    PROVE  ui' \in UIType /\ TasksFit(opens') /\ Same(opens', opens)
<1>1. u.tabs # <<>> => Head(u.tabs) \in Notes
  BY LastType, Behind
<1>2. TasksFit(opens) /\ Same(opens, opens)
  BY DEF Frame, Types, Same
<1> DEFINE h == Head(u.tabs)
<1>3. u.tabs # <<>> => h \in Notes
  BY <1>1
<1>4. \/ ui' \in {u, [u EXCEPT !.selected = None]} /\ opens' = opens
      \/ u.tabs # <<>> /\ ui' = Activate(u, h) /\ opens' = opens
      \/ u.tabs # <<>> /\ ui' = Show(u, h) /\ opens' = Publish(opens, h)
  BY DEF Reshows
<1>5. [u EXCEPT !.selected = None] \in UIType
  BY LastType DEF UIType, Id
<1> HIDE DEF h
<1>6. u.tabs # <<>> => /\ Activate(u, h) \in UIType /\ Show(u, h) \in UIType
                       /\ TasksFit(Publish(opens, h)) /\ Same(Publish(opens, h), opens)
  BY <1>2, <1>3, FitsShown, PublishFacts
<1> QED
  BY <1>2, <1>4, <1>5, <1>6

LEMMA FrameCloseAllRefused == Frame /\ CloseAllRefused => Frame'
<1> SUFFICES ASSUME Frame, CloseAllRefused PROVE Frame'
  OBVIOUS
<1>1. Reshows(ui) /\ UNCHANGED <<exists, core, restore, closes, batch, actions, anchor>>
  BY DEF CloseAllRefused, AfterCloseAll, Reshows
<1>2. ui' \in UIType /\ TasksFit(opens') /\ Same(opens', opens)
  BY <1>1, FitsReshown DEF Frame, Types
<1> QED
  BY <1>1, <1>2, FrameMoves DEF Frame, Types

LEMMA FrameStartBatch ==
    \A kind \in {"all", "others", "exit"}, keep \in Notes \cup {None} :
        Frame /\ StartBatch(kind, keep) => Frame'
<1> SUFFICES ASSUME Frame, NEW kind \in {"all", "others", "exit"}, NEW keep \in Notes \cup {None},
                    StartBatch(kind, keep)
             PROVE  Frame'
  OBVIOUS
<1> DEFINE s == SavedIds(ui) \ {closes[i].note : i \in {j \in DOMAIN closes : closes[j].kind = "tab"}}
<1>1. /\ opens' = Fence(opens) /\ UNCHANGED <<exists, core, ui, restore, closes, actions, anchor>>
      /\ batch' = [kind |-> kind, keep |-> keep, dirty |-> FALSE, gone |-> {}, saved |-> s]
  BY DEF StartBatch
<1>2. s \in SUBSET Notes
  <2>1. ui.open \in SUBSET Notes /\ IdIn(ui.last) \in SUBSET Notes
    BY DEF Frame, Types, UIType, IdIn, Id
  <2> QED
    BY <2>1 DEF SavedIds
<1> HIDE DEF s
<1>3. batch' \in BatchType
  BY <1>1, <1>2 DEF BatchType, Id
<1>4. TasksFit(opens') /\ Same(opens', opens)
  BY <1>1, FenceFacts DEF Frame, Types
<1> QED
  BY <1>1, <1>3, <1>4, FrameMoves DEF Frame, Types

LEMMA FrameBatchOff == Frame /\ BatchOff => Frame'
<1> SUFFICES ASSUME Frame, BatchOff PROVE Frame'
  OBVIOUS
<1> DEFINE v == RemoveSaved(ui, batch.gone)
           order == ui.tabs
           was == ui.active
<1>1. /\ batch' = None /\ ui' \in {ui, Reselect(v, order, was)}
      /\ UNCHANGED <<exists, core, opens, restore, closes, actions, anchor>>
  BY DEF BatchOff
<1>2. v \in UIType
  BY FitsBasics DEF Frame, Types
<1> HIDE DEF v, order, was
<1>3. ui' \in UIType
  BY <1>1, <1>2, FitsReselected DEF Frame, Types
<1>4. TasksFit(opens') /\ Same(opens', opens)
  BY <1>1 DEF Frame, Types, Same
<1> QED
  BY <1>1, <1>3, <1>4, FrameMoves DEF Frame, Types

LEMMA FrameBatchClosed == \A saved : Frame /\ BatchClosed(saved) => Frame'
<1> SUFFICES ASSUME Frame, NEW saved, BatchClosed(saved) PROVE Frame'
  OBVIOUS
<1> DEFINE u == Retire(ui, Batched, Exiting)
           gone == Batched
<1>1. /\ (batch.kind = "others" => Has(ui, batch.keep))
      /\ core' = core \ Batched /\ batch' = None
      /\ UNCHANGED <<exists, restore, closes, actions, anchor>>
      /\ \/ Reshows(u)
         \/ /\ batch.kind = "others" /\ ui' = Show(u, batch.keep) /\ opens' = Publish(opens, batch.keep)
  BY DEF BatchClosed, BatchMayClose, BatchTurn, AfterBatch, AfterCloseAll, Reshows
<1>2. ui \in UIType /\ Tabs(ui) \in SUBSET Notes /\ ui.retained \in SUBSET Notes /\ TasksFit(opens)
  <2>1. ui \in UIType
    BY DEF Frame, Types
  <2> QED
    BY <2>1, LastType DEF Frame, Types
<1>3. gone \in SUBSET Notes
  BY <1>2 DEF Batched
<1> HIDE DEF gone
<1>4. u \in UIType
  <2>1. u \in {Retire(ui, gone, TRUE), Retire(ui, gone, FALSE)}
    BY DEF gone, Retire
  <2> HIDE DEF u
  <2> QED
    BY <1>2, <1>3, <2>1, FitsPreserved
<1> HIDE DEF u
<1>5. ui' \in UIType /\ TasksFit(opens') /\ Same(opens', opens)
  <2>1. CASE Reshows(u)
    BY <1>4, <2>1, FitsReshown
  <2>2. CASE batch.kind = "others" /\ ui' = Show(u, batch.keep) /\ opens' = Publish(opens, batch.keep)
    <3>1. batch.keep \in Notes
      BY <1>1, <1>2, <2>2 DEF Has
    <3> QED
      BY <1>2, <1>4, <2>2, <3>1, FitsShown, PublishFacts
  <2> QED
    BY <1>1, <2>1, <2>2
<1>6. core' \subseteq Notes
  BY <1>1 DEF Frame, Types
<1> QED
  BY <1>1, <1>5, <1>6, FrameMoves DEF Frame, Types

LEMMA FrameBatchCancelled ==
    \A bad \in Notes, before \in SUBSET Notes : \A end :
        Frame /\ BatchCancelled(bad, before, end) => Frame'
<1> SUFFICES ASSUME Frame, NEW bad \in Notes, NEW before \in SUBSET Notes, NEW end,
                    BatchCancelled(bad, before, end)
             PROVE  Frame'
  OBVIOUS
<1> DEFINE gone == before \cup (IF end = "warning" THEN {bad} ELSE {})
           u == Retire(ui, gone, FALSE)
           order == ui.tabs
           was == ui.active
           v == Reselect(u, order, was)
<1>1. /\ core' = CoreAfter(bad, end) \ before /\ batch' = None /\ Reshows(v)
      /\ UNCHANGED <<exists, restore, closes, actions, anchor>>
  BY DEF BatchCancelled, AfterBatch, AfterCloseAll, Reshows
<1>2. gone \in SUBSET Notes
  OBVIOUS
<1> HIDE DEF gone, order, was
<1>3. u \in UIType
  BY <1>2, FitsPreserved DEF Frame, Types
<1> HIDE DEF u
<1>4. v \in UIType
  BY <1>3, FitsReselected
<1> HIDE DEF v
<1>5. ui' \in UIType /\ TasksFit(opens') /\ Same(opens', opens)
  BY <1>1, <1>4, FitsReshown
<1>6. core' \subseteq Notes
  BY <1>1 DEF Frame, Types, CoreAfter
<1> QED
  BY <1>1, <1>5, <1>6, FrameMoves DEF Frame, Types

LEMMA FrameGates == Frame /\ (Rescan \/ Reload \/ Answered \/ Submit) => Frame'
<1> SUFFICES ASSUME Frame, Rescan \/ Reload \/ Answered \/ Submit PROVE Frame'
  OBVIOUS
<1>1. TasksFit(Fence(opens)) /\ Same(Fence(opens), opens) /\ Same(opens, opens)
  BY FenceFacts DEF Frame, Types, Same
<1>2. CASE Rescan \/ Reload \/ Answered
  <2>1. opens' \in {opens, Fence(opens)} /\ UNCHANGED <<exists, core, ui, restore, closes, batch, actions, anchor>>
    BY <1>2 DEF Rescan, Reload, Answered
  <2>2. TasksFit(opens') /\ Same(opens', opens)
    BY <1>1, <2>1 DEF Frame, Types
  <2> QED
    BY <2>1, <2>2, FrameMoves DEF Frame, Types
<1>3. CASE Submit
  <2>1. /\ opens' = Fence(opens) /\ UNCHANGED <<exists, core, ui, restore, closes, batch, anchor>>
        /\ actions' = Append(actions, [pc |-> "queued", old |-> None, new |-> None])
    BY <1>3 DEF Submit
  <2>2. ActionsFit(actions', exists)
    BY <2>1, ActionsGrow DEF Frame, Types
  <2> QED
    BY <1>1, <2>1, <2>2, FrameMoves DEF Frame, Types
<1> QED
  BY <1>2, <1>3

LEMMA FrameOpens ==
    ASSUME Frame, opens = <<>>, actions # <<>>, UNCHANGED <<restore, closes, batch, anchor>>,
           exists' \subseteq Notes, core' \subseteq Notes, NEW u \in UIType,
           NEW pc \in {"restored", "renamed", "created"}, NEW old \in Id, NEW new \in Notes, NEW from \in Id,
           pc = "renamed" => old \in Notes \ exists',
           Opening(u, pc, old, new, from)
    PROVE  Frame'
<1>1. ActionsFit(actions', exists')
  <2> DEFINE x == [pc |-> pc, old |-> old, new |-> new]
             fx == exists'
  <2>1. actions' = [actions EXCEPT ![1] = x] /\ ActionsFit(actions, exists)
    BY DEF Opening, Frame, Types
  <2>2. x \in ActionType /\ x.pc = pc /\ x.old = old /\ x.new = new
    BY DEF ActionType, Id
  <2>3. pc = "renamed" => old \in Notes \ fx
    OBVIOUS
  <2> HIDE DEF x, fx
  <2>4. ActionsFit([actions EXCEPT ![1] = x], fx)
    BY <2>1, <2>2, <2>3, ActionsTurn
  <2> QED
    BY <2>1, <2>4 DEF fx
<1> DEFINE t == Task("life", new, from)
<1>2. t \in TaskType /\ t.kind = "life" /\ t.note = new /\ t.pc = "queued"
  BY TaskFacts
<1>3. opens' = <<t>> /\ ui' = u
  BY DEF Opening
<1> HIDE DEF t
<1>4. TasksFit(opens')
  BY <1>2, <1>3, OneTask
<1>5. restore.todo = {} /\ restore.done = <<>> /\ Handing(closes) = {}
  BY FrameIdle DEF Restoring, Retiring
<1> QED
  BY <1>1, <1>3, <1>4, <1>5, FrameRests DEF Frame, Types

LEMMA FrameEnds ==
    ASSUME Frame, opens = <<>>, actions # <<>>, UNCHANGED <<restore, closes, batch, anchor>>,
           exists' \subseteq Notes, core' \subseteq Notes, NEW u \in UIType, Ends(u) \/ AfterSuccess(u)
    PROVE  Frame'
<1>1. CASE Ends(u)
  <2>1. ui' = u /\ actions' = Tail(actions) /\ opens' = opens
    BY <1>1 DEF Ends
  <2>2. ActionsFit(actions', exists')
    BY <2>1, ActionsEnd DEF Frame, Types
  <2>3. restore.todo = {} /\ restore.done = <<>> /\ Handing(closes) = {}
    BY FrameIdle DEF Restoring, Retiring
  <2> QED
    BY <2>1, <2>2, <2>3, FrameRests DEF Frame, Types
<1>2. CASE ~Ends(u)
  <2>1. u.selected # None /\ Opening(u, "restored", None, u.selected, None)
    BY <1>2 DEF AfterSuccess
  <2>2. u.selected \in Notes /\ None \in Id
    BY <2>1, LastType DEF Id
  <2> QED
    BY <2>1, <2>2, FrameOpens
<1> QED
  BY <1>1, <1>2

LEMMA FrameTurn ==
    ASSUME Frame, NEW op, Turn(op), BodyUnchanged
    PROVE  opens = <<>> /\ actions # <<>> /\ UNCHANGED <<restore, closes, batch, anchor>>
BY DEF Turn, BodyUnchanged

LEMMA FrameResumes ==
    ASSUME Frame, NEW pc, Resumes(pc), ResumeUnchanged
    PROVE  opens = <<>> /\ actions # <<>> /\ actions[1].pc = pc
           /\ UNCHANGED <<exists, restore, closes, batch, anchor>>
BY DEF Resumes, BodyPaused, ResumeUnchanged

LEMMA FrameBodies == Frame /\ (RequestFails \/ Other \/ ActionRestored) => Frame'
<1> SUFFICES ASSUME Frame, RequestFails \/ Other \/ ActionRestored PROVE Frame'
  OBVIOUS
<1>1. /\ opens = <<>> /\ actions # <<>> /\ UNCHANGED <<exists, core, restore, closes, batch, anchor>>
      /\ \/ Ends(ui) \/ AfterSuccess(ui)
         \/ ui.selected # None /\ Opening(ui, "restored", None, ui.selected, None)
  BY DEF RequestFails, AfterRequestFailed, Other, Turn, BodyUnchanged, ActionRestored, Resumes, BodyPaused,
         ResumeUnchanged
<1>2. ui \in UIType /\ exists' \subseteq Notes /\ core' \subseteq Notes /\ None \in Id
  BY <1>1 DEF Frame, Types, Id
<1>3. CASE Ends(ui) \/ AfterSuccess(ui)
  BY <1>1, <1>2, <1>3, FrameEnds
<1>4. CASE ui.selected # None /\ Opening(ui, "restored", None, ui.selected, None)
  <2>1. ui.selected \in Notes
    BY <1>2, <1>4, LastType DEF Id
  <2> QED
    BY <1>1, <1>2, <1>4, <2>1, FrameOpens
<1> QED
  BY <1>1, <1>3, <1>4

LEMMA FrameRequest == Frame /\ Request => Frame'
<1> SUFFICES ASSUME Frame, Request PROVE Frame'
  OBVIOUS
<1> DEFINE x == [pc |-> "asked", old |-> ui.active, new |-> ui.selected]
<1>1. /\ actions # <<>> /\ actions' = [actions EXCEPT ![1] = x]
      /\ UNCHANGED <<exists, core, ui, opens, restore, closes, batch, anchor>>
  BY DEF Request
<1>2. x \in ActionType /\ x.pc = "asked"
  BY DEF ActionType, Frame, Types, UIType
<1> HIDE DEF x
<1>3. ActionsFit([actions EXCEPT ![1] = x], exists)
  BY <1>1, <1>2, ActionsTurn DEF Frame, Types
<1>4. ActionsFit(actions', exists) /\ Same(opens', opens)
  BY <1>1, <1>3 DEF Same
<1> QED
  BY <1>1, <1>4, FrameMoves DEF Frame, Types

LEMMA FrameCreate == \A n \in Notes : Frame /\ Create(n) => Frame'
<1> SUFFICES ASSUME Frame, NEW n \in Notes, Create(n) PROVE Frame'
  OBVIOUS
<1>1. /\ opens = <<>> /\ actions # <<>> /\ exists' = exists \cup {n} /\ core' = core \cup {n}
      /\ \/ Opening(ui, "created", None, n, None)
         \/ /\ actions' = [actions EXCEPT ![1] = [pc |-> "unadopted", old |-> None, new |-> n]]
            /\ UNCHANGED <<ui, opens>>
      /\ UNCHANGED <<restore, closes, batch, anchor>>
  BY DEF Create, Turn, BodyUnchanged
<1>2. exists' \subseteq Notes /\ core' \subseteq Notes /\ ui \in UIType /\ None \in Id
  BY <1>1 DEF Frame, Types, Id
<1>3. CASE Opening(ui, "created", None, n, None)
  BY <1>1, <1>2, <1>3, FrameOpens
<1>4. CASE /\ actions' = [actions EXCEPT ![1] = [pc |-> "unadopted", old |-> None, new |-> n]]
           /\ UNCHANGED <<ui, opens>>
  <2> DEFINE x == [pc |-> "unadopted", old |-> None, new |-> n]
             fx == exists'
  <2>1. x \in ActionType /\ x.pc = "unadopted" /\ x.new = n
    BY <1>2 DEF ActionType, Id
  <2> HIDE DEF x, fx
  <2>2. ActionsFit([actions EXCEPT ![1] = x], fx)
    BY <1>1, <2>1, ActionsTurn DEF Frame, Types
  <2>3. ActionsFit(actions', exists')
    BY <1>4, <2>2 DEF x, fx
  <2>4. restore.todo = {} /\ restore.done = <<>> /\ Handing(closes) = {}
    BY <1>1, FrameIdle DEF Restoring, Retiring
  <2> QED
    BY <1>1, <1>2, <1>4, <2>3, <2>4, FrameRests DEF Frame, Types
<1> QED
  BY <1>1, <1>3, <1>4

LEMMA FrameDelete == \A n \in Notes : Frame /\ Delete(n) => Frame'
<1> SUFFICES ASSUME Frame, NEW n \in Notes, Delete(n) PROVE Frame'
  OBVIOUS
<1> DEFINE left == Tabs(ui) \ {n}
           order == ui.tabs
           next == IF ui.active = n THEN Successor(order, n, left) ELSE None
           v == Discard(ui, n)
           u == Unselect(v, n)
           w == Show(u, next)
<1>1. /\ opens = <<>> /\ actions # <<>> /\ exists' = exists \ {n} /\ core' = core \ {n}
      /\ Ends(ui) \/ AfterSuccess(u) \/ (next # None /\ AfterSuccess(w))
      /\ UNCHANGED <<restore, closes, batch, anchor>>
  BY DEF Delete, Turn, BodyUnchanged
<1>2. ui \in UIType /\ order \in Seq(Notes) /\ Tabs(ui) \in SUBSET Notes
  BY LastType DEF Frame, Types
<1>3. next # None => next \in Notes
  <2>0. left \in SUBSET Notes
    BY <1>2
  <2> HIDE DEF order, left
  <2> QED
    BY <1>2, <2>0, SuccessorLeft
<1> HIDE DEF next, order, left
<1>4. v \in UIType
  BY <1>2, FitsDiscarded
<1> HIDE DEF v
<1>5. u \in UIType
  BY <1>4, FitsDiscarded
<1> HIDE DEF u
<1>6. next # None => w \in UIType
  BY <1>3, <1>5, FitsShown
<1> HIDE DEF w
<1>7. exists' \subseteq Notes /\ core' \subseteq Notes
  BY <1>1 DEF Frame, Types
<1> QED
  BY <1>1, <1>2, <1>5, <1>6, <1>7, FrameEnds

LEMMA FrameRename ==
    \A old, new \in Notes, bad \in Notes \cup {None} : Frame /\ Rename(old, new, bad) => Frame'
<1> SUFFICES ASSUME Frame, NEW old \in Notes, NEW new \in Notes, NEW bad \in Notes \cup {None},
                    Rename(old, new, bad)
             PROVE  Frame'
  OBVIOUS
<1> DEFINE adopted == Adopt(ui, new, old)
           taken == [adopted EXCEPT !.selected = new]
           u == IF ui.active = old THEN taken ELSE ReplaceTab(ui, old, new)
           v == Unreadable(u, bad)
<1>1. /\ opens = <<>> /\ actions # <<>> /\ old \in exists /\ new \in Notes \ exists
      /\ exists' = Reidentified(exists, old, new) /\ core' = Reidentified(core, old, new)
      /\ UNCHANGED <<restore, closes, batch, anchor>>
      /\ Opening(ui, "renamed", old, new, old) \/ Ends(ui) \/ AfterSuccess(u) \/ Ends(v)
  BY DEF Rename, Turn, BodyUnchanged, Reidentify
<1>2. exists' \subseteq Notes /\ core' \subseteq Notes /\ old \in Notes \ exists' /\ old \in Id /\ ui \in UIType
  BY <1>1 DEF Frame, Types, Reidentified, Id
<1>3. adopted \in UIType /\ ReplaceTab(ui, old, new) \in UIType
  BY <1>2, FitsRetained
<1> HIDE DEF adopted
<1>4. u \in UIType
  BY <1>3, FitsShown
<1> HIDE DEF u
<1>5. v \in UIType
  BY <1>4, FitsDiscarded
<1> HIDE DEF v
<1>6. CASE Opening(ui, "renamed", old, new, old)
  BY <1>1, <1>2, <1>6, FrameOpens
<1>7. CASE Ends(ui) \/ AfterSuccess(u) \/ Ends(v)
  BY <1>1, <1>2, <1>4, <1>5, <1>7, FrameEnds
<1> QED
  BY <1>1, <1>6, <1>7

LEMMA FrameRedirect ==
    \A old, new \in Notes, unread \in BOOLEAN : \A end : Frame /\ Redirect(old, new, unread, end) => Frame'
<1> SUFFICES ASSUME Frame, NEW old \in Notes, NEW new \in Notes, NEW unread \in BOOLEAN, NEW end,
                    Redirect(old, new, unread, end)
             PROVE  Frame'
  OBVIOUS
<1> DEFINE anchored == old = (IF actions[1].old = None THEN actions[1].new ELSE actions[1].old)
           carried == Reidentified(core, old, new)
           kept == ui.active = old /\ Has(ui, old)
           retired == RetainActive(ui, old, new)
           revoked == IF retired.selected = old THEN [retired EXCEPT !.selected = new] ELSE retired
           adopted == Adopt(ui, new, old)
           replaced == ReplaceTab(ui, old, new)
           taken == IF anchored THEN [adopted EXCEPT !.selected = new] ELSE replaced
           lost == IF kept THEN revoked ELSE replaced
           a == RekeyRetained(taken, old, new)
           b == RekeyRetained(lost, old, new)
           c == RetainTab(ui, old, new)
           d == Discard(ui, old)
<1>1. /\ opens = <<>> /\ actions # <<>> /\ exists' = Reidentified(exists, old, new)
      /\ core' \subseteq carried \cup {new}
      /\ UNCHANGED <<restore, closes, batch, anchor>>
      /\ Ends(ui) \/ AfterSuccess(a) \/ Ends(b) \/ Ends(c) \/ Ends(d)
  <2>1. /\ opens = <<>> /\ actions # <<>> /\ exists' = Reidentified(exists, old, new)
        /\ UNCHANGED <<restore, closes, batch, anchor>>
    BY DEF Redirect, Turn, BodyUnchanged, Reidentify
  <2>2. core' \in {carried, carried \cup {new}, carried \ {new}}
    BY DEF Redirect
  <2>3. Ends(ui) \/ AfterSuccess(a) \/ Ends(b) \/ Ends(c) \/ Ends(d)
    BY DEF Redirect
  <2> HIDE DEF carried
  <2> QED
    BY <2>1, <2>2, <2>3
<1>2. exists' \subseteq Notes /\ core' \subseteq Notes /\ ui \in UIType
  BY <1>1 DEF Frame, Types, Reidentified
<1>3. retired \in UIType /\ adopted \in UIType /\ replaced \in UIType /\ c \in UIType
  BY <1>2, FitsRetained
<1>4. d \in UIType
  BY <1>2, FitsDiscarded
<1> HIDE DEF retired, adopted, replaced, c, d, anchored, kept, carried
<1>5. taken \in UIType /\ revoked \in UIType
  BY <1>3, FitsShown
<1> HIDE DEF taken, revoked
<1>6. a \in UIType /\ lost \in UIType
  BY <1>3, <1>5, FitsRetained
<1> HIDE DEF a, lost
<1>7. b \in UIType
  BY <1>6, FitsRetained
<1> HIDE DEF b
<1> QED
  BY <1>1, <1>2, <1>3, <1>4, <1>6, <1>7, FrameEnds

LEMMA FrameActionRenamed == \A bad \in Notes \cup {None} : Frame /\ ActionRenamed(bad) => Frame'
<1> SUFFICES ASSUME Frame, NEW bad \in Notes \cup {None}, ActionRenamed(bad) PROVE Frame'
  OBVIOUS
<1> DEFINE old == actions[1].old
           new == actions[1].new
           r == [ui EXCEPT !.selected = new]
           u == ReplaceTab(r, old, new)
           v == Unreadable(u, bad)
<1>1. Resumes("renamed") /\ ResumeUnchanged /\ core' = core /\ (Ends(ui) \/ Ends(v))
  BY DEF ActionRenamed
<1>2. /\ opens = <<>> /\ actions # <<>> /\ actions[1].pc = "renamed"
      /\ UNCHANGED <<exists, restore, closes, batch, anchor>>
  BY <1>1, FrameResumes
<1>3. old \in Notes /\ new \in Notes
  <2>1. 1 \in DOMAIN actions /\ ActionsFit(actions, exists)
    BY <1>2 DEF Frame, Types, ActionsFit
  <2> QED
    BY <1>2, <2>1 DEF ActionsFit
<1>4. ui \in UIType /\ exists' \subseteq Notes /\ core' \subseteq Notes
  BY <1>1, <1>2 DEF Frame, Types
<1> HIDE DEF old, new
<1>5. r \in UIType
  BY <1>3, <1>4, FitsShown
<1> HIDE DEF r
<1>6. u \in UIType
  BY <1>3, <1>5, FitsRetained
<1> HIDE DEF u
<1>7. v \in UIType
  BY <1>6, FitsDiscarded
<1> HIDE DEF v
<1> QED
  BY <1>1, <1>2, <1>4, <1>7, FrameEnds

LEMMA FrameActionCreated == \A end : Frame /\ ActionCreated(end) => Frame'
<1> SUFFICES ASSUME Frame, NEW end, ActionCreated(end) PROVE Frame'
  OBVIOUS
<1> DEFINE n == actions[1].new
           was == ui.selected
           to == [ui EXCEPT !.selected = n]
           back == [ui EXCEPT !.selected = ui.active]
           mounted == IF ui.active = was THEN ui
                      ELSE IF Has(ui, was) THEN Activate(ui, was)
                      ELSE IF ui.active # None THEN back
                      ELSE Show(ui, n)
           u == Discard(ui, n)
           s == u.selected
           retired == IF Has(u, s) THEN Activate(u, s) ELSE [u EXCEPT !.selected = u.active]
<1>1. /\ Resumes("created") \/ Resumes("unadopted")
      /\ ResumeUnchanged /\ core' \subseteq core
      /\ Ends(to) \/ Ends(mounted) \/ Ends(ui) \/ Ends(retired)
  <2>1. (Resumes("created") \/ Resumes("unadopted")) /\ ResumeUnchanged
    BY DEF ActionCreated
  <2>2. core' \subseteq core
    BY DEF ActionCreated, CoreAfter
  <2>3. Ends(to) \/ Ends(mounted) \/ Ends(ui) \/ Ends(retired)
    BY DEF ActionCreated
  <2> QED
    BY <2>1, <2>2, <2>3
<1>2. /\ opens = <<>> /\ actions # <<>> /\ actions[1].pc \in {"created", "unadopted"}
      /\ UNCHANGED <<exists, restore, closes, batch, anchor>>
  BY <1>1, FrameResumes
<1>3. n \in Notes
  <2>1. 1 \in DOMAIN actions /\ ActionsFit(actions, exists)
    BY <1>2 DEF Frame, Types, ActionsFit
  <2> QED
    BY <1>2, <2>1 DEF ActionsFit
<1>4. ui \in UIType /\ exists' \subseteq Notes /\ core' \subseteq Notes
  BY <1>1, <1>2 DEF Frame, Types
<1> HIDE DEF n
<1>5. to \in UIType /\ back \in UIType
  BY <1>3, <1>4, FitsShown
<1>6. \A x \in UIType : Has(x, x.selected) => x.selected \in Notes
  BY LastType DEF Has
<1>7. mounted \in UIType
  <2>1. Has(ui, was) => was \in Notes
    BY <1>4, <1>6
  <2> HIDE DEF was, back
  <2>2. Has(ui, was) => Activate(ui, was) \in UIType
    BY <1>4, <2>1, FitsShown
  <2>3. Show(ui, n) \in UIType
    BY <1>3, <1>4, FitsShown
  <2> QED
    BY <1>4, <1>5, <2>2, <2>3
<1>8. u \in UIType
  BY <1>3, <1>4, FitsDiscarded
<1> HIDE DEF u
<1>9. retired \in UIType
  <2>1. Has(u, s) => s \in Notes
    BY <1>6, <1>8
  <2> HIDE DEF s
  <2>2. Has(u, s) => Activate(u, s) \in UIType
    BY <1>8, <2>1, FitsShown
  <2> QED
    BY <1>3, <1>8, <2>2, FitsShown
<1> HIDE DEF to, mounted, retired
<1> QED
  BY <1>1, <1>2, <1>4, <1>5, <1>7, <1>9, FrameEnds

LEMMA FrameStep == Frame /\ [Next]_vars => Frame'
<1> SUFFICES ASSUME Frame, [Next]_vars PROVE Frame'
  OBVIOUS
<1>1. CASE User
  BY <1>1, FrameSelect, FrameCloseTab, FrameStartBatch, FrameCloseAllRefused, FrameGates DEF User
<1>2. CASE Program
  <2>1. CASE OpenStart \/ OpenAnswered \/ OpenFailed \/ BatchOff \/ Answered \/ Request \/ RequestFails \/ Other \/ ActionRestored
    BY <2>1, FrameOpenStart, FrameOpenAnswered, FrameOpenFailed, FrameBatchOff, FrameGates, FrameBodies, FrameRequest
  <2>2. ASSUME NEW n \in Notes, RestoreAnswered(n) \/ RestoreFailed(n) \/ Create(n) \/ Delete(n) PROVE Frame'
    BY <2>2, FrameRestoreAnswered, FrameRestoreFailed, FrameCreate, FrameDelete
  <2>3. ASSUME NEW saved \in BOOLEAN, BatchClosed(saved) PROVE Frame'
    BY <2>3, FrameBatchClosed
  <2>4. ASSUME NEW bad \in Notes \cup {None}, ActionRenamed(bad) PROVE Frame'
    BY <2>4, FrameActionRenamed
  <2>5. ASSUME NEW end \in Ending, RetireAnswered(end) \/ TabClosed(end) \/ ActionCreated(end) PROVE Frame'
    BY <2>5, FrameRetireAnswered, FrameTabClosed, FrameActionCreated
  <2>6. ASSUME NEW end \in Ending, NEW bad \in Notes, NEW before \in SUBSET Notes,
               BatchCancelled(bad, before, end)
        PROVE  Frame'
    BY <2>6, FrameBatchCancelled
  <2>7. ASSUME NEW end \in Ending, NEW old \in Notes, NEW new \in Notes, NEW unread \in BOOLEAN,
               Redirect(old, new, unread, end)
        PROVE  Frame'
    BY <2>7, FrameRedirect
  <2>8. ASSUME NEW old \in Notes, NEW new \in Notes, NEW bad \in Notes \cup {None}, Rename(old, new, bad)
        PROVE  Frame'
    BY <2>8, FrameRename
  <2> QED
    BY <1>2, <2>1, <2>2, <2>3, <2>4, <2>5, <2>6, <2>7, <2>8 DEF Program
<1>3. CASE UNCHANGED vars
  <2>1. UNCHANGED <<exists, core, ui, opens, restore, closes, batch, actions, anchor>>
    BY <1>3 DEF vars
  <2>2. Same(opens', opens)
    BY <2>1 DEF Same
  <2> QED
    BY <2>1, <2>2, FrameMoves DEF Frame, Types
<1> QED
  BY <1>1, <1>2, <1>3 DEF Next

(* The queues keep their types and take turns, whatever situation comes up:  *)
(* a restoration ends before the next open starts, and only one late session *)
(* is closed at a time, for the open that made it.                           *)
THEOREM TabsFrame == Spec => []Frame
BY FrameInit, FrameStep, PTL DEF Spec

(* TypeOK, without any assumption.                                           *)
THEOREM TabsTyped == Spec => []TypeOK
<1>1. Frame => TypeOK
  <2> SUFFICES ASSUME Frame PROVE TypeOK
    OBVIOUS
  <2>1. ui \in UIType /\ exists \subseteq Notes /\ core \subseteq Notes
    BY DEF Frame, Types
  <2>2. Tabs(ui) \in SUBSET Notes
    BY <2>1, LastType
  <2>3. /\ ui.retained \in SUBSET Notes /\ ui.open \in SUBSET Notes /\ ui.active \in Id
        /\ ui.selected \in Id /\ ui.last \in Id
    BY <2>1 DEF UIType
  <2> QED
    BY <2>1, <2>2, <2>3 DEF TypeOK, Shown, SavedIds, IdIn, Id
<1> QED
  BY <1>1, TabsFrame, PTL

-----------------------------------------------------------------------------
(* A batch of closes and the body of an operation keep each other out.       *)

(* No open of a body waits.                                                  *)
LifeFree(q) == \A i \in DOMAIN q : q[i].kind # "life"

LEMMA LifeMoves ==
    ASSUME NEW q, TasksFit(q), LifeFree(q)
    PROVE  /\ LifeFree(Fence(q))
           /\ \A n : LifeFree(Publish(q, n))
           /\ q # <<>> => /\ LifeFree(Tail(q)) /\ Head(q).kind # "life"
                          /\ \A n : LifeFree(Publish(Tail(q), n))
                          /\ LifeFree([q EXCEPT ![1].pc = "retire"])
                          /\ LifeFree(<<[Head(q) EXCEPT !.pc = "core", !.fenced = FALSE]>>)
<1>1. q \in Seq(TaskType) /\ DOMAIN q = 1..Len(q) /\ Len(q) \in Nat
  BY DEF TasksFit
<1>2. ASSUME NEW r \in Seq(TaskType), LifeFree(r), NEW n PROVE LifeFree(Publish(r, n))
  <2> DEFINE t == Task("user", n, None)
  <2>1. t.kind = "user"
    BY DEF Task
  <2> HIDE DEF t
  <2>2. /\ DOMAIN Append(r, t) = 1..(Len(r) + 1) /\ Append(r, t)[Len(r) + 1] = t
        /\ \A i \in 1..Len(r) : Append(r, t)[i] = r[i]
        /\ DOMAIN r = 1..Len(r) /\ Len(r) \in Nat
    OBVIOUS
  <2>3. ASSUME NEW i \in 1..(Len(r) + 1) PROVE Append(r, t)[i].kind # "life"
    <3>1. i = Len(r) + 1 \/ i \in 1..Len(r)
      BY <2>2
    <3> QED
      BY <1>2, <2>1, <2>2, <3>1 DEF LifeFree
  <2> QED
    BY <2>2, <2>3 DEF LifeFree, Publish, t
<1>3. LifeFree(Fence(q))
  BY <1>1 DEF LifeFree, Fence, TaskType
<1>4. SUFFICES ASSUME q # <<>>
               PROVE  /\ LifeFree(Tail(q)) /\ Head(q).kind # "life"
                      /\ \A n : LifeFree(Publish(Tail(q), n))
                      /\ LifeFree([q EXCEPT ![1].pc = "retire"])
                      /\ LifeFree(<<[Head(q) EXCEPT !.pc = "core", !.fenced = FALSE]>>)
  BY <1>1, <1>2, <1>3
<1>5. /\ Tail(q) \in Seq(TaskType) /\ Head(q) \in TaskType /\ Head(q) = q[1] /\ 1 \in DOMAIN q
      /\ \A i \in DOMAIN Tail(q) : i + 1 \in DOMAIN q /\ Tail(q)[i] = q[i + 1]
  BY <1>1, <1>4, Behind
<1>6. LifeFree(Tail(q)) /\ Head(q).kind # "life"
  BY <1>5 DEF LifeFree
<1>7. LifeFree([q EXCEPT ![1].pc = "retire"])
  BY <1>1, <1>5 DEF LifeFree, TaskType
<1>8. LifeFree(<<[Head(q) EXCEPT !.pc = "core", !.fenced = FALSE]>>)
  <2> DEFINE t == [Head(q) EXCEPT !.pc = "core", !.fenced = FALSE]
  <2>1. t.kind # "life"
    BY <1>5, <1>6 DEF TaskType
  <2> HIDE DEF t
  <2> DEFINE r == <<t>>
  <2>2. DOMAIN r = {1} /\ r[1] = t
    OBVIOUS
  <2> HIDE DEF r
  <2>3. \A i \in DOMAIN r : r[i].kind # "life"
    BY <2>1, <2>2
  <2> QED
    BY <2>3 DEF LifeFree, r, t
<1> QED
  BY <1>2, <1>5, <1>6, <1>7, <1>8

(* A batch and the body of an action keep each other out, and only a body    *)
(* has opens of its own.                                                     *)
Barred ==
    /\ batch # None => actions = <<>>
    /\ actions = <<>> => LifeFree(opens)

LEMMA BarredEnds ==
    ASSUME NEW u, Ends(u) \/ AfterSuccess(u), opens = <<>>, actions # <<>>
    PROVE  actions' = <<>> => LifeFree(opens')
<1>1. CASE Ends(u)
  BY <1>1 DEF Ends, LifeFree
<1>2. CASE ~Ends(u)
  <2>1. actions' = [actions EXCEPT ![1] = [pc |-> "restored", old |-> None, new |-> u.selected]]
    BY <1>2 DEF AfterSuccess, Opening
  <2> QED
    BY <2>1
<1> QED
  BY <1>1, <1>2

LEMMA BarredStep == Frame /\ Barred /\ [Next]_vars => Barred'
<1> SUFFICES ASSUME Frame, Barred, [Next]_vars PROVE Barred'
  OBVIOUS
<1>1. TasksFit(opens) /\ actions \in Seq(ActionType)
  BY DEF Frame, Types, ActionsFit
<1>2. ASSUME UNCHANGED actions, batch' = None \/ batch # None, actions = <<>> => LifeFree(opens') PROVE Barred'
  BY <1>2 DEF Barred
<1>3. ASSUME UNCHANGED actions, batch' = None \/ batch # None, NEW n,
             \/ opens' \in {opens, Fence(opens), Publish(opens, n)}
             \/ opens # <<>> /\ opens' \in {Tail(opens), Publish(Tail(opens), n), [opens EXCEPT ![1].pc = "retire"],
                                            <<[Head(opens) EXCEPT !.pc = "core", !.fenced = FALSE]>>}
      PROVE  Barred'
  <2>1. actions = <<>> => LifeFree(opens')
    BY <1>1, <1>3, LifeMoves, Zenon DEF Barred
  <2> QED
    BY <1>2, <1>3, <2>1
<1>4. ASSUME NEW n, NEW u, NEW a, NEW q, AfterClose(n, u, a, q)
      PROVE  \E m : opens' \in {opens, Publish(opens, m)}
  BY <1>4 DEF AfterClose
<1>5. ASSUME NEW u, NEW retry, RestoreEnds(u, retry)
      PROVE  \E m : opens' \in {Tail(opens), Publish(Tail(opens), m)}
  BY <1>5 DEF RestoreEnds
<1>6. ASSUME NEW u, Reshows(u) PROVE \E m : opens' \in {opens, Publish(opens, m)}
  BY <1>6 DEF Reshows
<1>7. ASSUME NEW n \in Notes, Select(n) PROVE Barred'
  <2>1. UNCHANGED <<actions, batch>> /\ opens' = Publish(opens, n)
    BY <1>7 DEF Select
  <2> QED
    BY <1>3, <2>1 DEF Barred
<1>8. CASE OpenStart \/ OpenAnswered \/ OpenFailed
  <2>1. UNCHANGED <<actions, batch>> /\ opens # <<>>
        /\ opens' \in {Tail(opens), [opens EXCEPT ![1].pc = "retire"],
                       <<[Head(opens) EXCEPT !.pc = "core", !.fenced = FALSE]>>}
    BY <1>8 DEF OpenStart, OpenAnswered, OpenFailed, Ready, Answering
  <2> QED
    BY <1>3, <2>1 DEF Barred
<1>9. ASSUME NEW n \in Notes, RestoreAnswered(n) \/ RestoreFailed(n) PROVE Barred'
  <2>1. UNCHANGED <<actions, batch>> /\ opens # <<>>
    BY <1>9 DEF RestoreAnswered, RestoreFailed, Answering
  <2>2. \/ opens' \in {opens, [opens EXCEPT ![1].pc = "retire"]}
        \/ \E u, retry : RestoreEnds(u, retry)
    BY <1>9 DEF RestoreAnswered, RestoreFailed, GiveBack
  <2>3. \/ opens' \in {opens, [opens EXCEPT ![1].pc = "retire"]}
        \/ \E m : opens' \in {Tail(opens), Publish(Tail(opens), m)}
    BY <1>5, <2>2
  <2> QED
    BY <1>3, <2>1, <2>3 DEF Barred
<1>10. ASSUME NEW end, RetireAnswered(end) PROVE Barred'
  <2>1. UNCHANGED actions /\ (UNCHANGED batch \/ batch # None)
    BY <1>10 DEF RetireAnswered, Exiting
  <2>2. closes # <<>> /\ Head(closes).kind = "retire"
    BY <1>10 DEF RetireAnswered, CloseTurn
  <2>3. Retiring(opens)
    BY <2>2, CloseEnded DEF Frame, Types, Turns
  <2>4. opens # <<>>
    BY <2>3 DEF Retiring
  <2>5. \/ opens' = Tail(opens) \/ opens' = [opens EXCEPT ![1].pc = "retire"]
        \/ \E u, retry : RestoreEnds(u, retry)
    BY <1>10 DEF RetireAnswered, GiveBack
  <2>6. \/ opens' = [opens EXCEPT ![1].pc = "retire"]
        \/ \E m : opens' \in {Tail(opens), Publish(Tail(opens), m)}
    BY <1>5, <2>5
  <2>7. batch' = None \/ batch # None
    BY <2>1
  <2> QED
    BY <1>3, <2>1, <2>4, <2>6, <2>7
<1>11. ASSUME NEW n \in Notes, CloseTab(n) PROVE Barred'
  <2>1. UNCHANGED <<actions, batch>> /\ (opens' = Fence(opens) \/ \E u, a, q : AfterClose(n, u, a, q))
    BY <1>11 DEF CloseTab
  <2>2. \E m : opens' \in {opens, Fence(opens), Publish(opens, m)}
    BY <1>4, <2>1
  <2> QED
    BY <1>3, <2>1, <2>2 DEF Barred
<1>12. ASSUME NEW end, TabClosed(end) PROVE Barred'
  <2>1. UNCHANGED <<actions, batch>> /\ \E n, u, a, q : AfterClose(n, u, a, q)
    BY <1>12 DEF TabClosed
  <2>2. \E m : opens' \in {opens, Fence(opens), Publish(opens, m)}
    BY <1>4, <2>1
  <2> QED
    BY <1>3, <2>1, <2>2 DEF Barred
<1>13. ASSUME NEW kind, NEW keep, StartBatch(kind, keep) PROVE Barred'
  <2>1. actions = <<>> /\ UNCHANGED actions /\ opens' = Fence(opens)
    BY <1>13 DEF StartBatch, CloseRefused, Working
  <2> QED
    BY <1>1, <2>1, LifeMoves, Zenon DEF Barred
<1>14. CASE CloseAllRefused
  <2>1. UNCHANGED <<actions, batch>> /\ Reshows(ui)
    BY <1>14 DEF CloseAllRefused, AfterCloseAll, Reshows
  <2> QED
    BY <1>3, <1>6, <2>1 DEF Barred
<1>15. ASSUME NEW saved, BatchClosed(saved) PROVE Barred'
  <2>1. UNCHANGED actions /\ batch' = None
    BY <1>15 DEF BatchClosed
  <2>2. \E m : opens' \in {opens, Publish(opens, m)}
    BY <1>15 DEF BatchClosed, AfterBatch, AfterCloseAll
  <2> QED
    BY <1>3, <2>1, <2>2
<1>16. ASSUME NEW bad, NEW before, NEW end, BatchCancelled(bad, before, end) PROVE Barred'
  <2>1. UNCHANGED actions /\ batch' = None
    BY <1>16 DEF BatchCancelled
  <2>2. \E m : opens' \in {opens, Publish(opens, m)}
    BY <1>16 DEF BatchCancelled, AfterBatch, AfterCloseAll
  <2> QED
    BY <1>3, <2>1, <2>2
<1>17. CASE BatchOff \/ Rescan \/ Reload \/ Answered \/ UNCHANGED vars
  <2>1. UNCHANGED actions /\ (batch' = None \/ UNCHANGED batch) /\ opens' \in {opens, Fence(opens)}
    BY <1>17 DEF BatchOff, Rescan, Reload, Answered, vars
  <2> QED
    BY <1>3, <2>1 DEF Barred
<1>18. CASE Submit
  <2>1. batch' = None /\ actions' = Append(actions, [pc |-> "queued", old |-> None, new |-> None])
    BY <1>18 DEF Submit
  <2>2. actions' # <<>>
    BY <1>1, <2>1
  <2> QED
    BY <2>1, <2>2 DEF Barred
<1>19. ASSUME opens = <<>>, actions # <<>>, UNCHANGED batch,
              \/ \E u : Ends(u) \/ AfterSuccess(u)
              \/ \E u, pc, old, new, from : Opening(u, pc, old, new, from)
              \/ \E x : actions' = [actions EXCEPT ![1] = x]
       PROVE  Barred'
  <2>1. batch' = None
    BY <1>19 DEF Barred
  <2>2. actions' = <<>> => LifeFree(opens')
    <3>1. CASE \E u : Ends(u) \/ AfterSuccess(u)
      BY <1>19, <3>1, BarredEnds
    <3>2. CASE \E x : actions' = [actions EXCEPT ![1] = x]
      BY <1>19, <3>2
    <3>3. CASE \E u, pc, old, new, from : Opening(u, pc, old, new, from)
      BY <3>2, <3>3 DEF Opening
    <3> QED
      BY <1>19, <3>1, <3>2, <3>3
  <2> QED
    BY <2>1, <2>2 DEF Barred
<1>26. CASE Request
  <2>1. opens = <<>> /\ actions # <<>> /\ UNCHANGED batch /\ \E x : actions' = [actions EXCEPT ![1] = x]
    BY <1>26 DEF Request
  <2> QED
    BY <1>19, <2>1
<1>20. CASE RequestFails \/ Other \/ ActionRestored
  <2>1. opens = <<>> /\ actions # <<>> /\ UNCHANGED batch
    BY <1>20 DEF RequestFails, Other, Turn, BodyUnchanged, ActionRestored, Resumes, BodyPaused, ResumeUnchanged
  <2>2. Ends(ui) \/ AfterSuccess(ui) \/ Opening(ui, "restored", None, ui.selected, None)
    BY <1>20 DEF RequestFails, AfterRequestFailed, Other, ActionRestored
  <2> QED
    BY <1>19, <2>1, <2>2
<1>21. ASSUME NEW n \in Notes, Create(n) \/ Delete(n) PROVE Barred'
  <2>1. opens = <<>> /\ actions # <<>> /\ UNCHANGED batch
    BY <1>21 DEF Create, Delete, Turn, BodyUnchanged
  <2>2. \/ Opening(ui, "created", None, n, None) \/ \E x : actions' = [actions EXCEPT ![1] = x]
        \/ \E u : Ends(u) \/ AfterSuccess(u)
    BY <1>21 DEF Create, Delete
  <2> QED
    BY <1>19, <2>1, <2>2
<1>22. ASSUME NEW old \in Notes, NEW new \in Notes, NEW bad, Rename(old, new, bad) PROVE Barred'
  <2>1. opens = <<>> /\ actions # <<>> /\ UNCHANGED batch
    BY <1>22 DEF Rename, Turn, BodyUnchanged
  <2>2. Opening(ui, "renamed", old, new, old) \/ \E u : Ends(u) \/ AfterSuccess(u)
    BY <1>22 DEF Rename
  <2> QED
    BY <1>19, <2>1, <2>2
<1>23. ASSUME NEW old \in Notes, NEW new \in Notes, NEW unread, NEW end, Redirect(old, new, unread, end) PROVE Barred'
  <2>1. opens = <<>> /\ actions # <<>> /\ UNCHANGED batch
    BY <1>23 DEF Redirect, Turn, BodyUnchanged
  <2>2. \E u : Ends(u) \/ AfterSuccess(u)
    BY <1>23 DEF Redirect
  <2> QED
    BY <1>19, <2>1, <2>2
<1>24. ASSUME NEW bad, ActionRenamed(bad) PROVE Barred'
  <2>1. opens = <<>> /\ actions # <<>> /\ UNCHANGED batch
    BY <1>24 DEF ActionRenamed, Resumes, BodyPaused, ResumeUnchanged
  <2>2. \E u : Ends(u)
    BY <1>24 DEF ActionRenamed
  <2> QED
    BY <1>19, <2>1, <2>2
<1>25. ASSUME NEW end, ActionCreated(end) PROVE Barred'
  <2>1. opens = <<>> /\ actions # <<>> /\ UNCHANGED batch
    BY <1>25 DEF ActionCreated, Resumes, BodyPaused, ResumeUnchanged
  <2>2. \E u : Ends(u)
    BY <1>25 DEF ActionCreated
  <2> QED
    BY <1>19, <2>1, <2>2
<1> QED
  BY <1>7, <1>8, <1>9, <1>10, <1>11, <1>12, <1>13, <1>14, <1>15, <1>16, <1>17, <1>18, <1>20, <1>21, <1>22,
     <1>23, <1>24, <1>25, <1>26 DEF Next, User, Program

-----------------------------------------------------------------------------
(* What the snapshot of the tabs keeps for the next start while an exit is   *)
(* underway.                                                                 *)

(* What an exit was promised: nothing is kept open, the snapshot still names *)
(* what it named, and the closes before its own are of other Notes.          *)
Leased ==
    Exiting =>
        /\ batch.keep = None
        /\ batch.saved \cap exists \subseteq SavedIds(ui)
        /\ \A i \in DOMAIN closes : closes[i].kind = "tab" => closes[i].note \notin batch.saved

Tabbed(q, r) == \A i \in DOMAIN q : q[i].kind = "tab" => \E j \in DOMAIN r : r[j] = q[i]

LEMMA TabbedMoves ==
    ASSUME NEW q, ClosesFit(q), q # <<>>
    PROVE  /\ Tabbed(Tail(q), q)
           /\ \A n \in Notes : Tabbed(Append(Tail(q), [kind |-> "retire", note |-> n]), q)
<1>1. q \in Seq(CloseType)
  BY DEF ClosesFit
<1>2. Tail(q) \in Seq(CloseType) /\ \A i \in DOMAIN Tail(q) : i + 1 \in DOMAIN q /\ Tail(q)[i] = q[i + 1]
  BY <1>1, Behind
<1>3. Tabbed(Tail(q), q)
  BY <1>2 DEF Tabbed
<1>4. ASSUME NEW n \in Notes PROVE Tabbed(Append(Tail(q), [kind |-> "retire", note |-> n]), q)
  <2> DEFINE x == [kind |-> "retire", note |-> n]
             s == Tail(q)
  <2>1. x \in CloseType /\ x.kind = "retire"
    BY DEF CloseType
  <2>2. s \in Seq(CloseType)
    BY <1>2
  <2> HIDE DEF x
  <2>3. \A i \in DOMAIN Append(s, x) : (i \in DOMAIN s /\ Append(s, x)[i] = s[i]) \/ Append(s, x)[i] = x
    <3> HIDE DEF s
    <3> QED
      BY <2>1, <2>2, Appended
  <2>4. Tabbed(Append(s, x), q)
    BY <1>3, <2>1, <2>3 DEF Tabbed
  <2> QED
    BY <2>4 DEF x
<1> QED
  BY <1>3, <1>4

LEMMA TabbedGrows ==
    ASSUME NEW q, ClosesFit(q), NEW n \in Notes
    PROVE  Tabbed(q, q) /\ Tabbed(Append(q, [kind |-> "retire", note |-> n]), q)
<1> DEFINE x == [kind |-> "retire", note |-> n]
<1>1. q \in Seq(CloseType) /\ x \in CloseType /\ x.kind = "retire"
  BY DEF ClosesFit, CloseType
<1> HIDE DEF x
<1>2. \A i \in DOMAIN Append(q, x) : (i \in DOMAIN q /\ Append(q, x)[i] = q[i]) \/ Append(q, x)[i] = x
  BY <1>1, Appended
<1>3. Tabbed(q, q) /\ Tabbed(Append(q, x), q)
  BY <1>1, <1>2 DEF Tabbed
<1> QED
  BY <1>3 DEF x

(* What the snapshot of `u` names, that of `v` names, `gone` apart.          *)
Keeps(u, v, gone) == SavedIds(u) \ gone \subseteq SavedIds(v)

LEMMA KeepsShown ==
    ASSUME NEW u \in UIType
    PROVE  /\ Keeps(u, u, {}) /\ Keeps(u, [u EXCEPT !.selected = None], {})
           /\ \A n \in Notes : Keeps(u, Activate(u, n), {}) /\ Keeps(u, Show(u, n), {})
<1>1. Keeps(u, u, {}) /\ Keeps(u, [u EXCEPT !.selected = None], {})
  BY DEF Keeps, SavedIds, UIType
<1>2. ASSUME NEW n \in Notes PROVE Keeps(u, Activate(u, n), {}) /\ Keeps(u, Show(u, n), {})
  <2> DEFINE v == [u EXCEPT !.active = n]
             o == v.open \cup ({v.last} \ {None, n}) \cup (IF v.last = n THEN {} ELSE {n})
             w == [v EXCEPT !.last = n, !.open = o]
  <2>1. v \in UIType /\ v.open = u.open /\ v.last = u.last
    BY DEF UIType, Id
  <2> HIDE DEF v
  <2>2. o \in SUBSET Notes
    BY <2>1 DEF UIType, Id
  <2> DEFINE p == o
  <2> HIDE DEF p
  <2>3. Activate(u, n) = [v EXCEPT !.last = n, !.open = p]
    BY DEF Activate, RecordActive, v, p
  <2> DEFINE x == [v EXCEPT !.last = n, !.open = p]
             y == [x EXCEPT !.selected = n]
  <2>4. x.open = p /\ x.last = n /\ x \in UIType
    BY <2>1, <2>2 DEF UIType, Id, p
  <2> HIDE DEF x
  <2>5. y.open = p /\ y.last = n
    BY <2>4 DEF UIType
  <2>6. SavedIds(u) \subseteq p \cup IdIn(n)
    BY <2>1 DEF SavedIds, IdIn, p
  <2>7. Show(u, n) = y
    BY <2>3 DEF Show, x
  <2>8. Keeps(u, x, {}) /\ Keeps(u, y, {})
    BY <2>4, <2>5, <2>6 DEF Keeps, SavedIds
  <2> QED
    BY <2>3, <2>7, <2>8 DEF x
<1> QED
  BY <1>1, <1>2

LEMMA KeepsPreserved ==
    ASSUME NEW u \in UIType
    PROVE  /\ \A n \in Notes : Keeps(u, Preserve(u, n), {}) /\ Keeps(u, Retire(u, {n}, FALSE), {n})
           /\ \A held \in Seq(Notes) : Keeps(u, PreserveAll(u, held), {})
           /\ \A gone : Keeps(u, Retire(u, gone, TRUE), {})
<1>1. ASSUME NEW n \in Notes PROVE Keeps(u, Preserve(u, n), {})
  <2> DEFINE v == AppendTab(u, n)
             w == Release(v, n)
  <2>1. v \in UIType /\ v.open = u.open /\ v.last = u.last
    <3>1. v \in UIType
      BY FitsBasics
    <3>2. v = u \/ v = [u EXCEPT !.tabs = Append(u.tabs, n)]
      BY DEF AppendTab
    <3> QED
      BY <3>1, <3>2 DEF UIType
  <2> HIDE DEF v
  <2>2. w \in UIType /\ w.open = u.open /\ w.last = u.last
    BY <2>1, FitsBasics DEF Release, UIType
  <2> HIDE DEF w
  <2> DEFINE x == [w EXCEPT !.open = w.open \cup {n}]
  <2>3. x.open = u.open \cup {n} /\ x.last = u.last
    BY <2>2 DEF UIType
  <2>4. Preserve(u, n) = x
    BY DEF Preserve, v, w
  <2> QED
    BY <2>3, <2>4 DEF Keeps, SavedIds
<1>2. ASSUME NEW held \in Seq(Notes) PROVE Keeps(u, PreserveAll(u, held), {})
  <2> DEFINE v == PreserveAll(u, held)
  <2>1. v.open = u.open \cup Range(held) /\ v.last = u.last
    BY DEF PreserveAll, UIType
  <2> QED
    BY <2>1 DEF Keeps, SavedIds
<1>3. ASSUME NEW gone
      PROVE  Keeps(u, Retire(u, gone, TRUE), {}) /\ Keeps(u, Retire(u, gone, FALSE), gone)
  <2> DEFINE a == IF u.active \in gone THEN None ELSE u.active
             v == [u EXCEPT !.tabs = Without(u.tabs, gone), !.retained = u.retained \ gone, !.active = a]
  <2>1. v.open = u.open /\ v.last = u.last
    BY DEF UIType
  <2>2. Retire(u, gone, TRUE) = v /\ Retire(u, gone, FALSE) = RemoveSaved(v, gone)
    BY DEF Retire
  <2>3. DOMAIN v = DOMAIN u
    OBVIOUS
  <2> DEFINE l == IF v.last \in gone \cap v.open THEN None ELSE v.last
             w == [v EXCEPT !.open = v.open \ gone, !.last = l]
  <2>4. "open" \in DOMAIN u /\ "last" \in DOMAIN u
    BY DEF UIType
  <2> HIDE DEF v
  <2>5. RemoveSaved(v, gone) = w
    BY DEF RemoveSaved
  <2>6. w.open = v.open \ gone /\ w.last = l
    BY <2>3, <2>4
  <2>7. SavedIds(u) \ gone \subseteq (v.open \ gone) \cup IdIn(l)
    BY <2>1 DEF SavedIds, IdIn
  <2>8. Keeps(u, w, gone)
    BY <2>6, <2>7 DEF Keeps, SavedIds
  <2>9. Keeps(u, v, {})
    BY <2>1 DEF Keeps, SavedIds
  <2> QED
    BY <2>2, <2>5, <2>8, <2>9
<1> QED
  BY <1>1, <1>2, <1>3

LEMMA LeasedMoves ==
    ASSUME Leased, Exiting, UNCHANGED exists, batch'.keep = batch.keep, batch'.saved = batch.saved,
           NEW gone, gone \cap batch.saved = {}, Keeps(ui, ui', gone), Tabbed(closes', closes)
    PROVE  Leased'
<1>1. batch'.saved \cap exists' \subseteq SavedIds(ui')
  BY DEF Leased, Keeps
<1>2. \A i \in DOMAIN closes' : closes'[i].kind = "tab" => closes'[i].note \notin batch'.saved
  BY DEF Leased, Tabbed
<1> QED
  BY <1>1, <1>2 DEF Leased, SavedIds, IdIn

LEMMA Granting ==
    ASSUME Barred, Exiting
    PROVE  /\ actions = <<>> /\ Blocked /\ CloseRefused /\ LifeFree(opens)
           /\ \A q : BlockedWhile(q)
BY DEF Barred, Exiting, Blocked, BlockedWhile, CloseRefused, Working

LEMMA KeepsAfterClose ==
    ASSUME Barred, Exiting, NEW n, NEW u \in UIType, NEW a, NEW q, AfterClose(n, u, a, q)
    PROVE  Keeps(u, ui', {})
<1>1. BlockedWhile(q)
  BY Granting
<1>2. ui' \in {u, [u EXCEPT !.selected = None]} \/ (Has(u, u.selected) /\ ui' = Activate(u, u.selected))
  BY <1>1 DEF AfterClose
<1>3. Has(u, u.selected) => u.selected \in Notes
  BY LastType DEF Has
<1> QED
  BY <1>2, <1>3, KeepsShown

LEMMA KeepsRestoreEnds ==
    ASSUME Barred, Exiting, NEW u, NEW retry, RestoreEnds(u, retry)
    PROVE  ui' = u
BY Granting DEF RestoreEnds

LEMMA LeasedStart ==
    \A kind \in {"all", "others", "exit"} : \A keep :
        Frame /\ StartBatch(kind, keep) /\ (kind = "exit" => keep = None) => Leased'
<1> SUFFICES ASSUME NEW kind \in {"all", "others", "exit"}, NEW keep, Frame, StartBatch(kind, keep),
                    kind = "exit" => keep = None, Exiting'
             PROVE  Leased'
  BY DEF Leased
<1> DEFINE turned == {closes[i].note : i \in {j \in DOMAIN closes : closes[j].kind = "tab"}}
           s == SavedIds(ui) \ turned
<1>1. /\ UNCHANGED <<exists, ui, closes>>
      /\ batch' = [kind |-> kind, keep |-> keep, dirty |-> FALSE, gone |-> {}, saved |-> s]
  BY DEF StartBatch
<1>2. SavedIds(ui)' = SavedIds(ui)
  BY <1>1 DEF SavedIds, IdIn
<1>3. \A i \in DOMAIN closes' : closes'[i].kind = "tab" => closes'[i].note \in turned
  BY <1>1
<1> HIDE DEF turned
<1>4. batch'.saved = s /\ batch'.keep = keep /\ batch'.kind = kind
  BY <1>1
<1> QED
  BY <1>2, <1>3, <1>4 DEF Leased, Exiting

LEMMA LeasedOpens ==
    Frame /\ Barred /\ Leased
    /\ (OpenStart \/ OpenAnswered \/ OpenFailed \/ \E n \in Notes : RestoreAnswered(n) \/ RestoreFailed(n))
    => Leased'
<1> SUFFICES ASSUME Frame, Barred, Leased, Exiting',
                    OpenStart \/ OpenAnswered \/ OpenFailed
                    \/ \E n \in Notes : RestoreAnswered(n) \/ RestoreFailed(n)
             PROVE  Leased'
  BY DEF Leased
<1>1. UNCHANGED <<exists, batch>> /\ opens # <<>>
  BY Zenon DEF OpenStart, OpenAnswered, OpenFailed, RestoreAnswered, RestoreFailed, Ready, Answering
<1>2. Exiting
  BY <1>1 DEF Exiting
<1>3. Blocked /\ Head(opens).kind # "life"
  BY <1>1, <1>2, Granting, LifeMoves, Zenon DEF Frame, Types
<1>4. Overtaken /\ Stale
  BY <1>3 DEF Overtaken, Stale
<1>5. ui \in UIType /\ ClosesFit(closes)
  BY DEF Frame, Types
<1>6. ASSUME ui' = ui, Tabbed(closes', closes) PROVE Leased'
  <2>1. Keeps(ui, ui', {}) /\ {} \cap batch.saved = {}
    BY <1>5, <1>6, KeepsShown
  <2> QED
    BY <1>1, <1>2, <1>6, <2>1, LeasedMoves
<1>7. Tabbed(closes, closes)
  BY DEF Tabbed
<1>8. CASE OpenStart \/ OpenFailed
  <2>1. ui' = ui /\ closes' = closes
    BY <1>4, <1>8 DEF OpenStart, OpenFailed
  <2> QED
    BY <1>6, <1>7, <2>1
<1>9. CASE OpenAnswered
  <2> DEFINE n == Head(opens).note
  <2>1. ui' = ui /\ closes' = Append(closes, [kind |-> "retire", note |-> n])
    BY <1>4, <1>9 DEF OpenAnswered
  <2>2. n \in Notes
    <3>1. Answering({"user", "life"}, "core")
      BY <1>9 DEF OpenAnswered
    <3> QED
      BY <3>1, FrameAnswers
  <2> HIDE DEF n
  <2> QED
    BY <1>5, <1>6, <2>1, <2>2, TabbedGrows
<1>10. ASSUME NEW n \in Notes, RestoreAnswered(n) PROVE Leased'
  <2> DEFINE back == <<n>> \o restore.done
             h == Head(back)
  <2>1. ui' = ui /\ closes' = Append(closes, [kind |-> "retire", note |-> h])
    BY <1>4, <1>10, Zenon DEF RestoreAnswered, GiveBack
  <2>2. h \in Notes
    <3>1. restore.done \in Seq(Notes)
      BY DEF Frame, Types, RestoreType
    <3> QED
      BY <3>1
  <2> HIDE DEF h
  <2> QED
    BY <1>5, <1>6, <2>1, <2>2, TabbedGrows
<1>11. ASSUME NEW n \in Notes, RestoreFailed(n) PROVE Leased'
  <2> DEFINE h == Head(restore.done)
  <2>1. \/ restore.done # <<>> /\ ui' = ui /\ closes' = Append(closes, [kind |-> "retire", note |-> h])
        \/ RestoreEnds(GivenBack(ui), Kept) /\ closes' = closes
    BY <1>4, <1>11 DEF RestoreFailed, GiveBack
  <2>2. CASE restore.done # <<>> /\ ui' = ui /\ closes' = Append(closes, [kind |-> "retire", note |-> h])
    <3>1. h \in Notes
      BY <2>2 DEF Frame, Types, RestoreType
    <3> HIDE DEF h
    <3> QED
      BY <1>5, <1>6, <2>2, <3>1, TabbedGrows
  <2>3. CASE RestoreEnds(GivenBack(ui), Kept) /\ closes' = closes
    <3>1. ui' = ui
      BY <1>2, <2>3, KeepsRestoreEnds DEF GivenBack
    <3> QED
      BY <1>6, <1>7, <2>3, <3>1
  <2> QED
    BY <2>1, <2>2, <2>3
<1> QED
  BY <1>8, <1>9, <1>10, <1>11

LEMMA LeasedRetires == \A end : Frame /\ Barred /\ Leased /\ RetireAnswered(end) => Leased'
<1> SUFFICES ASSUME NEW end, Frame, Barred, Leased, RetireAnswered(end), Exiting' PROVE Leased'
  BY DEF Leased
<1> DEFINE n == Head(closes).note
           rest == Tail(restore.done)
           own == IF end = "failure" THEN <<n>> ELSE <<>>
           kept == IF n = restore.late THEN rest \o own ELSE own \o rest
           u == IF end = "failure" THEN Preserve(ui, n) ELSE ui
           v == PreserveAll(ui, kept)
           w == GivenBack(u)
<1>1. /\ closes # <<>> /\ Head(closes).kind = "retire" /\ UNCHANGED exists
      /\ \/ batch' = batch
         \/ /\ Exiting
            /\ batch' = [batch EXCEPT !.dirty = TRUE, !.gone = IF end = "warning" THEN @ \cup {n} ELSE @]
  BY DEF RetireAnswered, CloseTurn
<1>2. Exiting
  BY <1>1 DEF Exiting
<1>3. batch \in BatchType
  BY <1>2 DEF Exiting, Frame, Types
<1>4. batch'.keep = batch.keep /\ batch'.saved = batch.saved
  BY <1>1, <1>3 DEF BatchType
<1>5. ClosesFit(closes) /\ n \in Notes /\ Retiring(opens) /\ ui \in UIType /\ restore \in RestoreType
      /\ opens # <<>> /\ Head(opens) = opens[1]
  <2>1. ClosesFit(closes) /\ n \in Notes /\ Retiring(opens)
    BY <1>1, CloseEnded DEF Frame, Types, Turns, CloseType
  <2> QED
    BY <2>1, TaskEnds DEF Retiring, Frame, Types
<1>6. \/ ui' = u /\ closes' = Tail(closes)
      \/ Restoring(opens) /\ ui' = v /\ closes' = Tail(closes)
      \/ /\ Restoring(opens) /\ Len(restore.done) > 1 /\ ui' = u
         /\ closes' = Append(Tail(closes), [kind |-> "retire", note |-> Head(rest)])
  <2>1. \/ ui' = u /\ closes' = Tail(closes)
        \/ Restoring(opens) /\ RestoreEnds(v, Kept) /\ closes' = Tail(closes)
        \/ Restoring(opens) /\ Len(restore.done) > 1 /\ GiveBack(Tail(closes), None, rest) /\ ui' = u
        \/ RestoreEnds(w, Kept) /\ closes' = Tail(closes)
    BY <1>5 DEF RetireAnswered, Restoring
  <2>2. w = u
    BY <1>2 DEF GivenBack
  <2> HIDE DEF u, v, w, rest
  <2> QED
    BY <1>2, <2>1, <2>2, KeepsRestoreEnds DEF GiveBack
<1>7. own \in Seq(Notes)
  BY <1>5
<1> HIDE DEF own
<1>8. Keeps(ui, u, {})
  BY <1>5, KeepsShown, KeepsPreserved
<1>9. ASSUME Restoring(opens)
      PROVE  /\ rest \in Seq(Notes) /\ (Len(restore.done) > 1 => Head(rest) \in Notes) /\ Keeps(ui, v, {})
  <2>1. restore.done # <<>> /\ restore.done \in Seq(Notes)
    <3>1. Handing(closes) # {}
      BY <1>1, <1>5, CloseEnded
    <3> QED
      BY <1>5, <1>9, <3>1 DEF Frame, Turns, RestoreType
  <2>2. rest \in Seq(Notes) /\ (Len(restore.done) > 1 => rest # <<>>)
    BY <2>1, Behind
  <2> HIDE DEF rest
  <2>3. Len(restore.done) > 1 => Head(rest) \in Notes
    BY <2>2, Behind
  <2>4. kept \in Seq(Notes)
    BY <1>7, <2>2, Joined
  <2> HIDE DEF kept
  <2> QED
    BY <1>5, <2>2, <2>3, <2>4, KeepsPreserved
<1> HIDE DEF u, v, rest, n
<1>10. Keeps(ui, ui', {}) /\ Tabbed(closes', closes)
  BY ZenonT(60), <1>1, <1>5, <1>6, <1>8, <1>9, TabbedMoves
<1> QED
  BY <1>1, <1>2, <1>4, <1>10, LeasedMoves

LEMMA LeasedCloses ==
    Frame /\ Barred /\ Leased
    /\ (CloseAllRefused \/ (\E n \in Notes : CloseTab(n)) \/ \E end : TabClosed(end))
    => Leased'
<1> SUFFICES ASSUME Frame, Barred, Leased, Exiting',
                    CloseAllRefused \/ (\E n \in Notes : CloseTab(n)) \/ \E end : TabClosed(end)
             PROVE  Leased'
  BY DEF Leased
<1>1. UNCHANGED <<exists, batch>>
  BY DEF CloseAllRefused, CloseTab, TabClosed
<1>2. Exiting
  BY <1>1 DEF Exiting
<1>3. ui \in UIType /\ ClosesFit(closes) /\ Tabbed(closes, closes)
  BY DEF Frame, Types, Tabbed
<1>4. CASE CloseAllRefused
  <2> DEFINE h == Head(ui.tabs)
  <2>1. closes' = closes /\ (ui' \in {ui, [ui EXCEPT !.selected = None]} \/ (ui.tabs # <<>> /\ ui' = Activate(ui, h)))
    BY <1>4 DEF CloseAllRefused, AfterCloseAll
  <2>2. ui.tabs # <<>> => h \in Notes
    BY <1>3, LastType, Behind
  <2> HIDE DEF h
  <2>3. Keeps(ui, ui', {}) /\ {} \cap batch.saved = {}
    BY <1>3, <2>1, <2>2, KeepsShown
  <2> QED
    BY <1>1, <1>2, <1>3, <2>1, <2>3, LeasedMoves
<1>5. ASSUME NEW n \in Notes, CloseTab(n) PROVE Leased'
  <2>1. closes' = closes /\ \E a : AfterClose(n, ui, a, closes)
    BY <1>2, <1>5, Granting DEF CloseTab
  <2>2. Keeps(ui, ui', {}) /\ {} \cap batch.saved = {}
    BY <1>2, <1>3, <2>1, KeepsAfterClose
  <2> QED
    BY <1>1, <1>2, <1>3, <2>1, <2>2, LeasedMoves
<1>6. ASSUME NEW end, TabClosed(end) PROVE Leased'
  <2> DEFINE n == Head(closes).note
             v == Retire(ui, {n}, FALSE)
  <2>1. /\ closes # <<>> /\ Head(closes).kind = "tab" /\ closes' = Tail(closes)
        /\ AfterClose(n, ui, anchor, Tail(closes)) \/ AfterClose(n, v, anchor, Tail(closes))
    BY <1>6 DEF TabClosed, CloseTurn
  <2>2. n \in Notes /\ n \notin batch.saved
    <3>1. closes \in Seq(CloseType)
      BY <1>3 DEF ClosesFit
    <3>2. Head(closes) \in CloseType /\ Head(closes) = closes[1] /\ 1 \in DOMAIN closes
      BY <2>1, <3>1, Behind
    <3> QED
      BY <1>2, <2>1, <3>2 DEF Leased, CloseType
  <2> HIDE DEF n
  <2>3. v \in UIType /\ Keeps(ui, v, {n})
    BY <1>3, <2>2, FitsPreserved, KeepsPreserved
  <2> HIDE DEF v
  <2>4. Keeps(ui, ui', {}) \/ Keeps(v, ui', {})
    BY <1>2, <1>3, <2>1, <2>3, KeepsAfterClose
  <2>5. Keeps(ui, ui', {n})
    BY <2>3, <2>4 DEF Keeps
  <2>6. Tabbed(closes', closes) /\ {n} \cap batch.saved = {}
    BY <1>3, <2>1, <2>2, TabbedMoves
  <2> QED
    BY <1>1, <1>2, <2>5, <2>6, LeasedMoves
<1> QED
  BY <1>4, <1>5, <1>6

-----------------------------------------------------------------------------
(* An exit.                                                                  *)

LEMMA LeasedStep == Frame /\ Barred /\ Leased /\ [Next]_vars => Leased'
<1> SUFFICES ASSUME Frame, Barred, Leased, [Next]_vars PROVE Leased'
  OBVIOUS
<1>1. ASSUME batch' = None PROVE Leased'
  BY <1>1 DEF Leased, Exiting
<1>2. ASSUME UNCHANGED <<exists, ui, closes, batch>> PROVE Leased'
  BY <1>2 DEF Leased, Exiting, SavedIds, IdIn
<1>3. ASSUME NEW n \in Notes, Select(n) PROVE Leased'
  <2>1. batch = None /\ batch' = batch
    BY <1>3 DEF Select, Blocked, BlockedWhile, Working
  <2> QED
    BY <1>1, <2>1
<1>4. ASSUME NEW kind \in {"all", "others", "exit"}, NEW keep, kind = "exit" => keep = None, StartBatch(kind, keep)
      PROVE  Leased'
  BY <1>4, LeasedStart
<1>5. CASE BatchOff \/ Submit
  <2>1. batch' = None
    BY <1>5 DEF BatchOff, Submit
  <2> QED
    BY <1>1, <2>1
<1>6. ASSUME NEW saved, BatchClosed(saved) PROVE Leased'
  BY <1>1, <1>6 DEF BatchClosed
<1>7. ASSUME NEW bad, NEW before, NEW end, BatchCancelled(bad, before, end) PROVE Leased'
  BY <1>1, <1>7 DEF BatchCancelled
<1>8. CASE Rescan \/ Reload \/ Answered \/ Request \/ UNCHANGED vars
  <2>1. UNCHANGED <<exists, ui, closes, batch>>
    BY <1>8 DEF Rescan, Reload, Answered, Request, vars
  <2> QED
    BY <1>2, <2>1
<1>9. ASSUME actions # <<>>, UNCHANGED batch PROVE Leased'
  BY <1>1, <1>9 DEF Barred
<1>10. CASE RequestFails \/ Other \/ ActionRestored
  <2>1. actions # <<>> /\ UNCHANGED batch
    BY <1>10 DEF RequestFails, Other, Turn, BodyUnchanged, ActionRestored, Resumes, BodyPaused, ResumeUnchanged
  <2> QED
    BY <1>9, <2>1
<1>11. ASSUME NEW n, Create(n) \/ Delete(n) PROVE Leased'
  <2>1. actions # <<>> /\ UNCHANGED batch
    BY <1>11 DEF Create, Delete, Turn, BodyUnchanged
  <2> QED
    BY <1>9, <2>1
<1>12. ASSUME NEW old, NEW new, NEW bad, Rename(old, new, bad) PROVE Leased'
  <2>1. actions # <<>> /\ UNCHANGED batch
    BY <1>12 DEF Rename, Turn, BodyUnchanged
  <2> QED
    BY <1>9, <2>1
<1>13. ASSUME NEW old, NEW new, NEW unread, NEW end, Redirect(old, new, unread, end) PROVE Leased'
  <2>1. actions # <<>> /\ UNCHANGED batch
    BY <1>13 DEF Redirect, Turn, BodyUnchanged
  <2> QED
    BY <1>9, <2>1
<1>14. ASSUME NEW bad, ActionRenamed(bad) PROVE Leased'
  <2>1. actions # <<>> /\ UNCHANGED batch
    BY <1>14 DEF ActionRenamed, Resumes, BodyPaused, ResumeUnchanged
  <2> QED
    BY <1>9, <2>1
<1>15. ASSUME NEW end, ActionCreated(end) PROVE Leased'
  <2>1. actions # <<>> /\ UNCHANGED batch
    BY <1>15 DEF ActionCreated, Resumes, BodyPaused, ResumeUnchanged
  <2> QED
    BY <1>9, <2>1
<1>16. CASE User
  <2>1. ASSUME NEW n \in Notes, CloseTab(n) PROVE Leased'
    BY <2>1, LeasedCloses
  <2>2. CASE CloseAllRefused
    BY <2>2, LeasedCloses
  <2> QED
    BY <1>3, <1>4, <1>5, <1>8, <1>16, <2>1, <2>2 DEF User
<1>17. CASE Program
  <2>1. CASE OpenStart \/ OpenAnswered \/ OpenFailed \/ \E n \in Notes : RestoreAnswered(n) \/ RestoreFailed(n)
    BY <2>1, LeasedOpens
  <2>2. ASSUME NEW end, RetireAnswered(end) PROVE Leased'
    BY <2>2, LeasedRetires
  <2>3. ASSUME NEW end, TabClosed(end) PROVE Leased'
    BY <2>3, LeasedCloses
  <2> QED
    BY <1>5, <1>6, <1>7, <1>8, <1>10, <1>11, <1>12, <1>13, <1>14, <1>15, <1>17, <2>1, <2>2, <2>3 DEF Program
<1> QED
  BY <1>8, <1>16, <1>17 DEF Next

Granted == Frame /\ Barred /\ Leased

(* What an exit relies on, whatever situation comes up: no operation is      *)
(* underway, nothing is kept open, and every Note that the snapshot named    *)
(* when it started, and that exists, is named still.                         *)
THEOREM TabsGranted == Spec => []Granted
<1>1. Init => Granted
  <2> SUFFICES ASSUME Init PROVE Granted
    OBVIOUS
  <2>1. batch = None /\ (opens = <<>> \/ opens = <<[Task("restore", None, None) EXCEPT !.pc = "core"]>>)
    BY DEF Init
  <2>2. LifeFree(opens)
    <3> DEFINE t == [Task("restore", None, None) EXCEPT !.pc = "core"]
    <3>1. t.kind = "restore"
      BY DEF Task
    <3> HIDE DEF t
    <3>2. \A i \in DOMAIN opens : opens[i] = t
      BY <2>1 DEF t
    <3> QED
      BY <3>1, <3>2 DEF LifeFree
  <2> QED
    BY <2>1, <2>2, FrameInit DEF Granted, Barred, Leased, Exiting
<1>2. Granted /\ [Next]_vars => Granted'
  BY FrameStep, BarredStep, LeasedStep DEF Granted
<1> QED
  BY <1>1, <1>2, PTL DEF Spec

(* Nothing runs after an exit, and only the batch of one grants it.          *)
LEMMA ExitGranted ==
    ASSUME Next, exited'
    PROVE  /\ Exiting /\ BatchTurn /\ (batch.kind = "others" => Has(ui, batch.keep))
           /\ Batched \subseteq core /\ core' = core \ Batched
           /\ ui' = Retire(ui, Batched, Exiting)
           /\ UNCHANGED history
<1>1. ASSUME NEW n \in Notes, \/ Select(n) \/ CloseTab(n) \/ RestoreAnswered(n) \/ RestoreFailed(n)
                              \/ Create(n) \/ Delete(n) \/ StartBatch("others", n)
      PROVE  FALSE
  BY <1>1 DEF Select, CloseTab, RestoreAnswered, RestoreFailed, Create, Delete, StartBatch, Gesture, Answering,
              Turn, BodyUnchanged, Settled
<1>2. CASE \/ CloseAllRefused \/ Rescan \/ Reload \/ Submit \/ \E kind \in {"all", "exit"} : StartBatch(kind, None)
  BY <1>2 DEF CloseAllRefused, Rescan, Reload, Submit, StartBatch, Gesture, Settled
<1>3. CASE OpenStart \/ OpenAnswered \/ OpenFailed \/ BatchOff \/ Answered \/ Request \/ RequestFails \/ Other \/ ActionRestored
  BY <1>3 DEF OpenStart, OpenAnswered, OpenFailed, BatchOff, BatchTurn, Answered, Request, RequestFails, Other, ActionRestored,
              Answering, Turn, Resumes, BodyUnchanged, ResumeUnchanged, Settled
<1>4. ASSUME NEW saved, BatchClosed(saved)
      PROVE  /\ Exiting /\ BatchTurn /\ (batch.kind = "others" => Has(ui, batch.keep))
             /\ Batched \subseteq core /\ core' = core \ Batched
             /\ ui' = Retire(ui, Batched, Exiting)
             /\ UNCHANGED history
  <2>1. BatchTurn /\ (batch.kind = "others" => Has(ui, batch.keep)) /\ ~exited
        /\ Batched \subseteq core /\ core' = core \ Batched
    BY <1>4 DEF BatchClosed, BatchMayClose, BatchTurn, Settled
  <2>2. Exiting /\ ui' = Retire(ui, Batched, Exiting) /\ UNCHANGED history
    BY <1>4, <2>1 DEF BatchClosed
  <2> QED
    BY <2>1, <2>2
<1>5. ASSUME NEW bad, ActionRenamed(bad) PROVE FALSE
  BY <1>5 DEF ActionRenamed, Resumes, ResumeUnchanged
<1>6. ASSUME NEW end, RetireAnswered(end) \/ TabClosed(end) \/ ActionCreated(end) PROVE FALSE
  BY <1>6 DEF RetireAnswered, TabClosed, ActionCreated, CloseTurn, Resumes, ResumeUnchanged, Settled
<1>7. ASSUME NEW bad, NEW before, NEW end, BatchCancelled(bad, before, end) PROVE FALSE
  BY <1>7 DEF BatchCancelled, BatchMayClose, BatchTurn, Settled
<1>8. ASSUME NEW old, NEW new, NEW unread, NEW end, Redirect(old, new, unread, end) PROVE FALSE
  BY <1>8 DEF Redirect, Turn, BodyUnchanged, Settled
<1>9. ASSUME NEW old, NEW new, NEW bad, Rename(old, new, bad) PROVE FALSE
  BY <1>9 DEF Rename, Turn, BodyUnchanged, Settled
<1> QED
  BY <1>1, <1>2, <1>3, <1>4, <1>5, <1>6, <1>7, <1>8, <1>9 DEF Next, User, Program

LEMMA ExitStep ==
    ASSUME Disowning \subseteq Quirks, CalmInv, Granted, Next, exited'
    PROVE  /\ ~Excused' => core' = {}
           /\ batch.saved \cap exists \subseteq SavedIds(ui)'
<1>1. /\ Exiting /\ BatchTurn /\ Batched \subseteq core /\ core' = core \ Batched
      /\ ui' = Retire(ui, Batched, Exiting) /\ UNCHANGED history
  BY ExitGranted
<1>2. batch.keep = None /\ batch.saved \cap exists \subseteq SavedIds(ui) /\ actions = <<>>
  BY <1>1 DEF Granted, Leased, Barred, Exiting
<1>3. ui \in UIType
  BY DEF Granted, Frame, Types
<1>4. batch.saved \cap exists \subseteq SavedIds(ui')
  <2> DEFINE gone == Batched
  <2> HIDE DEF gone
  <2>1. ui' = Retire(ui, gone, TRUE)
    BY <1>1 DEF gone, Retire
  <2>2. Keeps(ui, ui', {})
    BY <1>3, <2>1, KeepsPreserved
  <2> QED
    BY <1>2, <2>2 DEF Keeps
<1>5. SavedIds(ui)' = SavedIds(ui')
  BY DEF SavedIds, IdIn
<1>6. ASSUME ~Excused' PROVE core' = {}
  <2>1. Calm
    BY <1>1, <1>6 DEF Excused, Calm
  <2>2. TabsInv /\ opens = <<>> /\ Given(actions) = {}
    BY <1>1, <1>2, <2>1 DEF CalmInv, BatchTurn, Given
  <2>3. Range(restore.done) = {} /\ Handing(closes) = {}
    BY <2>2, Idle
  <2>4. core \subseteq Tabs(ui) \cup ui.retained /\ None \notin core
    BY <2>2, <2>3, NotesAssumption DEF TabsInv, Owners, Parts, Shown
  <2> QED
    BY <1>1, <1>2, <2>4 DEF Batched
<1> QED
  BY <1>4, <1>5, <1>6

(* ExitHonoured: an exit is granted once the core has no session, with the   *)
(* snapshot naming every Note that was to be reopened, and nothing runs      *)
(* after it.                                                                 *)
THEOREM ExitIsHonoured ==
    ASSUME Disowning \subseteq Quirks
    PROVE  Spec => ExitHonoured
<1>1. CalmInv /\ Granted /\ [Next]_vars =>
          [exited' => /\ ~Excused' => core' = {}
                      /\ batch.saved \cap exists \subseteq SavedIds(ui)']_vars
  BY ExitStep
<1> QED
  BY <1>1, TabsCalm, TabsGranted, PTL DEF Spec, ExitHonoured

-----------------------------------------------------------------------------
(* What the snapshot names when nothing is underway.                         *)

(* Every Note that is shown is in the saved list, or is the active one that  *)
(* only the saved active id names; what is saved beyond these is owed.       *)
Named(u, owed) ==
    /\ Shown(u) \subseteq u.open \cup ({u.active} \cap {u.last})
    /\ u.last \in u.open \cup owed \cup {None}
    /\ SavedIds(u) \subseteq Shown(u) \cup owed

(* The active Note is in the saved list.                                     *)
Firm(u) == u.active \in u.open \cup {None}

LEMMA NamedFacts ==
    ASSUME NEW u \in UIType, NEW owed, Named(u, owed)
    PROVE  /\ Tabs(u) \cup u.retained \subseteq u.open \cup ({u.active} \cap {u.last})
           /\ u.last \in u.open \cup owed \cup {None}
           /\ u.open \cup IdIn(u.last) \subseteq Tabs(u) \cup u.retained \cup owed
           /\ u.last # None => u.last \in Tabs(u) \cup u.retained \cup owed
           /\ u.active = None => Tabs(u) \cup u.retained \subseteq u.open
<1>1. None \notin Tabs(u) \cup u.retained
  BY LastType
<1> QED
  BY <1>1 DEF Named, Shown, SavedIds, IdIn

(* What the operators make of the saved list and the saved active id.        *)
LEMMA SavesSame ==
    ASSUME NEW u \in UIType
    PROVE  /\ \A n : /\ Release(u, n).open = u.open /\ Release(u, n).last = u.last
                     /\ AppendTab(u, n).open = u.open /\ AppendTab(u, n).last = u.last
                     /\ Drop(u, n).open = u.open /\ Drop(u, n).last = u.last
           /\ \A n, m : Renamed(u, n, m).open = u.open /\ Renamed(u, n, m).last = u.last
           /\ \A x : /\ [u EXCEPT !.active = x].open = u.open /\ [u EXCEPT !.active = x].last = u.last
                     /\ [u EXCEPT !.selected = x].open = u.open /\ [u EXCEPT !.selected = x].last = u.last
           /\ \A S : [u EXCEPT !.retained = S].open = u.open /\ [u EXCEPT !.retained = S].last = u.last
BY DEF UIType, Release, AppendTab, Drop, Renamed

LEMMA SavesSet ==
    ASSUME NEW u \in UIType, NEW S, NEW x
    PROVE  /\ [u EXCEPT !.open = S, !.last = x].open = S /\ [u EXCEPT !.open = S, !.last = x].last = x
           /\ [u EXCEPT !.last = x, !.open = S].open = S /\ [u EXCEPT !.last = x, !.open = S].last = x
BY DEF UIType

LEMMA SavesRecordActive ==
    ASSUME NEW u \in UIType, NEW n
    PROVE  /\ RecordActive(u, n).last = n
           /\ RecordActive(u, n).open
                = u.open \cup ({u.last} \ {None, n}) \cup (IF u.last = n THEN {} ELSE {n})
<1> DEFINE S == u.open \cup ({u.last} \ {None, n}) \cup (IF u.last = n THEN {} ELSE {n})
<1>1. RecordActive(u, n) = [u EXCEPT !.last = n, !.open = S]
  BY DEF RecordActive, UIType
<1> HIDE DEF S
<1>2. RecordActive(u, n).last = n /\ RecordActive(u, n).open = S
  BY <1>1, SavesSet
<1> QED
  BY <1>2 DEF S

LEMMA SavesRemoveSaved ==
    ASSUME NEW u \in UIType, NEW gone
    PROVE  /\ RemoveSaved(u, gone).open = u.open \ gone
           /\ RemoveSaved(u, gone).last = IF u.last \in gone \cap u.open THEN None ELSE u.last
<1> DEFINE S == u.open \ gone
           x == IF u.last \in gone \cap u.open THEN None ELSE u.last
<1>1. RemoveSaved(u, gone) = [u EXCEPT !.open = S, !.last = x]
  BY DEF RemoveSaved, UIType
<1> HIDE DEF S, x
<1>2. RemoveSaved(u, gone).last = x /\ RemoveSaved(u, gone).open = S
  BY <1>1, SavesSet
<1> QED
  BY <1>2 DEF S, x

Saves(v, S, x) == v.open = S /\ v.last = x

LEMMA SavesRekey ==
    ASSUME NEW u \in UIType, NEW old, NEW new
    PROVE  /\ \E v : /\ v = Rekey(u, old, new, TRUE)
                    /\ Saves(v, (u.open \ {old}) \cup {new}, IF u.last = None THEN None ELSE new)
           /\ \E v : /\ v = Rekey(u, old, new, FALSE)
                    /\ Saves(v, (u.open \ {old}) \cup {new},
                             IF u.last = None THEN None ELSE IF u.last = old THEN new ELSE u.last)
<1> DEFINE S == (u.open \ {old}) \cup {new}
           x == IF u.last = None THEN None ELSE new
           y == IF u.last = None THEN None ELSE IF u.last = old THEN new ELSE u.last
           v == Rekey(u, old, new, TRUE)
           w == Rekey(u, old, new, FALSE)
<1>1. v = [u EXCEPT !.open = S, !.last = x]
  BY DEF Rekey, UIType
<1>2. w = [u EXCEPT !.open = S, !.last = y]
  BY DEF Rekey, UIType
<1> HIDE DEF S, x, y, v, w
<1>3. Saves(v, S, x) /\ Saves(w, S, y)
  BY <1>1, <1>2, SavesSet DEF Saves
<1> QED
  BY <1>3 DEF S, x, y, v, w

(* Showing, selecting and closing keep it.                                   *)
LEMMA NamedSelected ==
    ASSUME NEW u \in UIType, Distinct(u.tabs), NEW owed, Named(u, owed), NEW x \in Id
    PROVE  Named([u EXCEPT !.selected = x], owed) /\ (Firm(u) => Firm([u EXCEPT !.selected = x]))
<1> DEFINE v == [u EXCEPT !.selected = x]
<1>1. Looks(v, Tabs(u), u.retained, u.active) /\ v.open = u.open /\ v.last = u.last
  BY LooksSelected, SavesSame
<1> HIDE DEF v
<1>2. Named(v, owed) /\ (Firm(u) => Firm(v))
  BY <1>1 DEF Firm, Looks, Named, Shown, SavedIds
<1> QED
  BY <1>2 DEF v

LEMMA NamedActivate ==
    ASSUME NEW u \in UIType, Distinct(u.tabs), NEW owed, Named(u, owed), NEW n \in Tabs(u)
    PROVE  /\ Named(Activate(u, n), owed) /\ Named(Show(u, n), owed)
           /\ u.active = None => Firm(Activate(u, n)) /\ Firm(Show(u, n))
<1> DEFINE a == [u EXCEPT !.active = n]
           v == Activate(u, n)
           w == Show(u, n)
<1>1. n \in Notes /\ n # None
  BY LastType
<1>2. a \in UIType /\ a.open = u.open /\ a.last = u.last
  BY <1>1, Fields, SavesSame DEF Id
<1>3. v = RecordActive(a, n) /\ w = [v EXCEPT !.selected = n]
  BY DEF Activate, Show
<1> HIDE DEF a
<1>4. Looks(v, Tabs(u), u.retained, n) /\ Looks(w, Tabs(u), u.retained, n)
  BY <1>1, LooksActivate
<1> HIDE DEF v, w
<1>5. v.last = n /\ v.open = u.open \cup ({u.last} \ {None, n}) \cup (IF u.last = n THEN {} ELSE {n})
  BY <1>2, <1>3, SavesRecordActive
<1>6. w.last = v.last /\ w.open = v.open
  BY <1>3, <1>4, SavesSame DEF Looks
<1>7. /\ Tabs(u) \cup u.retained \subseteq v.open \cup {n}
      /\ n \in v.open \cup owed
      /\ v.open \cup {n} \subseteq Tabs(u) \cup u.retained \cup owed
      /\ u.active = None => n \in v.open
  BY <1>1, <1>5, NamedFacts
<1>8. Named(v, owed) /\ Named(w, owed)
  BY <1>4, <1>5, <1>6, <1>7 DEF Looks, Named, Shown, SavedIds, IdIn
<1> QED
  BY <1>4, <1>6, <1>7, <1>8 DEF v, w, Firm, Looks

LEMMA NamedPreserve ==
    ASSUME NEW u \in UIType, Distinct(u.tabs), NEW owed, Named(u, owed), NEW n \in Notes
    PROVE  Named(Preserve(u, n), owed) /\ (Firm(u) => Firm(Preserve(u, n)))
<1> DEFINE a == AppendTab(u, n)
           v == Release(a, n)
           p == Preserve(u, n)
<1>1. a \in UIType /\ a.open = u.open /\ a.last = u.last
  BY FitsBasics, SavesSame
<1>2. v \in UIType /\ v.open = u.open /\ v.last = u.last
  <2> HIDE DEF a
  <2> QED
    BY <1>1, FitsBasics, SavesSame
<1>3. p = [v EXCEPT !.open = v.open \cup {n}]
  BY DEF Preserve
<1>4. Looks(p, Tabs(u) \cup {n}, u.retained \ {n}, u.active)
  BY LooksPreserve
<1> HIDE DEF a, v, p
<1>5. p.open = u.open \cup {n} /\ p.last = u.last
  BY <1>2, <1>3 DEF UIType
<1>6. Named(p, owed) /\ (Firm(u) => Firm(p))
  BY <1>4, <1>5 DEF Looks, Named, Shown, SavedIds, Firm
<1> QED
  BY <1>6 DEF p

LEMMA NamedPreserveAll ==
    ASSUME NEW u \in UIType, Distinct(u.tabs), NEW owed, Named(u, owed),
           NEW held \in Seq(Notes), Distinct(held)
    PROVE  Named(PreserveAll(u, held), owed) /\ (Firm(u) => Firm(PreserveAll(u, held)))
<1> DEFINE t == u.tabs \o Without(held, Tabs(u))
           r == u.retained \ Range(held)
           o == u.open \cup Range(held)
           p == PreserveAll(u, held)
<1>1. p = [u EXCEPT !.tabs = t, !.retained = r, !.open = o]
  BY DEF PreserveAll
<1>2. Looks(p, Tabs(u) \cup Range(held), u.retained \ Range(held), u.active)
  BY LooksPreserveAll
<1> HIDE DEF p, t, r, o
<1>3. p.open = o /\ p.last = u.last
  BY <1>1 DEF UIType
<1>4. Named(p, owed) /\ (Firm(u) => Firm(p))
  BY <1>2, <1>3 DEF o, Looks, Named, Shown, SavedIds, Firm
<1> QED
  BY <1>4 DEF p

(* A Note that is not shown may leave the saved list.                        *)
LEMMA NamedRemoveSaved ==
    ASSUME NEW u \in UIType, Distinct(u.tabs), NEW owed, Named(u, owed),
           NEW gone, gone \cap Shown(u) = {}
    PROVE  Named(RemoveSaved(u, gone), owed)
           /\ (Firm(u) /\ u.active \notin gone => Firm(RemoveSaved(u, gone)))
<1> DEFINE v == RemoveSaved(u, gone)
<1>1. Looks(v, Tabs(u), u.retained, u.active)
  BY LooksRemoveSaved
<1>2. v.open = u.open \ gone /\ v.last = IF u.last \in gone \cap u.open THEN None ELSE u.last
  BY SavesRemoveSaved
<1>3. None \notin Tabs(u) \cup u.retained
  BY LastType
<1> HIDE DEF v
<1>4. Named(v, owed) /\ (Firm(u) /\ u.active \notin gone => Firm(v))
  BY <1>1, <1>2, <1>3 DEF Looks, Named, Shown, SavedIds, IdIn, Firm
<1> QED
  BY <1>4 DEF v

LEMMA NamedRetire ==
    ASSUME NEW u \in UIType, Distinct(u.tabs), NEW owed, Named(u, owed), NEW gone \in SUBSET Notes
    PROVE  Named(Retire(u, gone, FALSE), owed) /\ (Firm(u) => Firm(Retire(u, gone, FALSE)))
<1> DEFINE t == Without(u.tabs, gone)
           r == u.retained \ gone
           a == IF u.active \in gone THEN None ELSE u.active
           v == [u EXCEPT !.tabs = t, !.retained = r, !.active = a]
           w == Retire(u, gone, FALSE)
<1>1. t \in Seq(Notes) /\ r \in SUBSET Notes /\ a \in Id
  BY WithoutFacts, LastType DEF Id
<1>2. w = RemoveSaved(v, gone)
  BY DEF Retire, UIType
<1>3. Looks(w, Tabs(u) \ gone, u.retained \ gone, a)
  BY LooksRetire
<1> HIDE DEF t, r
<1>4. v \in UIType /\ v.open = u.open /\ v.last = u.last
  <2> HIDE DEF a
  <2> QED
    BY <1>1 DEF UIType
<1> HIDE DEF v, w
<1>5. w.open = u.open \ gone /\ w.last = IF u.last \in gone \cap u.open THEN None ELSE u.last
  BY <1>2, <1>4, SavesRemoveSaved
<1>6. None \notin Tabs(u) \cup u.retained \cup gone
  BY LastType
<1>7. Named(w, owed) /\ (Firm(u) => Firm(w))
  BY <1>3, <1>5, <1>6 DEF Looks, Named, Shown, SavedIds, IdIn, Firm
<1> QED
  BY <1>7 DEF w

LEMMA NamedDiscard ==
    ASSUME NEW u \in UIType, Distinct(u.tabs), NEW owed, Named(u, owed), NEW n \in Notes,
           u.active \in Tabs(u) \cup {None}, Tabs(u) \cap u.retained = {}
    PROVE  Named(Discard(u, n), owed)
<1> DEFINE w == Discard(u, n)
<1>0. None \notin Tabs(u) \cup u.retained /\ n # None
  BY LastType
<1>1. Looks(w, Tabs(u) \ {n}, IF u.active = n THEN u.retained ELSE u.retained \ {n},
            IF u.active = n THEN None ELSE u.active)
  BY LooksDiscard
<1>2. w.open = u.open \ {n} /\ w.last = IF u.last \in {n} \cap u.open THEN None ELSE u.last
  <2>1. CASE u.active = n
    <3> DEFINE v == Drop(u, n)
               x == RemoveSaved(v, {n})
    <3>1. v \in UIType /\ v.open = u.open /\ v.last = u.last
      BY LooksDrop, SavesSame DEF Looks
    <3>2. w = [x EXCEPT !.active = None]
      BY <2>1, <1>0 DEF Discard, Clear, Has
    <3> HIDE DEF v, w
    <3>3. x \in UIType
      BY <3>1, FitsBasics
    <3>4. x.open = u.open \ {n} /\ x.last = IF u.last \in {n} \cap u.open THEN None ELSE u.last
      BY <3>1, SavesRemoveSaved
    <3> HIDE DEF x
    <3> QED
      BY <3>2, <3>3, <3>4, SavesSame
  <2>2. CASE u.active # n
    <3> DEFINE d == Drop(u, n)
               v == Release(d, n)
    <3>1. d \in UIType /\ d.open = u.open /\ d.last = u.last
      BY LooksDrop, SavesSame DEF Looks
    <3>2. w = RemoveSaved(v, {n})
      BY <2>2 DEF Discard
    <3> HIDE DEF d, w
    <3>3. v \in UIType /\ v.open = u.open /\ v.last = u.last
      BY <3>1, FitsBasics, SavesSame
    <3> HIDE DEF v
    <3> QED
      BY <3>2, <3>3, SavesRemoveSaved
  <2> QED
    BY <2>1, <2>2
<1> HIDE DEF w
<1>3. Named(w, owed)
  BY <1>0, <1>1, <1>2 DEF Looks, Named, Shown, SavedIds, IdIn
<1> QED
  BY <1>3 DEF w

LEMMA NamedUnselect ==
    ASSUME NEW u \in UIType, Distinct(u.tabs), NEW owed, Named(u, owed), NEW n \in Notes,
           u.active # n, u.active \in Tabs(u) \cup {None}
    PROVE  Named(Unselect(u, n), owed)
<1>0. None \notin Notes /\ None \notin Tabs(u) \cup u.retained
  BY LastType
<1>1. CASE u.selected # n
  BY <1>1 DEF Unselect
<1>2. CASE u.selected = n /\ u.active # None
  <2>1. Unselect(u, n) = [u EXCEPT !.selected = u.active] /\ u.active \in Id
    BY <1>2, LastType DEF Unselect
  <2> QED
    BY <2>1, NamedSelected
<1>3. CASE u.selected = n /\ u.active = None
  <2> DEFINE c == Clear(u)
  <2>1. c = [u EXCEPT !.active = None, !.last = None] /\ Unselect(u, n) = [c EXCEPT !.selected = None]
    BY <1>3 DEF Unselect, Clear
  <2>2. Looks(c, Tabs(u) \ {None}, u.retained, None)
    BY <1>3, LooksClear
  <2> HIDE DEF c
  <2>3. c.open = u.open /\ c.last = None
    BY <2>1 DEF UIType
  <2>4. Named(c, owed)
    BY <1>0, <1>3, <2>2, <2>3 DEF Looks, Named, Shown, SavedIds, IdIn
  <2>5. Named([c EXCEPT !.selected = None], owed)
    BY <2>2, <2>4, NamedSelected DEF Looks, Id
  <2> QED
    BY <2>1, <2>5
<1> QED
  BY <1>1, <1>2, <1>3

(* An open that has ended shows its Note.                                    *)
LEMMA NamedRecord ==
    ASSUME NEW u \in UIType, Distinct(u.tabs), NEW owed, Named(u, owed), NEW n \in Notes,
           NEW from \in Id, from # None => from \notin Shown(u) /\ Firm(u)
    PROVE  Named(Record(Release(AppendTab([u EXCEPT !.active = n], n), n), n, from), owed)
<1> DEFINE a == [u EXCEPT !.active = n]
           b == AppendTab(a, n)
           c == Release(b, n)
           w == Record(c, n, from)
<1>0. n # None /\ None \notin Tabs(u) \cup u.retained
  BY LastType
<1>1. Looks(a, Tabs(u), u.retained, n) /\ a.open = u.open /\ a.last = u.last
  BY LooksActive, SavesSame DEF Id
<1> HIDE DEF a
<1>2. Looks(b, Tabs(u) \cup {n}, u.retained, n) /\ b.open = u.open /\ b.last = u.last
  BY <1>1, LooksAppendTab, SavesSame DEF Looks
<1> HIDE DEF b
<1>3. Looks(c, Tabs(u) \cup {n}, u.retained \ {n}, n) /\ c.open = u.open /\ c.last = u.last
  BY <1>2, LooksRelease, SavesSame DEF Looks
<1> HIDE DEF c
<1>4. Looks(w, Tabs(u) \cup {n}, u.retained \ {n}, n)
  BY <1>3, LooksRecord DEF Looks
<1>5. CASE from \in {None, n}
  <2>1. w = RecordActive(c, n)
    BY <1>5 DEF Record
  <2> HIDE DEF w
  <2>2. w.last = n /\ w.open = u.open \cup ({u.last} \ {None, n}) \cup (IF u.last = n THEN {} ELSE {n})
    BY <1>3, <2>1, SavesRecordActive DEF Looks
  <2>3. Named(w, owed)
    BY <1>0, <1>4, <2>2, NamedFacts DEF Looks, Named, Shown, SavedIds, IdIn
  <2> QED
    BY <2>3 DEF w, c, b, a
<1>6. CASE from \notin {None, n}
  <2>1. w = Rekey(c, from, n, TRUE)
    BY <1>6 DEF Record
  <2> HIDE DEF w
  <2>6. c \in UIType
    BY <1>3 DEF Looks
  <2> HIDE DEF c
  <2>7. PICK v : /\ v = Rekey(c, from, n, TRUE)
                 /\ Saves(v, (c.open \ {from}) \cup {n}, IF c.last = None THEN None ELSE n)
    BY <2>6, SavesRekey
  <2>2. w.open = (u.open \ {from}) \cup {n} /\ w.last = IF u.last = None THEN None ELSE n
    BY <1>3, <2>1, <2>7 DEF Saves
  <2>3. from \notin Tabs(u) \cup u.retained /\ u.active \in u.open \cup {None}
    BY <1>6 DEF Shown, Firm
  <2>4. Tabs(u) \cup u.retained \subseteq u.open
    BY <1>0, <2>3, NamedFacts
  <2>5. Named(w, owed)
    BY <1>0, <1>4, <2>2, <2>3, <2>4, NamedFacts DEF Looks, Named, Shown, SavedIds, IdIn
  <2> QED
    BY <2>5 DEF w, c, b, a
<1> QED
  BY <1>5, <1>6

(* A new id takes the place of the old one.                                  *)
LEMMA NamedAdopt ==
    ASSUME NEW u \in UIType, Distinct(u.tabs), NEW owed, Named(u, owed), NEW old \in Notes, NEW new \in Notes,
           old # new, new \notin Shown(u), old \in Tabs(u), old \notin u.retained,
           u.active \in {None, old}
    PROVE  Named(Adopt(u, new, old), owed)
<1> DEFINE a == [u EXCEPT !.active = new]
           v == Release(a, new)
           w == IF Has(v, old) THEN Renamed(v, old, new) ELSE v
           x == Adopt(u, new, old)
<1>0. new # None /\ old # None /\ None \notin Tabs(u) \cup u.retained
  BY LastType
<1>1. a \in UIType /\ a.open = u.open /\ a.last = u.last
  BY Fields, SavesSame DEF Id
<1>2. x = Rekey(w, old, new, TRUE)
  BY DEF Adopt
<1>3. Looks(x, Reidentified(Tabs(u), old, new), u.retained \ {new}, new)
  BY LooksAdopt DEF Shown
<1> HIDE DEF x, a
<1>4. v \in UIType /\ v.open = u.open /\ v.last = u.last
  BY <1>1, FitsBasics, SavesSame
<1> HIDE DEF v
<1>5. w \in UIType /\ w.open = u.open /\ w.last = u.last
  <2>1. Renamed(v, old, new) \in UIType
    BY <1>4, FitsBasics
  <2> QED
    BY <1>4, <2>1, SavesSame
<1> HIDE DEF w
<1>9. PICK r : /\ r = Rekey(w, old, new, TRUE)
               /\ Saves(r, (w.open \ {old}) \cup {new}, IF w.last = None THEN None ELSE new)
  BY <1>5, SavesRekey
<1>6. x.open = (u.open \ {old}) \cup {new} /\ x.last = IF u.last = None THEN None ELSE new
  BY <1>2, <1>5, <1>9 DEF Saves
<1>7. Tabs(x) = (Tabs(u) \ {old}) \cup {new} /\ x.retained = u.retained /\ x.active = new
  BY <1>3 DEF Looks, Reidentified, Shown
<1>8. Named(x, owed)
  BY <1>0, <1>6, <1>7, NamedFacts DEF Named, Shown, SavedIds, IdIn
<1> QED
  BY <1>8 DEF x

LEMMA NamedReplaceTab ==
    ASSUME NEW u \in UIType, Distinct(u.tabs), NEW owed, Named(u, owed), NEW old \in Notes, NEW new \in Notes,
           old # new, new \notin Shown(u), old \notin u.retained, u.active # old
    PROVE  Named(ReplaceTab(u, old, new), owed)
<1>1. CASE ~Has(u, old)
  BY <1>1 DEF ReplaceTab
<1>2. CASE Has(u, old)
  <2> DEFINE r == Renamed(u, old, new)
             v == Release(r, new)
             x == ReplaceTab(u, old, new)
  <2>0. new # None /\ old # None /\ None \notin Tabs(u) \cup u.retained
    BY LastType
  <2>8. Renamed(u, old, new) \in UIType
    BY FitsBasics
  <2>1. r \in UIType /\ r.open = u.open /\ r.last = u.last
    BY <2>8, SavesSame
  <2>2. x = Rekey(v, old, new, FALSE)
    BY <1>2 DEF ReplaceTab
  <2>3. Looks(x, Reidentified(Tabs(u), old, new), u.retained \ {new}, u.active)
    BY <1>2, LooksReplaceTab DEF Shown
  <2> HIDE DEF x, r
  <2>4. v \in UIType /\ v.open = u.open /\ v.last = u.last
    BY <2>1, FitsBasics, SavesSame
  <2> HIDE DEF v
  <2>9. PICK k : /\ k = Rekey(v, old, new, FALSE)
                 /\ Saves(k, (v.open \ {old}) \cup {new},
                          IF v.last = None THEN None ELSE IF v.last = old THEN new ELSE v.last)
    BY <2>4, SavesRekey
  <2>5. x.open = (u.open \ {old}) \cup {new} /\ x.last = IF u.last = old THEN new ELSE u.last
    BY <2>0, <2>2, <2>4, <2>9 DEF Saves
  <2>6. Tabs(x) = (Tabs(u) \ {old}) \cup {new} /\ x.retained = u.retained /\ x.active = u.active
    BY <1>2, <2>3 DEF Looks, Reidentified, Shown, Has
  <2>7. Named(x, owed)
    BY <2>0, <2>5, <2>6, NamedFacts DEF Named, Shown, SavedIds, IdIn
  <2> QED
    BY <2>7 DEF x
<1> QED
  BY <1>1, <1>2

(* A session that is not shown any more stays owed.                          *)
LEMMA NamedRetain ==
    ASSUME NEW u \in UIType, Distinct(u.tabs), NEW owed, Named(u, owed), NEW old \in Notes, NEW new \in Notes,
           old \in Tabs(u), Tabs(u) \cap u.retained = {}, u.active \in Tabs(u) \cup {None}
    PROVE  /\ u.active = old => Named(RetainActive(u, old, new), owed)
           /\ u.active # old => Named(RetainTab(u, old, new), owed)
<1>0. new # None /\ old # None /\ None \notin Tabs(u) \cup u.retained
  BY LastType
<1> DEFINE d == Drop(u, old)
           a == [d EXCEPT !.retained = (d.retained \ {old}) \cup {new}, !.active = None]
           t == [d EXCEPT !.retained = d.retained \cup {new}]
           x == RetainActive(u, old, new)
           y == RetainTab(u, old, new)
<1>1. d \in UIType /\ d.open = u.open /\ d.last = u.last
  BY LooksDrop, SavesSame DEF Looks
<1>2. x = Rekey(a, old, new, FALSE) /\ y = Rekey(t, old, new, FALSE)
  BY DEF RetainActive, RetainTab
<1>3. /\ Looks(x, Tabs(u) \ {old}, (u.retained \ {old}) \cup {new}, None)
      /\ Looks(y, Tabs(u) \ {old}, u.retained \cup {new}, u.active)
  BY LooksRetain
<1> HIDE DEF d, x, y
<1>4. a \in UIType /\ a.open = u.open /\ a.last = u.last
  BY <1>1 DEF UIType, Id
<1>5. t \in UIType /\ t.open = u.open /\ t.last = u.last
  BY <1>1 DEF UIType
<1> HIDE DEF a, t
<1> DEFINE S == (u.open \ {old}) \cup {new}
           l == IF u.last = None THEN None ELSE IF u.last = old THEN new ELSE u.last
<1>6. Saves(x, S, l)
  <2>1. PICK k : /\ k = Rekey(a, old, new, FALSE)
                 /\ Saves(k, (a.open \ {old}) \cup {new},
                          IF a.last = None THEN None ELSE IF a.last = old THEN new ELSE a.last)
    BY <1>4, SavesRekey
  <2> QED
    BY <1>2, <1>4, <2>1
<1>7. Saves(y, S, l)
  <2>1. PICK k : /\ k = Rekey(t, old, new, FALSE)
                 /\ Saves(k, (t.open \ {old}) \cup {new},
                          IF t.last = None THEN None ELSE IF t.last = old THEN new ELSE t.last)
    BY <1>5, SavesRekey
  <2> QED
    BY <1>2, <1>5, <2>1
<1>8. ASSUME u.active = old PROVE Named(x, owed)
  <2>1. /\ Tabs(x) = Tabs(u) \ {old} /\ x.retained = u.retained \cup {new} /\ x.active = None
        /\ x.open = S /\ x.last = l
    BY <1>3, <1>6 DEF Looks, Saves
  <2> QED
    BY <1>0, <1>8, <2>1, NamedFacts DEF Named, Shown, SavedIds, IdIn
<1>9. ASSUME u.active # old PROVE Named(y, owed)
  <2>1. /\ Tabs(y) = Tabs(u) \ {old} /\ y.retained = u.retained \cup {new} /\ y.active = u.active
        /\ y.open = S /\ y.last = l
    BY <1>3, <1>7 DEF Looks, Saves
  <2> QED
    BY <1>0, <1>9, <2>1, NamedFacts DEF Named, Shown, SavedIds, IdIn
<1> QED
  BY <1>8, <1>9 DEF x, y

LEMMA NamedUnreadable ==
    ASSUME NEW u \in UIType, Distinct(u.tabs), NEW owed, Named(u, owed), NEW bad \in Notes \cup {None},
           bad # None => bad \in Tabs(u), Tabs(u) \cap u.retained = {}, u.active \in Tabs(u) \cup {None}
    PROVE  Named(Unreadable(u, bad), owed)
BY NamedRetain DEF Unreadable

LEMMA NamedRekeyRetained ==
    ASSUME NEW u \in UIType, Distinct(u.tabs), NEW owed, Named(u, owed), NEW old \in Notes, NEW new \in Notes,
           u.active \in Tabs(u) \cup {None}
    PROVE  Named(RekeyRetained(u, old, new), owed)
<1>1. CASE old \notin u.retained \/ Has(u, old)
  BY <1>1 DEF RekeyRetained
<1>2. CASE ~(old \notin u.retained \/ Has(u, old))
  <2>0. new # None /\ old # None /\ None \notin Tabs(u) \cup u.retained /\ old \notin Tabs(u) /\ u.active # old
    BY <1>2, LastType DEF Has
  <2> DEFINE r == (u.retained \ {old}) \cup ({new} \ Tabs(u))
             w == [u EXCEPT !.retained = r]
             x == RekeyRetained(u, old, new)
  <2>1. x = Rekey(w, old, new, FALSE)
    BY <1>2 DEF RekeyRetained
  <2>2. Looks(x, Tabs(u), r, u.active)
    BY <1>2, LooksRekeyRetained
  <2> HIDE DEF x
  <2>3. w \in UIType /\ w.open = u.open /\ w.last = u.last
    BY DEF UIType
  <2> HIDE DEF w
  <2>4. PICK k : /\ k = Rekey(w, old, new, FALSE)
                 /\ Saves(k, (w.open \ {old}) \cup {new},
                          IF w.last = None THEN None ELSE IF w.last = old THEN new ELSE w.last)
    BY <2>3, SavesRekey
  <2>5. x.open = (u.open \ {old}) \cup {new} /\ x.last = IF u.last = old THEN new ELSE u.last
    BY <2>0, <2>1, <2>3, <2>4 DEF Saves
  <2>6. Named(x, owed)
    BY <2>0, <2>2, <2>5, NamedFacts DEF Looks, Named, Shown, SavedIds, IdIn
  <2> QED
    BY <2>6 DEF x
<1> QED
  BY <1>1, <1>2

LEMMA NamedReselect ==
    ASSUME NEW u \in UIType, Distinct(u.tabs), NEW owed, Named(u, owed), NEW order, NEW active
    PROVE  /\ Named(Reselect(u, order, active), owed)
           /\ Firm(u) => Firm(Reselect(u, order, active))
<1> DEFINE later == {order[j] : j \in {k \in DOMAIN order : \E i \in DOMAIN order : order[i] = active /\ i < k}}
           after == Without(u.tabs, Tabs(u) \ later)
           last == u.tabs[Len(u.tabs)]
           r == Reselect(u, order, active)
<1>1. u.tabs \in Seq(Notes) /\ None \in Id
  BY LastType DEF Id
<1>2. after \in Seq(Notes) /\ Range(after) \subseteq Tabs(u)
  BY <1>1, WithoutFacts DEF Tabs
<1>3. r = IF u.active # None THEN u
          ELSE IF u.tabs = <<>> THEN [u EXCEPT !.selected = None]
          ELSE IF active \notin Range(order) THEN Show(u, Head(u.tabs))
          ELSE IF after # <<>> THEN Show(u, Head(after))
          ELSE Show(u, last)
  BY DEF Reselect
<1> HIDE DEF after, r
<1>4. u.tabs # <<>> => Head(u.tabs) \in Tabs(u) /\ last \in Tabs(u)
  BY <1>1 DEF Tabs, Range
<1>5. after # <<>> => Head(after) \in Tabs(u)
  BY <1>2, Behind
<1> HIDE DEF last
<1>6. r = u \/ r = [u EXCEPT !.selected = None] \/ (u.active = None /\ \E n \in Tabs(u) : r = Show(u, n))
  BY <1>3, <1>4, <1>5
<1>7. Named([u EXCEPT !.selected = None], owed) /\ (Firm(u) => Firm([u EXCEPT !.selected = None]))
  BY <1>1, NamedSelected
<1>8. \A n \in Tabs(u) : Named(Show(u, n), owed) /\ (u.active = None => Firm(Show(u, n)))
  BY NamedActivate
<1>9. Named(r, owed) /\ (Firm(u) => Firm(r))
  BY <1>6, <1>7, <1>8
<1> QED
  BY <1>9 DEF r

(* Restoration ends.                                                         *)
LEMMA NamedRestored ==
    ASSUME NEW u \in UIType, u.retained = {}, NEW held \in Seq(Notes), Distinct(held), NEW retry \in SUBSET Notes
    PROVE  Named(Restored(u, held, retry), retry) /\ Firm(Restored(u, held, retry))
<1> DEFINE active == IF held = <<>> THEN None
                     ELSE IF restore.last \in Range(held) THEN restore.last ELSE Head(held)
           r == Range(held) \cup retry
           w == Restored(u, held, retry)
<1>1. active \in Range(held) \cup {None}
  BY Behind
<1>2. Range(held) \subseteq Notes
  BY DEF Range
<1>3. w = [u EXCEPT !.tabs = held, !.active = active, !.open = r, !.last = active]
  BY DEF Restored
<1> HIDE DEF active, r, w
<1>4. Tabs(w) = Range(held) /\ w.retained = {} /\ w.active = active /\ w.open = r /\ w.last = active
  BY <1>3 DEF UIType, Tabs
<1>5. Named(w, retry) /\ Firm(w)
  BY <1>1, <1>2, <1>4, NotesAssumption DEF Named, Firm, Shown, SavedIds, IdIn, r
<1> QED
  BY <1>5 DEF w

LEMMA NamedGivenBack ==
    ASSUME NEW u \in UIType, Distinct(u.tabs), u.retained = {}, u.active \in Tabs(u) \cup {None}, ~Exiting, NEW owed
    PROVE  Named(GivenBack(u), owed) /\ Firm(GivenBack(u))
<1> DEFINE x == IF Has(u, u.active) THEN u.active ELSE None
           S == Tabs(u)
           w == GivenBack(u)
<1>1. w = [u EXCEPT !.open = S, !.last = x]
  BY DEF GivenBack
<1>2. Looks(w, Tabs(u), {}, u.active)
  BY LooksGivenBack
<1>3. None \notin Tabs(u)
  BY LastType
<1>4. x \in Tabs(u) \cup {None}
  BY DEF Has
<1> HIDE DEF x, S, w
<1>5. w.open = S /\ w.last = x
  BY <1>1, SavesSet
<1>6. Named(w, owed) /\ Firm(w)
  BY <1>2, <1>3, <1>4, <1>5 DEF Looks, Named, Firm, Shown, SavedIds, IdIn, S
<1> QED
  BY <1>6 DEF w

-----------------------------------------------------------------------------
(* The Notes that an open in the queue takes the place of.                   *)
Froms(q) == {q[i].from : i \in DOMAIN q} \ {None}
Waits(q) == \A i \in DOMAIN q : q[i].pc = "queued"

LEMMA FromMoves ==
    ASSUME NEW q, TasksFit(q)
    PROVE  /\ Froms(Fence(q)) \subseteq Froms(q)
           /\ \A n : Froms(Publish(q, n)) \subseteq Froms(q)
           /\ q # <<>> => /\ Froms(Tail(q)) \subseteq Froms(q) /\ Waits(Tail(q))
                          /\ \A n : Froms(Publish(Tail(q), n)) \subseteq Froms(q)
                          /\ Froms([q EXCEPT ![1].pc = "retire"]) \subseteq Froms(q)
                          /\ Froms(<<[Head(q) EXCEPT !.pc = "core", !.fenced = FALSE]>>) \subseteq Froms(q)
<1>1. q \in Seq(TaskType) /\ DOMAIN q = 1..Len(q) /\ Len(q) \in Nat
  BY DEF TasksFit
<1>2. ASSUME NEW r \in Seq(TaskType), NEW n PROVE Froms(Publish(r, n)) \subseteq Froms(r)
  <2> DEFINE t == Task("user", n, None)
             a == Append(r, t)
  <2>1. t.from = None
    BY DEF Task
  <2> HIDE DEF t
  <2>2. /\ DOMAIN a = 1..(Len(r) + 1) /\ a[Len(r) + 1] = t
        /\ \A i \in 1..Len(r) : a[i] = r[i]
        /\ DOMAIN r = 1..Len(r) /\ Len(r) \in Nat
    OBVIOUS
  <2> HIDE DEF a
  <2>3. ASSUME NEW i \in 1..(Len(r) + 1) PROVE a[i].from = None \/ (i \in DOMAIN r /\ a[i].from = r[i].from)
    <3>1. i = Len(r) + 1 \/ i \in 1..Len(r)
      BY <2>2
    <3> QED
      BY <2>1, <2>2, <3>1
  <2>4. Froms(a) \subseteq Froms(r)
    BY <2>2, <2>3 DEF Froms
  <2> QED
    BY <2>4 DEF Publish, a, t
<1>3. Froms(Fence(q)) \subseteq Froms(q)
  <2>1. CASE q = <<>>
    BY <2>1 DEF Fence
  <2>2. CASE q # <<>>
    <3> DEFINE f == Fence(q)
    <3>1. DOMAIN f = DOMAIN q /\ \A i \in DOMAIN q : f[i].from = q[i].from
      BY <1>1, <2>2 DEF Fence, TaskType
    <3> HIDE DEF f
    <3>2. Froms(f) \subseteq Froms(q)
      BY <3>1 DEF Froms
    <3> QED
      BY <3>2 DEF f
  <2> QED
    BY <2>1, <2>2
<1>4. SUFFICES ASSUME q # <<>>
               PROVE  /\ Froms(Tail(q)) \subseteq Froms(q) /\ Waits(Tail(q))
                      /\ \A n : Froms(Publish(Tail(q), n)) \subseteq Froms(q)
                      /\ Froms([q EXCEPT ![1].pc = "retire"]) \subseteq Froms(q)
                      /\ Froms(<<[Head(q) EXCEPT !.pc = "core", !.fenced = FALSE]>>) \subseteq Froms(q)
  BY <1>1, <1>2, <1>3
<1>5. /\ Tail(q) \in Seq(TaskType) /\ Head(q) \in TaskType /\ Head(q) = q[1] /\ 1 \in DOMAIN q
      /\ \A i \in DOMAIN Tail(q) : i + 1 \in DOMAIN q /\ i + 1 # 1 /\ Tail(q)[i] = q[i + 1]
  BY <1>1, <1>4, Behind
<1>6. Froms(Tail(q)) \subseteq Froms(q) /\ Waits(Tail(q))
  BY <1>5 DEF Froms, Waits, TasksFit
<1>7. Froms([q EXCEPT ![1].pc = "retire"]) \subseteq Froms(q)
  <2> DEFINE f == [q EXCEPT ![1].pc = "retire"]
  <2>1. DOMAIN f = DOMAIN q /\ \A i \in DOMAIN q : f[i].from = q[i].from
    BY <1>1 DEF TaskType
  <2> HIDE DEF f
  <2>2. Froms(f) \subseteq Froms(q)
    BY <2>1 DEF Froms
  <2> QED
    BY <2>2 DEF f
<1>8. Froms(<<[Head(q) EXCEPT !.pc = "core", !.fenced = FALSE]>>) \subseteq Froms(q)
  <2> DEFINE t == [Head(q) EXCEPT !.pc = "core", !.fenced = FALSE]
  <2>1. t.from = q[1].from
    BY <1>5 DEF TaskType
  <2> HIDE DEF t
  <2> DEFINE r == <<t>>
  <2>2. DOMAIN r = {1} /\ r[1] = t
    OBVIOUS
  <2> HIDE DEF r
  <2>3. Froms(r) \subseteq Froms(q)
    BY <1>5, <2>1, <2>2 DEF Froms
  <2> QED
    BY <2>3 DEF r, t
<1> QED
  BY <1>2, <1>5, <1>6, <1>7, <1>8

(* What the snapshot may name beyond what is shown: all of it while a        *)
(* restoration is underway or once an exit was granted, and what restoration *)
(* could not open.                                                           *)
Owed == IF Restoring(opens) \/ exited THEN Notes ELSE restore.retry

(* A Note that a batch lost while it gave a late open back is not shown.     *)
Bygone ==
    batch # None /\ batch.gone # {} =>
        /\ Exiting /\ batch.gone \cap Shown(ui) = {}
        /\ ~Restoring(opens) /\ Handing(closes) = {} /\ Waits(opens)

Kempt ==
    /\ Named(ui, Owed)
    /\ Restoring(opens) => ui.retained = {}
    /\ Froms(opens) \cap exists = {}
    /\ Froms(opens) # {} => Firm(ui)
    /\ Bygone

LEMMA NamedGrows ==
    ASSUME NEW u, NEW owed, Named(u, owed), NEW more, owed \subseteq more
    PROVE  Named(u, more)
BY DEF Named

(* A step that leaves the restoration, or lets it give back what it holds.   *)
LEMMA KemptMoves ==
    ASSUME Kempt, Restoring(opens') <=> Restoring(opens), restore'.retry = restore.retry, exited' = exited,
           Named(ui', Owed), Restoring(opens') => ui'.retained = {},
           Froms(opens') \subseteq Froms(opens), exists' \subseteq exists,
           Firm(ui) => Firm(ui'),
           Bygone'
    PROVE  Kempt'
<1>1. Owed' = Owed
  BY DEF Owed, Restoring
<1>2. Named(ui, Owed)' <=> Named(ui', Owed')
  BY DEF Named, Shown, SavedIds, Tabs, IdIn
<1> QED
  BY <1>1, <1>2 DEF Kempt, Firm

LEMMA WaitsMoves ==
    ASSUME NEW q, TasksFit(q), Waits(q)
    PROVE  Waits(Fence(q)) /\ \A n : Waits(Publish(q, n))
<1>1. q \in Seq(TaskType) /\ DOMAIN q = 1..Len(q) /\ Len(q) \in Nat
  BY DEF TasksFit
<1>2. Waits(Fence(q))
  BY <1>1 DEF Waits, Fence, TaskType
<1>3. ASSUME NEW n PROVE Waits(Publish(q, n))
  <2> DEFINE t == Task("user", n, None)
             a == Append(q, t)
  <2>1. t.pc = "queued"
    BY DEF Task
  <2> HIDE DEF t
  <2>2. /\ DOMAIN a = 1..(Len(q) + 1) /\ a[Len(q) + 1] = t
        /\ \A i \in 1..Len(q) : a[i] = q[i]
    BY <1>1
  <2> HIDE DEF a
  <2>3. ASSUME NEW i \in 1..(Len(q) + 1) PROVE a[i].pc = "queued"
    <3>1. i = Len(q) + 1 \/ i \in 1..Len(q)
      BY <1>1
    <3> QED
      BY <1>1, <2>1, <2>2, <3>1 DEF Waits
  <2>4. Waits(a)
    BY <2>2, <2>3 DEF Waits
  <2> QED
    BY <2>4 DEF Publish, a, t
<1> QED
  BY <1>2, <1>3

(* What the queues of a step may do to an exit that has lost a Note.         *)
LEMMA BygoneMoves ==
    ASSUME Bygone, batch' = batch, Shown(ui') \subseteq Shown(ui), Restoring(opens') => Restoring(opens),
           Handing(closes') \subseteq Handing(closes), Waits(opens) => Waits(opens')
    PROVE  Bygone'
BY DEF Bygone, Exiting, Shown, Tabs, Restoring, Handing, Waits

LEMMA BygoneNone ==
    ASSUME batch' = None \/ batch'.gone = {}
    PROVE  Bygone'
BY DEF Bygone

(* What the properties need of the other invariants.                         *)
Steady == TabsInv /\ Barred /\ Kempt

LEMMA SteadyUI ==
    ASSUME Steady
    PROVE  /\ ui \in UIType /\ Distinct(ui.tabs) /\ TasksFit(opens) /\ ClosesFit(closes)
           /\ Shown(ui) \subseteq exists /\ exists \subseteq Notes
           /\ ui.active \in Tabs(ui) \cup {None} /\ Tabs(ui) \cap ui.retained = {}
           /\ Named(ui, Owed) /\ Bygone /\ restore.retry \in SUBSET Notes
           /\ ~Restoring(opens) /\ ~exited => Named(ui, restore.retry)
BY DEF Steady, TabsInv, Parts, Owners, Kempt, Owed, Shown, RestoreType

LEMMA KemptSelect == \A n \in Notes : Steady /\ Select(n) => Kempt'
<1> SUFFICES ASSUME Steady, NEW n \in Notes, Select(n) PROVE Kempt'
  OBVIOUS
<1>1. /\ ui' = [ui EXCEPT !.selected = n] /\ opens' = Publish(opens, n)
      /\ UNCHANGED <<exists, restore, batch, exited>> /\ batch = None
  BY DEF Select, Blocked, BlockedWhile, Working
<1>2. ui \in UIType /\ Distinct(ui.tabs) /\ TasksFit(opens) /\ Named(ui, Owed) /\ n \in Id
  BY SteadyUI DEF Id
<1>3. Named(ui', Owed) /\ (Firm(ui) => Firm(ui'))
  BY <1>1, <1>2, NamedSelected
<1>4. Restoring(opens') <=> Restoring(opens)
  BY <1>1, <1>2, PublishFacts DEF Same
<1>5. Froms(opens') \subseteq Froms(opens)
  BY <1>1, <1>2, FromMoves, Zenon
<1>6. ui'.retained = ui.retained
  BY <1>1, <1>2 DEF UIType
<1>7. Bygone'
  BY <1>1, BygoneNone
<1> QED
  BY <1>1, <1>3, <1>4, <1>5, <1>6, <1>7, KemptMoves DEF Steady, Kempt

(* An open goes on only when it is alone, and not while an exit waits.       *)
LEMMA AloneWhile ==
    ASSUME Steady, opens # <<>>, ~Overtaken, batch' = batch
    PROVE  Bygone' /\ Tail(opens) = <<>>
<1>1. opens \in Seq(TaskType)
  BY SteadyUI DEF TasksFit
<1>2. 1 \in DOMAIN opens /\ Head(opens) = opens[1] /\ Len(opens) \in Nat /\ Len(opens) >= 1
  <2>1. 1 \in DOMAIN opens /\ Head(opens) = opens[1]
    BY <1>1, Behind
  <2>2. Len(opens) \in Nat /\ DOMAIN opens = 1..Len(opens)
    BY <1>1
  <2> QED
    BY <2>1, <2>2
<1>3. Len(opens) = 1
  <2> DEFINE l == Len(opens)
  <2>1. l \in Nat /\ l >= 1 /\ ~(l > 1)
    BY <1>2 DEF Overtaken
  <2> HIDE DEF l
  <2>2. l = 1
    BY <2>1
  <2> QED
    BY <2>2 DEF l
<1>4. ~Exiting
  BY <1>2, Granting DEF Overtaken, LifeFree, Steady
<1>5. Bygone'
  BY <1>4 DEF Bygone, Steady, Kempt
<1> QED
  BY <1>1, <1>3, <1>5, Behind

LEMMA KemptOpenStart == Steady /\ OpenStart => Kempt'
<1> SUFFICES ASSUME Steady, OpenStart PROVE Kempt'
  OBVIOUS
<1> DEFINE t == Head(opens)
<1>0. ui \in UIType /\ Distinct(ui.tabs) /\ TasksFit(opens) /\ Shown(ui) \subseteq exists
  BY SteadyUI
<1>1. /\ opens # <<>> /\ t.pc = "queued" /\ t = opens[1] /\ t \in TaskType /\ t.kind # "restore"
      /\ t.note \in Notes /\ t.from \in Id /\ 1 \in DOMAIN opens
      /\ UNCHANGED <<exists, restore, closes, batch, exited>> /\ ~exited
  <2>1. opens # <<>> /\ t.pc = "queued" /\ UNCHANGED <<exists, restore, closes, batch, exited>> /\ ~exited
    BY DEF OpenStart, Ready
  <2>2. 1 \in DOMAIN opens
    BY <1>0, <2>1, Behind DEF TasksFit
  <2>3. t = opens[1] /\ t \in TaskType /\ (t.kind # "restore" => t.note \in Notes)
    BY <1>0, <2>1, TaskEnds
  <2> QED
    BY <1>0, <2>1, <2>2, <2>3 DEF TasksFit, TaskType
<1>2. ~Restoring(opens)
  BY <1>1 DEF Restoring
<1>3. ~Restoring(Tail(opens)) /\ Waits(Tail(opens)) /\ Froms(Tail(opens)) \subseteq Froms(opens)
  BY <1>0, <1>1, TaskEnds, NoTask, FromMoves, Zenon DEF Same
<1>4. CASE ui' = ui /\ opens' = Tail(opens)
  <2>1. Bygone'
    BY <1>1, <1>3, <1>4, BygoneMoves DEF Steady, Kempt
  <2> QED
    BY <1>1, <1>2, <1>3, <1>4, <2>1, KemptMoves DEF Steady, Kempt
<1>5. ASSUME ~Overtaken PROVE Bygone' /\ Tail(opens) = <<>>
  BY <1>1, <1>5, AloneWhile
<1>6. CASE /\ ~Overtaken
           /\ ui' = Record(Release(AppendTab([ui EXCEPT !.active = t.note], t.note), t.note), t.note, t.from)
           /\ opens' = Tail(opens)
  <2>1. Bygone' /\ Tail(opens) = <<>>
    BY <1>5, <1>6
  <2>2. t.from # None => t.from \notin Shown(ui) /\ Firm(ui)
    BY <1>0, <1>1 DEF Froms, Steady, Kempt
  <2>3. Named(ui, restore.retry)
    BY <1>1, <1>2, SteadyUI
  <2>4. Named(ui', restore.retry)
    BY <1>0, <1>1, <1>6, <2>2, <2>3, NamedRecord
  <2>5. Froms(opens') = {} /\ ~Restoring(opens')
    BY <1>6, <2>1 DEF Froms, Restoring
  <2>6. Owed' = restore.retry
    BY <1>1, <2>5 DEF Owed, Restoring
  <2>7. Named(ui, Owed)'
    BY <2>4, <2>6 DEF Named, Shown, SavedIds, Tabs, IdIn
  <2> QED
    BY <2>1, <2>5, <2>7 DEF Kempt, Froms, Restoring
<1>7. CASE /\ ~Overtaken /\ ui' = ui
           /\ opens' = <<[t EXCEPT !.pc = "core", !.fenced = FALSE]>>
  <2>1. Bygone'
    BY <1>5, <1>7
  <2>2. Froms(opens') \subseteq Froms(opens)
    BY <1>0, <1>1, <1>7, FromMoves, Zenon
  <2>3. ~Restoring(opens')
    BY <1>1, <1>7 DEF Restoring, TaskType
  <2> QED
    BY <1>1, <1>2, <1>7, <2>1, <2>2, <2>3, KemptMoves DEF Steady, Kempt
<1> QED
  BY <1>4, <1>6, <1>7 DEF OpenStart

LEMMA KemptOpenAnswered == Steady /\ OpenAnswered => Kempt'
<1> SUFFICES ASSUME Steady, OpenAnswered PROVE Kempt'
  OBVIOUS
<1> DEFINE t == opens[1]
<1>0. ui \in UIType /\ Distinct(ui.tabs) /\ TasksFit(opens) /\ Shown(ui) \subseteq exists
  BY SteadyUI
<1>1. /\ Answering({"user", "life"}, "core") /\ UNCHANGED <<exists, restore, batch, exited>> /\ ~exited
  BY DEF OpenAnswered, Answering, Settled
<1>2. /\ opens # <<>> /\ Head(opens) = t /\ t \in TaskType /\ t.kind # "restore" /\ t.pc = "core"
      /\ t.note \in Notes /\ t.from \in Id /\ 1 \in DOMAIN opens
  <2>1. /\ opens # <<>> /\ Head(opens) = t /\ t \in TaskType /\ t.kind # "restore" /\ t.pc = "core"
        /\ t.note \in Notes
    BY <1>1, Answers DEF Steady
  <2>2. 1 \in DOMAIN opens
    BY <1>0, <2>1, Behind DEF TasksFit
  <2> QED
    BY <2>1, <2>2 DEF TaskType
<1>3. ~Restoring(opens) /\ ~Waits(opens)
  BY <1>2 DEF Restoring, Waits
<1>4. CASE /\ ~Stale
           /\ ui' = Record(Release(AppendTab([ui EXCEPT !.active = t.note], t.note), t.note), t.note, t.from)
           /\ opens' = Tail(opens)
  <2>1. Bygone' /\ Tail(opens) = <<>>
    BY <1>1, <1>2, <1>4, AloneWhile DEF Stale
  <2>2. t.from # None => t.from \notin Shown(ui) /\ Firm(ui)
    BY <1>0, <1>2 DEF Froms, Steady, Kempt
  <2>3. Named(ui, restore.retry)
    BY <1>1, <1>3, SteadyUI
  <2>4. Named(ui', restore.retry)
    BY <1>0, <1>2, <1>4, <2>2, <2>3, NamedRecord
  <2>5. Froms(opens') = {} /\ ~Restoring(opens')
    BY <1>4, <2>1 DEF Froms, Restoring
  <2>6. Owed' = restore.retry
    BY <1>1, <2>5 DEF Owed, Restoring
  <2>7. Named(ui, Owed)'
    BY <2>4, <2>6 DEF Named, Shown, SavedIds, Tabs, IdIn
  <2> QED
    BY <2>1, <2>5, <2>7 DEF Kempt, Froms, Restoring
<1>5. CASE /\ opens' = [opens EXCEPT ![1].pc = "retire"] /\ UNCHANGED ui
  <2>1. Froms(opens') \subseteq Froms(opens)
    BY <1>0, <1>2, <1>5, FromMoves, Zenon
  <2>2. ~Restoring(opens')
    BY <1>0, <1>2, <1>5, TaskTurns DEF Restoring
  <2>3. Bygone'
    BY <1>1, <1>3 DEF Bygone, Steady, Kempt
  <2> QED
    BY <1>1, <1>3, <1>5, <2>1, <2>2, <2>3, KemptMoves DEF Steady, Kempt
<1> QED
  BY <1>2, <1>4, <1>5 DEF OpenAnswered

LEMMA KemptOpenFailed == Steady /\ OpenFailed => Kempt'
<1> SUFFICES ASSUME Steady, OpenFailed PROVE Kempt'
  OBVIOUS
<1>0. TasksFit(opens)
  BY SteadyUI
<1>1. /\ Answering({"user", "life"}, "core") /\ opens' = Tail(opens)
      /\ UNCHANGED <<exists, ui, restore, closes, batch, exited>>
  BY DEF OpenFailed
<1>2. opens # <<>> /\ ~Restoring(opens) /\ ~Restoring(Tail(opens))
  BY <1>1, Answers DEF Steady, Restoring
<1>3. Waits(opens') /\ Froms(opens') \subseteq Froms(opens)
  BY <1>0, <1>1, <1>2, FromMoves, Zenon
<1>4. Bygone'
  BY <1>1, <1>2, <1>3, BygoneMoves DEF Steady, Kempt
<1> QED
  BY <1>1, <1>2, <1>3, <1>4, KemptMoves DEF Steady, Kempt

(* Restoration ends, or starts to give back what it holds.                   *)
LEMMA KemptRestoreEnds ==
    ASSUME Steady, Restoring(opens), ~exited, UNCHANGED <<exists, exited>>,
           NEW u \in UIType, Distinct(u.tabs), NEW retry, RestoreEnds(u, retry),
           Named(u, retry), Firm(ui) => Firm(u), Bygone'
    PROVE  Kempt'
<1>0. TasksFit(opens) /\ opens # <<>>
  BY SteadyUI DEF Restoring
<1>1. u.active \in Id
  BY DEF UIType, Id
<1>2. /\ restore'.retry = retry
      /\ \/ ui' = [u EXCEPT !.selected = u.active] /\ opens' = Publish(Tail(opens), u.active) /\ u.active # None
         \/ ui' = u /\ opens' = Tail(opens)
  <2>1. restore' = [restore EXCEPT !.todo = {}, !.late = None, !.done = <<>>, !.retry = retry]
    BY DEF RestoreEnds
  <2>2. restore'.retry = retry
    BY <2>1 DEF Steady, TabsInv, Parts, RestoreType
  <2> QED
    BY <2>2 DEF RestoreEnds
<1>3. Named(ui', retry) /\ (Firm(ui) => Firm(ui'))
  BY <1>1, <1>2, NamedSelected
<1>4. ~Restoring(opens') /\ Froms(opens') \subseteq Froms(opens)
  <2>1. TasksFit(Tail(opens)) /\ ~Restoring(Tail(opens))
    BY <1>0, TaskEnds, NoTask DEF Same
  <2>2. u.active # None => Restoring(Publish(Tail(opens), u.active)) = FALSE
    BY <1>1, <2>1, PublishFacts DEF Same, Id
  <2> QED
    BY <1>0, <1>2, <2>1, <2>2, FromMoves, Zenon
<1>5. Owed' = retry
  BY <1>2, <1>4 DEF Owed, Restoring
<1>6. Named(ui, Owed)'
  BY <1>3, <1>5 DEF Named, Shown, SavedIds, Tabs, IdIn
<1> QED
  BY <1>3, <1>4, <1>6 DEF Kempt, Steady, Froms, Firm, Restoring

LEMMA KemptGiveBack ==
    ASSUME Steady, Restoring(opens), UNCHANGED <<exists, exited, batch>>, NEW queue, NEW late, NEW held,
           GiveBack(queue, late, held), Named(ui', Notes), ui'.retained = {}, Firm(ui) => Firm(ui')
    PROVE  Kempt'
<1>0. TasksFit(opens) /\ opens # <<>> /\ opens[1].kind = "restore"
  BY SteadyUI DEF Restoring
<1>1. Restoring(opens') /\ Froms(opens') \subseteq Froms(opens)
  BY <1>0, TaskTurns, FromMoves, Zenon DEF GiveBack, Restoring
<1>2. restore'.retry = restore.retry
  BY DEF GiveBack, Steady, TabsInv, Parts, RestoreType
<1>3. Owed = Notes
  BY DEF Owed
<1>4. Bygone'
  BY DEF Bygone, Steady, Kempt
<1> QED
  BY <1>1, <1>2, <1>3, <1>4, KemptMoves DEF Steady

(* What an exit that waits for it keeps is all that the snapshot names.      *)
LEMMA NamedKept ==
    ASSUME NEW u, NEW more, NEW owed, Named(u, more),
           SavedIds(u) \subseteq Shown(u) \cup owed, u.last \in owed \cup {None}
    PROVE  Named(u, owed)
BY DEF Named

(* While restoration opens its Notes nothing else is shown.                  *)
LEMMA SteadyRestoring ==
    ASSUME Steady, Answering({"restore"}, "core"), restore.todo # {}
    PROVE  /\ Restoring(opens) /\ ~exited /\ ui \in UIType /\ Distinct(ui.tabs)
           /\ Named(ui, Notes) /\ ui.retained = {} /\ Tabs(ui) = {} /\ ui.active = None /\ Firm(ui)
           /\ restore.done \in Seq(Notes) /\ Distinct(restore.done) /\ restore.retry \in SUBSET Notes
           /\ (batch' = batch => Bygone')
<1>1. Restoring(opens) /\ ~exited
  BY RestoringState DEF Answering, Settled, Steady
<1>2. Owed = Notes
  BY <1>1 DEF Owed
<1>3. ui \in UIType /\ Distinct(ui.tabs) /\ Named(ui, Notes) /\ ui.retained = {}
  BY <1>1, <1>2, SteadyUI DEF Steady, Kempt
<1>4. restore.done \in Seq(Notes) /\ Distinct(restore.done) /\ restore.retry \in SUBSET Notes
  BY RestoringState DEF Steady
<1>5. batch' = batch => Bygone'
  BY <1>1 DEF Bygone, Steady, Kempt
<1>6. Tabs(ui) = {} /\ ui.active = None
  BY DEF Steady, TabsInv, Owners, Shown
<1> QED
  BY <1>1, <1>3, <1>4, <1>5, <1>6 DEF Firm

LEMMA KemptRestoreAnswered == \A n \in Notes : Steady /\ RestoreAnswered(n) => Kempt'
<1> SUFFICES ASSUME Steady, NEW n \in Notes, RestoreAnswered(n) PROVE Kempt'
  OBVIOUS
<1> DEFINE held == Append(restore.done, n)
           back == <<n>> \o restore.done
<1>1. /\ Answering({"restore"}, "core") /\ n \in restore.todo /\ UNCHANGED <<exists, batch, exited>>
  BY DEF RestoreAnswered
<1>2. \/ GiveBack(closes, n, back) /\ UNCHANGED ui
      \/ /\ restore' = [restore EXCEPT !.todo = restore.todo \ {n}, !.done = held]
         /\ UNCHANGED <<ui, opens, closes>>
      \/ RestoreEnds(Restored(ui, held, restore.retry), restore.retry)
  BY DEF RestoreAnswered
<1>3. /\ Restoring(opens) /\ ~exited /\ ui \in UIType /\ Distinct(ui.tabs)
      /\ Named(ui, Notes) /\ ui.retained = {}
      /\ restore.done \in Seq(Notes) /\ Distinct(restore.done) /\ restore.retry \in SUBSET Notes
      /\ Bygone'
  BY <1>1, SteadyRestoring
<1>4. held \in Seq(Notes) /\ Distinct(held)
  <2>1. n \notin Range(restore.done)
    BY <1>1 DEF Steady, TabsInv, Parts
  <2> QED
    BY <1>3, <2>1, Appended
<1> HIDE DEF held, back
<1>5. CASE GiveBack(closes, n, back) /\ UNCHANGED ui
  BY <1>1, <1>3, <1>5, KemptGiveBack DEF Firm
<1>6. CASE /\ restore' = [restore EXCEPT !.todo = restore.todo \ {n}, !.done = held]
           /\ UNCHANGED <<ui, opens, closes>>
  <2>1. restore'.retry = restore.retry /\ Owed = Notes
    BY <1>3, <1>6 DEF Owed, Steady, TabsInv, Parts, RestoreType
  <2> QED
    BY <1>1, <1>3, <1>6, <2>1, KemptMoves DEF Steady, Firm, Froms, Restoring
<1>7. CASE RestoreEnds(Restored(ui, held, restore.retry), restore.retry)
  <2> DEFINE u == Restored(ui, held, restore.retry)
  <2>1. Named(u, restore.retry) /\ Firm(u)
    BY <1>3, <1>4, NamedRestored
  <2>2. u \in UIType /\ Distinct(u.tabs)
    BY <1>3, <1>4, LooksRestored DEF Looks
  <2>3. RestoreEnds(u, restore.retry)
    BY <1>7
  <2> HIDE DEF u
  <2> QED
    BY <1>1, <1>3, <2>1, <2>2, <2>3, KemptRestoreEnds
<1> QED
  BY <1>2, <1>5, <1>6, <1>7

LEMMA KemptRestoreFailed == \A n \in Notes : Steady /\ RestoreFailed(n) => Kempt'
<1> SUFFICES ASSUME Steady, NEW n \in Notes, RestoreFailed(n) PROVE Kempt'
  OBVIOUS
<1> DEFINE retry == restore.retry \cup ({n} \cap exists)
           u == IF n \in exists THEN ui ELSE RemoveSaved(ui, {n})
<1>1. Answering({"restore"}, "core") /\ n \in restore.todo /\ UNCHANGED <<exists, batch, exited>>
  BY DEF RestoreFailed
<1>2. \/ GiveBack(closes, None, restore.done) /\ UNCHANGED ui
      \/ RestoreEnds(GivenBack(ui), Kept)
      \/ /\ restore' = [restore EXCEPT !.todo = restore.todo \ {n}, !.retry = retry]
         /\ ui' = u /\ UNCHANGED <<opens, closes>>
      \/ RestoreEnds(Restored(u, restore.done, retry), retry)
  BY DEF RestoreFailed
<1>3. /\ Restoring(opens) /\ ~exited /\ ui \in UIType /\ Distinct(ui.tabs)
      /\ Named(ui, Notes) /\ ui.retained = {} /\ Tabs(ui) = {} /\ ui.active = None /\ Firm(ui)
      /\ restore.done \in Seq(Notes) /\ Distinct(restore.done) /\ restore.retry \in SUBSET Notes
      /\ Bygone'
  BY <1>1, SteadyRestoring
<1>4. Looks(u, {}, {}, None) /\ Named(u, Notes)
  <2>1. Looks(ui, {}, {}, None)
    BY <1>3 DEF Looks
  <2>2. Looks(RemoveSaved(ui, {n}), {}, {}, None)
    BY <1>3, LooksRemoveSaved
  <2>3. Named(RemoveSaved(ui, {n}), Notes)
    <3>1. {n} \cap Shown(ui) = {}
      BY <1>3 DEF Shown
    <3> QED
      BY <1>3, <3>1, NamedRemoveSaved
  <2> QED
    BY <1>3, <2>1, <2>2, <2>3
<1>5. retry \in SUBSET Notes
  BY <1>3
<1> HIDE DEF retry, u
<1>6. CASE GiveBack(closes, None, restore.done) /\ UNCHANGED ui
  BY <1>1, <1>3, <1>6, KemptGiveBack DEF Firm
<1>7. CASE RestoreEnds(GivenBack(ui), Kept)
  <2> DEFINE g == GivenBack(ui)
  <2>1. Looks(g, {}, {}, None)
    BY <1>3, LooksGivenBack
  <2>2. Named(g, Kept)
    <3>1. CASE Exiting
      <4>1. g = ui /\ Kept = restore.retry \cup SavedIds(ui)
        BY <3>1 DEF GivenBack, Kept
      <4>2. ui.last \in SavedIds(ui) \cup {None}
        BY DEF SavedIds, IdIn
      <4>3. Named(ui, restore.retry \cup SavedIds(ui))
        BY <1>3, <4>2, NamedKept
      <4> QED
        BY <4>1, <4>3
    <3>2. CASE ~Exiting
      BY <1>3, <3>2, NamedGivenBack
    <3> QED
      BY <3>1, <3>2
  <2>3. RestoreEnds(g, Kept)
    BY <1>7
  <2> HIDE DEF g
  <2>4. Firm(g) /\ g \in UIType /\ Distinct(g.tabs)
    BY <2>1 DEF Looks, Firm
  <2> QED
    BY <1>1, <1>3, <2>2, <2>3, <2>4, KemptRestoreEnds
<1>8. CASE /\ restore' = [restore EXCEPT !.todo = restore.todo \ {n}, !.retry = retry]
           /\ ui' = u /\ UNCHANGED <<opens, closes>>
  <2>1. Owed' = Notes
    BY <1>3, <1>8 DEF Owed, Restoring
  <2>2. Named(ui, Owed)'
    BY <1>4, <1>8, <2>1 DEF Named, Shown, SavedIds, Tabs, IdIn
  <2>3. ui'.retained = {} /\ Firm(ui)'
    BY <1>4, <1>8 DEF Looks, Firm
  <2> QED
    BY <1>1, <1>3, <1>8, <2>2, <2>3 DEF Kempt, Steady, Froms
<1>9. CASE RestoreEnds(Restored(u, restore.done, retry), retry)
  <2> DEFINE v == Restored(u, restore.done, retry)
  <2>0. u \in UIType /\ u.retained = {}
    BY <1>4 DEF Looks
  <2>1. Named(v, retry) /\ Firm(v)
    BY <1>3, <1>5, <2>0, NamedRestored
  <2>2. v \in UIType /\ Distinct(v.tabs)
    BY <1>3, <1>5, <2>0, LooksRestored DEF Looks
  <2>3. RestoreEnds(v, retry)
    BY <1>9
  <2> HIDE DEF v
  <2> QED
    BY <1>1, <1>3, <2>1, <2>2, <2>3, KemptRestoreEnds
<1> QED
  BY <1>2, <1>6, <1>7, <1>8, <1>9

LEMMA SavesPreserved ==
    ASSUME NEW u \in UIType
    PROVE  /\ \A n \in Notes : Preserve(u, n).last = u.last /\ Preserve(u, n).open = u.open \cup {n}
           /\ \A held \in Seq(Notes) : /\ PreserveAll(u, held).last = u.last
                                       /\ PreserveAll(u, held).open = u.open \cup Range(held)
<1>1. ASSUME NEW n \in Notes PROVE Preserve(u, n).last = u.last /\ Preserve(u, n).open = u.open \cup {n}
  <2> DEFINE a == AppendTab(u, n)
             v == Release(a, n)
             p == Preserve(u, n)
  <2>1. a \in UIType /\ a.open = u.open /\ a.last = u.last
    BY FitsBasics, SavesSame
  <2>2. v \in UIType /\ v.open = u.open /\ v.last = u.last
    <3> HIDE DEF a
    <3> QED
      BY <2>1, FitsBasics, SavesSame
  <2>3. p = [v EXCEPT !.open = v.open \cup {n}]
    BY DEF Preserve
  <2> HIDE DEF a, v, p
  <2>4. p.open = u.open \cup {n} /\ p.last = u.last
    BY <2>2, <2>3 DEF UIType
  <2> QED
    BY <2>4 DEF p
<1>2. ASSUME NEW held \in Seq(Notes)
      PROVE  PreserveAll(u, held).last = u.last /\ PreserveAll(u, held).open = u.open \cup Range(held)
  BY DEF PreserveAll, UIType
<1> QED
  BY <1>1, <1>2

(* A late session is being closed.                                           *)
LEMMA SteadyRetiring ==
    ASSUME Steady, CloseTurn("retire")
    PROVE  /\ opens # <<>> /\ Head(opens) = opens[1] /\ ~Waits(opens) /\ ~exited
           /\ Waits(Tail(opens)) /\ ~Restoring(Tail(opens)) /\ Froms(Tail(opens)) \subseteq Froms(opens)
           /\ Head(closes).note \in Notes \ Shown(ui) /\ Handing(Tail(closes)) = {}
           /\ Handing(closes) # {}
<1>1. closes # <<>> /\ Head(closes).kind = "retire" /\ ~exited
  BY DEF CloseTurn, Settled
<1>2. Head(closes).note \in Notes /\ Handing(closes) = {Head(closes).note} /\ Handing(Tail(closes)) = {}
  BY <1>1, CloseEnded DEF Steady, TabsInv, Parts, CloseType
<1>3. opens # <<>> /\ opens[1].pc = "retire" /\ TasksFit(opens)
  BY <1>2, SteadyUI DEF Steady, TabsInv, Turns, Retiring
<1>4. 1 \in DOMAIN opens /\ Head(opens) = opens[1]
  BY <1>3, Behind DEF TasksFit
<1>5. Waits(Tail(opens)) /\ Froms(Tail(opens)) \subseteq Froms(opens)
  BY <1>3, FromMoves, Zenon
<1>6. ~Restoring(Tail(opens))
  BY <1>3, TaskEnds, NoTask DEF Same
<1>7. Head(closes).note \notin Shown(ui)
  BY <1>2 DEF Steady, TabsInv, Owners
<1> QED
  BY <1>1, <1>2, <1>3, <1>4, <1>5, <1>6, <1>7 DEF Waits

LEMMA KemptRetireAnswered == \A end : Steady /\ RetireAnswered(end) => Kempt'
<1> SUFFICES ASSUME Steady, NEW end, RetireAnswered(end) PROVE Kempt'
  OBVIOUS
<1> DEFINE n == Head(closes).note
           rest == Tail(restore.done)
           kept == IF n = restore.late THEN rest \o (IF end = "failure" THEN <<n>> ELSE <<>>)
                   ELSE (IF end = "failure" THEN <<n>> ELSE <<>>) \o rest
           u == IF end = "failure" THEN Preserve(ui, n) ELSE ui
<1>1. CloseTurn("retire") /\ UNCHANGED <<exists, exited>>
  BY DEF RetireAnswered
<1>2. \/ /\ Head(opens).kind # "restore" /\ ui' = u
         /\ opens' = Tail(opens) /\ closes' = Tail(closes) /\ UNCHANGED <<restore, batch>>
      \/ /\ Head(opens).kind = "restore" /\ Exiting
         /\ RestoreEnds(PreserveAll(ui, kept), Kept)
         /\ closes' = Tail(closes)
         /\ batch' = [batch EXCEPT !.dirty = TRUE,
                                   !.gone = IF end = "warning" THEN @ \cup {n} ELSE @]
      \/ /\ Head(opens).kind = "restore"
         /\ GiveBack(Tail(closes), None, Tail(restore.done)) /\ ui' = u /\ UNCHANGED batch
      \/ /\ Head(opens).kind = "restore"
         /\ RestoreEnds(GivenBack(u), Kept) /\ closes' = Tail(closes) /\ UNCHANGED batch
  BY DEF RetireAnswered
<1>3. /\ opens # <<>> /\ Head(opens) = opens[1] /\ ~exited
      /\ Waits(Tail(opens)) /\ ~Restoring(Tail(opens)) /\ Froms(Tail(opens)) \subseteq Froms(opens)
      /\ n \in Notes \ Shown(ui) /\ Handing(Tail(closes)) = {} /\ Handing(closes) # {}
  BY <1>1, SteadyRetiring
<1>4. ui \in UIType /\ Distinct(ui.tabs) /\ Named(ui, Owed)
  BY SteadyUI
<1>5. batch = None \/ batch.gone = {}
  BY <1>3 DEF Bygone, Steady, Kempt
<1>6. /\ Looks(u, IF end = "failure" THEN Tabs(ui) \cup {n} ELSE Tabs(ui), ui.retained, ui.active)
      /\ u.last = ui.last /\ u.open = ui.open \cup (IF end = "failure" THEN {n} ELSE {})
      /\ Named(u, Owed) /\ (Firm(ui) => Firm(u))
  <2>1. /\ Looks(Preserve(ui, n), Tabs(ui) \cup {n}, ui.retained \ {n}, ui.active)
        /\ Preserve(ui, n).last = ui.last /\ Preserve(ui, n).open = ui.open \cup {n}
        /\ Named(Preserve(ui, n), Owed) /\ (Firm(ui) => Firm(Preserve(ui, n)))
    BY <1>3, <1>4, LooksPreserve, SavesPreserved, NamedPreserve
  <2>2. ui.retained \ {n} = ui.retained
    BY <1>3 DEF Shown
  <2>3. Looks(ui, Tabs(ui), ui.retained, ui.active)
    BY <1>4 DEF Looks
  <2> QED
    BY <1>4, <2>1, <2>2, <2>3
<1>7. ASSUME Head(opens).kind = "restore"
      PROVE  /\ Restoring(opens) /\ ui.retained = {} /\ Owed = Notes
             /\ rest \in Seq(Notes) /\ Distinct(rest) /\ n \notin Range(rest)
  <2>1. Restoring(opens)
    BY <1>3, <1>7 DEF Restoring
  <2>2. restore.done # <<>> /\ n = Head(restore.done) /\ restore.done \in Seq(Notes) /\ Distinct(restore.done)
    <3>1. n \in Handing(closes)
      BY <1>1, CloseEnded DEF CloseTurn, Steady, TabsInv, Parts
    <3> QED
      BY <1>3, <2>1, <3>1 DEF Steady, TabsInv, Turns, Parts, RestoreType
  <2>3. rest \in Seq(Notes) /\ Distinct(rest) /\ n \notin Range(rest)
    BY <2>2, Behind
  <2> QED
    BY <2>1, <2>3 DEF Owed, Steady, Kempt
<1>8. batch' = batch => Bygone'
  BY <1>5 DEF Bygone
<1> HIDE DEF n, rest, kept, u
<1>9. CASE /\ Head(opens).kind # "restore" /\ ui' = u
           /\ opens' = Tail(opens) /\ closes' = Tail(closes) /\ UNCHANGED <<restore, batch>>
  BY <1>1, <1>3, <1>6, <1>8, <1>9, KemptMoves DEF Steady, Restoring
<1>10. CASE /\ Head(opens).kind = "restore" /\ Exiting
            /\ RestoreEnds(PreserveAll(ui, kept), Kept)
            /\ closes' = Tail(closes)
            /\ batch' = [batch EXCEPT !.dirty = TRUE,
                                      !.gone = IF end = "warning" THEN @ \cup {n} ELSE @]
  <2> DEFINE own == IF end = "failure" THEN <<n>> ELSE <<>>
             owns == IF end = "failure" THEN {n} ELSE {}
             v == PreserveAll(ui, kept)
  <2>1. own \in Seq(Notes) /\ Distinct(own) /\ Range(own) = owns
    BY <1>3 DEF Distinct, Range
  <2>2. kept = rest \o own \/ kept = own \o rest
    BY DEF kept
  <2> HIDE DEF own
  <2>3. kept \in Seq(Notes) /\ Distinct(kept) /\ Range(kept) = Range(rest) \cup owns
    <3>1. Range(rest) \cap Range(own) = {} /\ Range(own) \cap Range(rest) = {}
      BY <1>7, <1>10, <2>1
    <3>2. CASE kept = rest \o own
      BY <1>7, <1>10, <2>1, <3>1, <3>2, Joined
    <3>3. CASE kept = own \o rest
      BY <1>7, <1>10, <2>1, <3>1, <3>3, Joined
    <3> QED
      BY <2>2, <3>2, <3>3
  <2>4. Looks(v, Tabs(ui) \cup Range(kept), ui.retained \ Range(kept), ui.active)
    BY <1>4, <2>3, LooksPreserveAll
  <2>5. Named(v, Notes) /\ (Firm(ui) => Firm(v))
    BY <1>4, <1>7, <1>10, <2>3, NamedPreserveAll
  <2>6. v.last = ui.last /\ v.open = ui.open \cup Range(kept)
    BY <1>4, <2>3, SavesPreserved
  <2>7. RestoreEnds(v, Kept)
    BY <1>10
  <2> HIDE DEF v
  <2>8. Named(v, Kept)
    <3>1. SavedIds(v) \subseteq Shown(v) \cup Kept /\ v.last \in Kept \cup {None}
      BY <1>10, <2>4, <2>6 DEF Looks, Shown, SavedIds, IdIn, Kept
    <3> QED
      BY <2>5, <3>1, NamedKept
  <2>9. Shown(ui') = Tabs(ui) \cup Range(kept) \cup (ui.retained \ Range(kept))
    <3>1. v \in UIType /\ v.active \in Id
      BY <2>4 DEF Looks, UIType, Id
    <3>2. ui' = v \/ ui' = [v EXCEPT !.selected = v.active]
      BY <2>7 DEF RestoreEnds
    <3>3. ui'.tabs = v.tabs /\ ui'.retained = v.retained
      BY <3>1, <3>2 DEF UIType
    <3> QED
      BY <2>4, <3>3 DEF Looks, Shown, Tabs
  <2>10. batch # None /\ batch.kind = "exit" /\ batch \in BatchType /\ Blocked
    BY <1>10, Granting DEF Exiting, Steady, TabsInv, Parts
  <2>11. batch'.kind = "exit" /\ batch'.gone \subseteq (IF end = "warning" THEN {n} ELSE {})
    BY <1>5, <1>10, <2>10 DEF BatchType
  <2>12. opens' = Tail(opens)
    BY <2>7, <2>10 DEF RestoreEnds
  <2>13. Bygone'
    <3>1. CASE end = "warning"
      <4>1. n \notin Shown(ui')
        BY <1>3, <1>7, <1>10, <2>3, <2>9, <3>1 DEF Shown
      <4>2. ~Restoring(opens') /\ Waits(opens') /\ Handing(closes') = {}
        BY <1>3, <1>10, <2>12
      <4>3. batch'.gone \cap Shown(ui') = {}
        BY <2>11, <3>1, <4>1
      <4> QED
        BY <2>11, <4>2, <4>3 DEF Bygone, Exiting, Shown, Tabs, Restoring, Handing, Waits
    <3>2. CASE end # "warning"
      BY <2>11, <3>2, BygoneNone
    <3> QED
      BY <3>1, <3>2
  <2>14. v \in UIType /\ Distinct(v.tabs)
    BY <2>4 DEF Looks
  <2> QED
    BY <1>1, <1>3, <1>7, <1>10, <2>5, <2>7, <2>8, <2>13, <2>14, KemptRestoreEnds
<1>11. CASE /\ Head(opens).kind = "restore"
            /\ GiveBack(Tail(closes), None, Tail(restore.done)) /\ ui' = u /\ UNCHANGED batch
  <2>1. Named(ui', Notes) /\ ui'.retained = {} /\ (Firm(ui) => Firm(ui'))
    BY <1>6, <1>7, <1>11 DEF Looks
  <2> QED
    BY <1>1, <1>7, <1>11, <2>1, KemptGiveBack
<1>12. CASE /\ Head(opens).kind = "restore"
            /\ RestoreEnds(GivenBack(u), Kept) /\ closes' = Tail(closes) /\ UNCHANGED batch
  <2> DEFINE g == GivenBack(u)
  <2>0. u \in UIType /\ Distinct(u.tabs) /\ u.retained = {} /\ Named(u, Notes) /\ u.active \in Tabs(u) \cup {None}
    BY <1>6, <1>7, <1>12, SteadyUI DEF Looks
  <2>1. Looks(g, Tabs(u), u.retained, u.active)
    BY <2>0, LooksGivenBack
  <2>2. Named(g, Kept) /\ (Firm(ui) => Firm(g))
    <3>1. CASE Exiting
      <4>1. g = u /\ Kept = restore.retry \cup SavedIds(ui)
        BY <3>1 DEF GivenBack, Kept
      <4>2. u.last \in SavedIds(ui) \cup {None} /\ SavedIds(u) \subseteq SavedIds(ui) \cup Shown(u)
        BY <1>6 DEF SavedIds, IdIn, Looks, Shown
      <4>3. Named(u, restore.retry \cup SavedIds(ui))
        BY <2>0, <4>2, NamedKept
      <4> QED
        BY <1>6, <4>1, <4>3
    <3>2. CASE ~Exiting
      BY <2>0, <3>2, NamedGivenBack
    <3> QED
      BY <3>1, <3>2
  <2>3. RestoreEnds(g, Kept)
    BY <1>12
  <2> HIDE DEF g
  <2>4. g \in UIType /\ Distinct(g.tabs)
    BY <2>1 DEF Looks
  <2> QED
    BY <1>1, <1>3, <1>7, <1>8, <1>12, <2>2, <2>3, <2>4, KemptRestoreEnds
<1> QED
  BY <1>2, <1>9, <1>10, <1>11, <1>12

(* What the shell may do with the tabs `u` once a close has ended.           *)
Reacts(u) ==
    \/ ui' = u /\ opens' = opens
    \/ ui' = [u EXCEPT !.selected = None] /\ opens' = opens
    \/ u.active = None /\ \E n \in Tabs(u) : ui' = Activate(u, n) /\ opens' = opens
    \/ u.active = None /\ \E n \in Tabs(u) : ui' = Show(u, n) /\ opens' = Publish(opens, n)

LEMMA AfterCloseReacts ==
    ASSUME NEW n, NEW u \in UIType, NEW a \in AnchorType, NEW q, AfterClose(n, u, a, q)
    PROVE  Reacts(u)
<1> DEFINE successor == Successor(a.order, a.id, Tabs(u))
           next == IF successor = None THEN Head(u.tabs) ELSE successor
<1>1. u.tabs # <<>> => next \in Tabs(u)
  <2>1. successor \in Tabs(u) \cup {None}
    BY SuccessorLeft DEF AnchorType
  <2>2. u.tabs # <<>> => Head(u.tabs) \in Tabs(u)
    BY LastType, Behind DEF Tabs
  <2> QED
    BY <2>1, <2>2
<1>2. \/ ui' = u /\ opens' = opens
      \/ ui' = [u EXCEPT !.selected = None] /\ opens' = opens
      \/ u.active = None /\ Has(u, u.selected) /\ ui' = Activate(u, u.selected) /\ opens' = opens
      \/ u.active = None /\ u.tabs # <<>> /\ ui' = Show(u, next) /\ opens' = Publish(opens, next)
  BY DEF AfterClose
<1> HIDE DEF next
<1> QED
  BY <1>1, <1>2 DEF Reacts, Has

LEMMA AfterCloseAllReacts ==
    ASSUME NEW u \in UIType, NEW blocked, AfterCloseAll(u, blocked)
    PROVE  Reacts(u)
<1>1. u.tabs # <<>> => Head(u.tabs) \in Tabs(u)
  BY LastType, Behind DEF Tabs
<1> QED
  BY <1>1 DEF AfterCloseAll, Reacts

LEMMA NamedReacts ==
    ASSUME TasksFit(opens), NEW u \in UIType, Distinct(u.tabs), NEW owed, Named(u, owed), Reacts(u)
    PROVE  /\ Named(ui', owed) /\ (Firm(u) => Firm(ui'))
           /\ Shown(ui') = Shown(u) /\ ui'.retained = u.retained
           /\ Restoring(opens') <=> Restoring(opens)
           /\ Froms(opens') \subseteq Froms(opens) /\ (Waits(opens) => Waits(opens'))
<1>1. CASE ui' = u /\ opens' = opens
  BY <1>1
<1>2. CASE ui' = [u EXCEPT !.selected = None] /\ opens' = opens
  <2>1. Named(ui', owed) /\ (Firm(u) => Firm(ui')) /\ Looks(ui', Tabs(u), u.retained, u.active)
    BY <1>2, NamedSelected, LooksSelected DEF Id
  <2> QED
    BY <1>2, <2>1 DEF Looks, Shown
<1>3. ASSUME u.active = None, NEW n \in Tabs(u), ui' \in {Activate(u, n), Show(u, n)}
      PROVE  /\ Named(ui', owed) /\ (Firm(u) => Firm(ui'))
             /\ Shown(ui') = Shown(u) /\ ui'.retained = u.retained
  <2>1. n \in Notes
    BY LastType
  <2>2. /\ Named(Activate(u, n), owed) /\ Named(Show(u, n), owed)
        /\ Firm(Activate(u, n)) /\ Firm(Show(u, n))
    BY <1>3, NamedActivate
  <2>3. Looks(ui', Tabs(u), u.retained, n)
    BY <1>3, <2>1, LooksActivate
  <2> QED
    BY <1>3, <2>2, <2>3 DEF Looks, Shown
<1>4. CASE u.active = None /\ \E n \in Tabs(u) : ui' = Activate(u, n) /\ opens' = opens
  BY <1>3, <1>4
<1>5. CASE u.active = None /\ \E n \in Tabs(u) : ui' = Show(u, n) /\ opens' = Publish(opens, n)
  <2>1. PICK n \in Tabs(u) : ui' = Show(u, n) /\ opens' = Publish(opens, n)
    BY <1>5
  <2>2. n \in Notes
    BY LastType
  <2>3. /\ Restoring(opens') <=> Restoring(opens)
        /\ Froms(opens') \subseteq Froms(opens) /\ (Waits(opens) => Waits(opens'))
    BY <2>1, <2>2, PublishFacts, FromMoves, WaitsMoves, Zenon DEF Same
  <2> QED
    BY <1>3, <1>5, <2>1, <2>3
<1> QED
  BY <1>1, <1>2, <1>4, <1>5 DEF Reacts

LEMMA KemptReacts ==
    ASSUME Steady, UNCHANGED <<exists, restore, batch, exited>>, Handing(closes') \subseteq Handing(closes),
           NEW u \in UIType, Distinct(u.tabs), Named(u, Owed), Firm(ui) => Firm(u),
           Shown(u) \subseteq Shown(ui), u.retained \subseteq ui.retained, Reacts(u)
    PROVE  Kempt'
<1>1. /\ Named(ui', Owed) /\ (Firm(u) => Firm(ui')) /\ Shown(ui') = Shown(u) /\ ui'.retained = u.retained
      /\ Restoring(opens') <=> Restoring(opens)
      /\ Froms(opens') \subseteq Froms(opens) /\ (Waits(opens) => Waits(opens'))
  BY SteadyUI, NamedReacts
<1>2. Bygone'
  BY <1>1, SteadyUI, BygoneMoves
<1>3. Restoring(opens') => ui'.retained = {}
  BY <1>1 DEF Steady, Kempt
<1> QED
  BY <1>1, <1>2, <1>3, KemptMoves DEF Steady

(* An admission fences the open in progress.                                 *)
LEMMA KemptFences ==
    ASSUME Steady, UNCHANGED <<exists, ui, restore, exited>>, opens' = Fence(opens),
           \/ batch' = batch /\ Handing(closes') \subseteq Handing(closes)
           \/ batch' = None \/ batch'.gone = {}
    PROVE  Kempt'
<1>1. TasksFit(opens) /\ Bygone
  BY SteadyUI
<1>2. Restoring(opens') <=> Restoring(opens)
  BY <1>1, FenceFacts DEF Same
<1>3. Froms(opens') \subseteq Froms(opens) /\ (Waits(opens) => Waits(opens'))
  BY <1>1, FromMoves, WaitsMoves, Zenon
<1>4. Bygone'
  BY <1>1, <1>2, <1>3, BygoneMoves, BygoneNone
<1> QED
  BY <1>2, <1>3, <1>4, KemptMoves DEF Steady, Kempt

LEMMA KemptCloseTab == \A n \in Notes : Steady /\ CloseTab(n) => Kempt'
<1> SUFFICES ASSUME Steady, NEW n \in Notes, CloseTab(n) PROVE Kempt'
  OBVIOUS
<1> DEFINE from == IF ui.active = n THEN [id |-> n, order |-> ui.tabs] ELSE anchor
<1>1. /\ UNCHANGED <<exists, restore, batch, exited>>
      /\ \/ AfterClose(n, ui, from, closes) /\ UNCHANGED closes
         \/ /\ closes' = Append(closes, [kind |-> "tab", note |-> n])
            /\ opens' = Fence(opens) /\ UNCHANGED ui
  BY DEF CloseTab
<1>2. ui \in UIType /\ Distinct(ui.tabs) /\ Named(ui, Owed) /\ ClosesFit(closes)
  BY SteadyUI
<1>3. from \in AnchorType
  <2>1. ui.tabs \in Seq(Notes) /\ n \in Id
    BY <1>2, LastType DEF Id
  <2>2. [id |-> n, order |-> ui.tabs] \in AnchorType
    BY <2>1 DEF AnchorType
  <2> QED
    BY <2>2 DEF Steady, TabsInv, Parts
<1> HIDE DEF from
<1>4. CASE AfterClose(n, ui, from, closes) /\ UNCHANGED closes
  <2>1. Reacts(ui)
    BY <1>2, <1>3, <1>4, AfterCloseReacts
  <2> QED
    BY <1>1, <1>2, <1>4, <2>1, KemptReacts
<1>5. CASE /\ closes' = Append(closes, [kind |-> "tab", note |-> n])
           /\ opens' = Fence(opens) /\ UNCHANGED ui
  <2>1. Handing(closes') = Handing(closes)
    BY <1>2, <1>5, CloseQueued
  <2> QED
    BY <1>1, <1>5, <2>1, KemptFences
<1> QED
  BY <1>1, <1>4, <1>5

LEMMA KemptTabClosed == \A end : Steady /\ TabClosed(end) => Kempt'
<1> SUFFICES ASSUME Steady, NEW end, TabClosed(end) PROVE Kempt'
  OBVIOUS
<1> DEFINE n == Head(closes).note
           v == Retire(ui, {n}, FALSE)
<1>1. /\ closes # <<>> /\ Head(closes).kind = "tab" /\ closes' = Tail(closes)
      /\ UNCHANGED <<exists, restore, batch, exited>>
      /\ AfterClose(n, ui, anchor, Tail(closes)) \/ AfterClose(n, v, anchor, Tail(closes))
  BY DEF TabClosed, CloseTurn
<1>2. ui \in UIType /\ Distinct(ui.tabs) /\ Named(ui, Owed) /\ anchor \in AnchorType
  BY SteadyUI DEF Steady, TabsInv, Parts
<1>3. Handing(closes') = Handing(closes) /\ n \in Notes
  BY <1>1, CloseEnded DEF Steady, TabsInv, Parts, CloseType
<1> HIDE DEF n
<1>4. CASE AfterClose(n, ui, anchor, Tail(closes))
  <2>1. Reacts(ui)
    BY <1>2, <1>4, AfterCloseReacts
  <2> QED
    BY <1>1, <1>2, <1>3, <2>1, KemptReacts
<1>5. CASE AfterClose(n, v, anchor, Tail(closes))
  <2>1. Looks(v, Tabs(ui) \ {n}, ui.retained \ {n}, IF ui.active \in {n} THEN None ELSE ui.active)
    BY <1>2, <1>3, LooksRetire
  <2>2. Named(v, Owed) /\ (Firm(ui) => Firm(v))
    BY <1>2, <1>3, NamedRetire
  <2>3. AfterClose(n, v, anchor, Tail(closes))
    BY <1>5
  <2> HIDE DEF v
  <2>4. v \in UIType /\ Distinct(v.tabs) /\ Shown(v) \subseteq Shown(ui) /\ v.retained \subseteq ui.retained
    BY <2>1 DEF Looks, Shown
  <2>5. Reacts(v)
    BY <1>2, <2>3, <2>4, AfterCloseReacts
  <2> QED
    BY <1>1, <1>3, <2>2, <2>4, <2>5, KemptReacts
<1> QED
  BY <1>1, <1>4, <1>5

LEMMA KemptCloseAllRefused == Steady /\ CloseAllRefused => Kempt'
<1> SUFFICES ASSUME Steady, CloseAllRefused PROVE Kempt'
  OBVIOUS
<1>1. AfterCloseAll(ui, TRUE) /\ UNCHANGED <<exists, restore, closes, batch, exited>>
  BY DEF CloseAllRefused
<1>2. ui \in UIType /\ Distinct(ui.tabs) /\ Named(ui, Owed)
  BY SteadyUI
<1>3. Reacts(ui)
  BY <1>1, <1>2, AfterCloseAllReacts
<1> QED
  BY <1>1, <1>2, <1>3, KemptReacts

LEMMA KemptStartBatch == \A kind, keep : Steady /\ StartBatch(kind, keep) => Kempt'
<1> SUFFICES ASSUME Steady, NEW kind, NEW keep, StartBatch(kind, keep) PROVE Kempt'
  OBVIOUS
<1>1. opens' = Fence(opens) /\ UNCHANGED <<exists, ui, restore, exited>> /\ batch'.gone = {}
  BY DEF StartBatch
<1> QED
  BY <1>1, KemptFences

LEMMA KemptGates == Steady /\ (Rescan \/ Reload \/ Answered \/ Submit) => Kempt'
<1> SUFFICES ASSUME Steady, Rescan \/ Reload \/ Answered \/ Submit PROVE Kempt'
  OBVIOUS
<1>1. CASE Rescan \/ Submit
  <2>1. opens' = Fence(opens) /\ UNCHANGED <<exists, ui, restore, closes, batch, exited>>
    BY <1>1 DEF Rescan, Submit
  <2> QED
    BY <2>1, KemptFences
<1>2. CASE Reload \/ Answered
  <2>1. UNCHANGED <<exists, ui, opens, restore, closes, batch, exited>>
    BY <1>2 DEF Reload, Answered
  <2>2. Bygone'
    BY <2>1, BygoneMoves DEF Steady, Kempt
  <2> QED
    BY <2>1, <2>2, KemptMoves DEF Steady, Kempt
<1> QED
  BY <1>1, <1>2

(* The turn of a batch: no open is in progress.                              *)
LEMMA SteadyBatch ==
    ASSUME Steady, BatchTurn \/ (opens = <<>> /\ batch # None /\ ~exited)
    PROVE  /\ opens = <<>> /\ ~exited /\ batch \in BatchType /\ Owed = restore.retry
           /\ ui \in UIType /\ Distinct(ui.tabs) /\ ui.active \in Tabs(ui) \cup {None}
           /\ Named(ui, restore.retry) /\ Froms(opens) = {} /\ ~Restoring(opens)
           /\ batch.gone \cap Shown(ui) = {}
<1>1. opens = <<>> /\ ~exited /\ batch # None
  BY DEF BatchTurn, Settled
<1>2. Froms(opens) = {} /\ ~Restoring(opens)
  BY <1>1 DEF Froms, Restoring
<1>3. batch \in BatchType /\ batch.gone \cap Shown(ui) = {}
  BY <1>1 DEF Steady, TabsInv, Parts, Kempt, Bygone
<1> QED
  BY <1>1, <1>2, <1>3, SteadyUI DEF Owed

LEMMA KemptBatchEnds ==
    ASSUME Steady, opens = <<>>, ~exited, UNCHANGED <<exists, restore, exited>>, batch' = None,
           ~Restoring(opens'), Froms(opens') = {}, Named(ui', restore.retry)
    PROVE  Kempt'
<1>1. Owed' = restore.retry
  BY DEF Owed, Restoring
<1>2. Named(ui, Owed)'
  BY <1>1 DEF Named, Shown, SavedIds, Tabs, IdIn
<1>3. Bygone'
  BY BygoneNone
<1> QED
  BY <1>2, <1>3 DEF Kempt, Froms, Restoring

LEMMA KemptBatchReacts ==
    ASSUME Steady, BatchTurn, UNCHANGED <<exists, restore, exited>>, batch' = None,
           NEW u \in UIType, Distinct(u.tabs), Named(u, restore.retry), AfterBatch(u)
    PROVE  Kempt'
<1>1. opens = <<>> /\ ~exited /\ Froms(opens) = {} /\ ~Restoring(opens) /\ TasksFit(opens)
  BY SteadyBatch, SteadyUI
<1>2. Reacts(u)
  BY AfterCloseAllReacts DEF AfterBatch, Reacts
<1>3. Named(ui', restore.retry) /\ ~Restoring(opens') /\ Froms(opens') = {}
  BY <1>1, <1>2, NamedReacts
<1> QED
  BY <1>1, <1>3, KemptBatchEnds

LEMMA KemptBatchOff == Steady /\ BatchOff => Kempt'
<1> SUFFICES ASSUME Steady, BatchOff PROVE Kempt'
  OBVIOUS
<1> DEFINE v == RemoveSaved(ui, batch.gone)
           order == ui.tabs
           was == ui.active
           w == Reselect(v, order, was)
<1>1. /\ BatchTurn \/ (opens = <<>> /\ batch # None /\ ~exited)
      /\ batch' = None /\ ui' \in {ui, w}
      /\ UNCHANGED <<exists, opens, restore, closes, exited>>
  BY DEF BatchOff, Soiled
<1>2. /\ opens = <<>> /\ ~exited /\ ui \in UIType /\ Distinct(ui.tabs) /\ ui.active \in Tabs(ui) \cup {None}
      /\ Named(ui, restore.retry) /\ Froms(opens) = {} /\ ~Restoring(opens)
      /\ batch.gone \cap Shown(ui) = {}
  BY <1>1, SteadyBatch
<1>3. Looks(v, Tabs(ui), ui.retained, ui.active) /\ Named(v, restore.retry)
  BY <1>2, LooksRemoveSaved, NamedRemoveSaved
<1> HIDE DEF v, order, was
<1>4. Named(w, restore.retry)
  BY <1>3, NamedReselect DEF Looks
<1>5. Named(ui', restore.retry)
  BY <1>1, <1>2, <1>4
<1>6. ~Restoring(opens') /\ Froms(opens') = {}
  BY <1>1, <1>2
<1> QED
  BY <1>1, <1>2, <1>5, <1>6, KemptBatchEnds

(* What an exit keeps in the snapshot names what it has closed.              *)
LEMMA NamedExit ==
    ASSUME NEW u \in UIType, NEW owed, Named(u, owed), NEW gone \in SUBSET Notes
    PROVE  Named(Retire(u, gone, TRUE), Notes)
<1> DEFINE t == Without(u.tabs, gone)
           r == u.retained \ gone
           a == IF u.active \in gone THEN None ELSE u.active
           w == Retire(u, gone, TRUE)
<1>1. w = [u EXCEPT !.tabs = t, !.retained = r, !.active = a]
  BY DEF Retire
<1>2. Range(t) = Tabs(u) \ gone
  BY LastType, WithoutFacts DEF Tabs
<1>3. u.open \subseteq Notes /\ u.last \in Notes \cup {None} /\ u.retained \subseteq Notes /\ None \notin Notes
      /\ Tabs(u) \subseteq Notes
  BY LastType DEF UIType, Id
<1> HIDE DEF t, r, w
<1>4. Tabs(w) = Tabs(u) \ gone /\ w.retained = r /\ w.active = a /\ w.open = u.open /\ w.last = u.last
  BY <1>1, <1>2 DEF Tabs, UIType
<1>5. Tabs(u) \cup u.retained \subseteq u.open \cup ({u.active} \cap {u.last})
  BY DEF Named, Shown
<1>6. Named(w, Notes)
  BY <1>3, <1>4, <1>5 DEF Named, Shown, SavedIds, IdIn, r
<1> QED
  BY <1>6 DEF w

LEMMA KemptBatchClosed == \A saved : Steady /\ BatchClosed(saved) /\ "unsaved" \notin history'.quirks
                                     /\ HistoryFits => Kempt'
<1> SUFFICES ASSUME Steady, NEW saved, BatchClosed(saved), "unsaved" \notin history'.quirks, HistoryFits
             PROVE  Kempt'
  OBVIOUS
<1> DEFINE gone == Batched
           u == Retire(ui, gone, Exiting)
<1>1. /\ BatchTurn /\ (batch.kind = "others" => Has(ui, batch.keep)) /\ batch' = None
      /\ UNCHANGED <<exists, restore, closes>>
      /\ \/ batch.kind = "all" /\ AfterBatch(u) /\ UNCHANGED exited
         \/ /\ batch.kind = "others" /\ UNCHANGED exited
            /\ ui' = Show(u, batch.keep) /\ opens' = Publish(opens, batch.keep)
         \/ Exiting /\ ui' = u /\ exited' = TRUE /\ UNCHANGED opens
         \/ history' = [history EXCEPT !.quirks = @ \cup {"unsaved"}]
  BY DEF BatchClosed, BatchMayClose
<1>2. ~(history' = [history EXCEPT !.quirks = @ \cup {"unsaved"}])
  BY DEF HistoryFits
<1>3. /\ opens = <<>> /\ ~exited /\ ui \in UIType /\ Distinct(ui.tabs) /\ ui.active \in Tabs(ui) \cup {None}
      /\ Named(ui, restore.retry) /\ Froms(opens) = {} /\ ~Restoring(opens) /\ TasksFit(opens)
  BY <1>1, SteadyBatch, SteadyUI
<1>4. gone \in SUBSET Notes /\ (batch.kind = "others" => batch.keep \in Tabs(ui) \ gone)
  <2>1. Tabs(ui) \in SUBSET Notes /\ ui.retained \in SUBSET Notes
    BY <1>3, LastType
  <2> QED
    BY <1>1, <2>1 DEF Batched, Has
<1> HIDE DEF gone
<1>5. ASSUME ~Exiting
      PROVE  /\ u \in UIType /\ Distinct(u.tabs) /\ Tabs(u) = Tabs(ui) \ gone /\ Named(u, restore.retry)
  <2>1. u = Retire(ui, gone, FALSE)
    BY <1>5 DEF Retire
  <2> HIDE DEF u
  <2>2. Looks(u, Tabs(ui) \ gone, ui.retained \ gone, IF ui.active \in gone THEN None ELSE ui.active)
    BY <1>3, <1>4, <2>1, LooksRetire
  <2>3. Named(u, restore.retry)
    BY <1>3, <1>4, <2>1, NamedRetire
  <2> QED
    BY <2>2, <2>3 DEF Looks
<1>6. Exiting => u = Retire(ui, gone, TRUE)
  BY DEF Retire
<1> HIDE DEF u
<1>7. CASE batch.kind = "all" /\ AfterBatch(u) /\ UNCHANGED exited
  <2>1. ~Exiting
    BY <1>7 DEF Exiting
  <2> QED
    BY <1>1, <1>5, <1>7, <2>1, KemptBatchReacts
<1>8. CASE /\ batch.kind = "others" /\ UNCHANGED exited
           /\ ui' = Show(u, batch.keep) /\ opens' = Publish(opens, batch.keep)
  <2>1. ~Exiting
    BY <1>8 DEF Exiting
  <2>2. batch.keep \in Tabs(u) /\ batch.keep \in Notes
    BY <1>3, <1>4, <1>5, <1>8, <2>1, LastType
  <2>3. Named(ui', restore.retry)
    BY <1>5, <1>8, <2>1, <2>2, NamedActivate
  <2>4. Froms(opens') = {} /\ ~Restoring(opens')
    BY <1>3, <1>8, <2>2, FromMoves, PublishFacts, Zenon DEF Same
  <2> QED
    BY <1>1, <1>3, <1>8, <2>3, <2>4, KemptBatchEnds
<1>9. CASE Exiting /\ ui' = u /\ exited' = TRUE /\ UNCHANGED opens
  <2>1. Named(ui', Notes)
    BY <1>3, <1>4, <1>6, <1>9, NamedExit
  <2>2. Owed' = Notes
    BY <1>9 DEF Owed
  <2>3. Named(ui, Owed)'
    BY <2>1, <2>2 DEF Named, Shown, SavedIds, Tabs, IdIn
  <2>4. Bygone'
    BY <1>1, BygoneNone
  <2> QED
    BY <1>1, <1>3, <1>9, <2>3, <2>4 DEF Kempt, Froms, Restoring
<1> QED
  BY <1>1, <1>2, <1>7, <1>8, <1>9

LEMMA KemptBatchCancelled ==
    \A bad \in Notes, before \in SUBSET Notes : \A end : Steady /\ BatchCancelled(bad, before, end) => Kempt'
<1> SUFFICES ASSUME Steady, NEW bad \in Notes, NEW before \in SUBSET Notes, NEW end,
                    BatchCancelled(bad, before, end)
             PROVE  Kempt'
  OBVIOUS
<1> DEFINE gone == before \cup (IF end = "warning" THEN {bad} ELSE {})
           u == Retire(ui, gone, FALSE)
           order == ui.tabs
           was == ui.active
           v == Reselect(u, order, was)
<1>1. /\ BatchTurn /\ batch' = None /\ AfterBatch(v)
      /\ UNCHANGED <<exists, restore, closes, exited>>
  <2>1. BatchMayClose /\ UNCHANGED <<exists, restore, closes, exited>> /\ batch' = None
    BY DEF BatchCancelled
  <2>2. AfterBatch(v)
    BY DEF BatchCancelled
  <2> QED
    BY <2>1, <2>2 DEF BatchMayClose
<1>2. ui \in UIType /\ Distinct(ui.tabs) /\ Named(ui, restore.retry) /\ ui.active \in Tabs(ui) \cup {None}
  BY <1>1, SteadyBatch
<1>3. gone \in SUBSET Notes
  OBVIOUS
<1> HIDE DEF gone, order, was
<1>4. /\ Looks(u, Tabs(ui) \ gone, ui.retained \ gone, IF ui.active \in gone THEN None ELSE ui.active)
      /\ Named(u, restore.retry)
  BY <1>2, <1>3, LooksRetire, NamedRetire
<1> HIDE DEF u
<1>5. u \in UIType /\ Distinct(u.tabs) /\ u.active \in Tabs(u) \cup {None}
  BY <1>2, <1>4 DEF Looks
<1>6. v \in UIType /\ Distinct(v.tabs)
  BY <1>5, LooksReselect
<1>7. Named(v, restore.retry)
  BY <1>4, <1>5, NamedReselect
<1> HIDE DEF v
<1> QED
  BY <1>1, <1>6, <1>7, KemptBatchReacts

(* At the turn of an action nothing is being opened, and no batch waits.     *)
LEMMA SteadyBody ==
    ASSUME Steady, opens = <<>>, actions # <<>>, ~exited
    PROVE  /\ Named(ui, restore.retry) /\ batch = None
           /\ ui \in UIType /\ Distinct(ui.tabs) /\ Tabs(ui) \cap ui.retained = {}
           /\ ui.active \in Tabs(ui) \cup {None} /\ Shown(ui) \subseteq exists /\ exists \subseteq Notes
           /\ Tabs(ui) \in SUBSET Notes /\ None \notin Notes /\ None \in Id
<1>1. ~Restoring(opens)
  BY DEF Restoring
<1>2. ui \in UIType /\ Named(ui, restore.retry)
  BY <1>1, SteadyUI
<1>3. Tabs(ui) \in SUBSET Notes /\ None \notin Notes
  BY <1>2, LastType
<1> QED
  BY <1>2, <1>3, SteadyUI DEF Steady, Barred, Id

LEMMA KemptOpening ==
    ASSUME Steady, opens = <<>>, actions # <<>>, ~exited, UNCHANGED <<restore, batch, exited>>,
           NEW u, Named(u, restore.retry), NEW pc, NEW old, NEW new, NEW from,
           from # None => from \notin exists' /\ Firm(u), Opening(u, pc, old, new, from)
    PROVE  Kempt'
<1> DEFINE t == Task("life", new, from)
<1>1. t.from = from /\ t.kind = "life"
  BY DEF Task
<1>2. opens' = <<t>> /\ ui' = u
  BY DEF Opening
<1> HIDE DEF t
<1>3. DOMAIN opens' = {1} /\ opens'[1] = t
  BY <1>2
<1>4. Froms(opens') = {from} \ {None} /\ ~Restoring(opens')
  BY <1>1, <1>3 DEF Froms, Restoring
<1>5. batch' = None
  BY SteadyBody
<1>6. Owed' = restore.retry
  BY <1>4 DEF Owed, Restoring
<1>7. Named(ui, Owed)'
  BY <1>2, <1>6 DEF Named, Shown, SavedIds, Tabs, IdIn
<1>8. Froms(opens') \cap exists' = {} /\ (Froms(opens') # {} => Firm(ui'))
  BY <1>2, <1>4
<1>9. Bygone'
  BY <1>5, BygoneNone
<1> QED
  BY <1>4, <1>7, <1>8, <1>9 DEF Kempt, Froms, Firm, Restoring

LEMMA KemptBody ==
    ASSUME Steady, opens = <<>>, actions # <<>>, ~exited, UNCHANGED <<restore, batch, exited>>,
           NEW u, Named(u, restore.retry), Ends(u) \/ AfterSuccess(u)
    PROVE  Kempt'
<1>1. CASE Ends(u)
  <2>1. ui' = u /\ opens' = <<>>
    BY <1>1 DEF Ends
  <2>2. Froms(opens') = {} /\ ~Restoring(opens')
    BY <2>1 DEF Froms, Restoring
  <2>3. Owed' = restore.retry
    BY <2>2 DEF Owed, Restoring
  <2>4. Named(ui, Owed)'
    BY <2>1, <2>3 DEF Named, Shown, SavedIds, Tabs, IdIn
  <2>5. Bygone'
    BY SteadyBody, BygoneNone
  <2> QED
    BY <2>2, <2>4, <2>5 DEF Kempt, Froms, Firm, Restoring
<1>2. CASE ~Ends(u)
  <2>1. Opening(u, "restored", None, u.selected, None)
    BY <1>2 DEF AfterSuccess
  <2> QED
    BY <2>1, KemptOpening
<1> QED
  BY <1>1, <1>2

LEMMA KemptBodies == Steady /\ (RequestFails \/ Other \/ ActionRestored) => Kempt'
<1> SUFFICES ASSUME Steady, RequestFails \/ Other \/ ActionRestored PROVE Kempt'
  OBVIOUS
<1>1. /\ opens = <<>> /\ actions # <<>> /\ ~exited /\ UNCHANGED <<exists, restore, batch, exited>>
      /\ Ends(ui) \/ AfterSuccess(ui) \/ Opening(ui, "restored", None, ui.selected, None)
  BY DEF RequestFails, AfterRequestFailed, Turn, Settled, BodyUnchanged, Other, ActionRestored, Resumes,
         BodyPaused, ResumeUnchanged
<1>2. Named(ui, restore.retry)
  BY <1>1, SteadyBody
<1> QED
  BY <1>1, <1>2, KemptBody, KemptOpening

LEMMA KemptRequest == Steady /\ Request => Kempt'
<1> SUFFICES ASSUME Steady, Request PROVE Kempt'
  OBVIOUS
<1>1. UNCHANGED <<exists, ui, opens, restore, closes, batch, exited>>
  BY DEF Request
<1>2. Bygone'
  BY <1>1, BygoneMoves DEF Steady, Kempt
<1> QED
  BY <1>1, <1>2, KemptMoves DEF Steady, Kempt

LEMMA KemptCreate == \A n \in Notes : Steady /\ Create(n) => Kempt'
<1> SUFFICES ASSUME Steady, NEW n \in Notes, Create(n) PROVE Kempt'
  OBVIOUS
<1>1. /\ opens = <<>> /\ actions # <<>> /\ ~exited
      /\ Opening(ui, "created", None, n, None) \/ UNCHANGED <<ui, opens>>
      /\ UNCHANGED <<restore, batch, exited>>
  BY DEF Create, Turn, Settled, BodyUnchanged
<1>2. Named(ui, restore.retry)
  BY <1>1, SteadyBody
<1>3. CASE UNCHANGED <<ui, opens>>
  <2>1. Froms(opens') = {} /\ ~Restoring(opens')
    BY <1>1, <1>3 DEF Froms, Restoring
  <2>2. Owed' = restore.retry
    BY <1>1, <2>1 DEF Owed, Restoring
  <2>3. Named(ui, Owed)'
    BY <1>2, <1>3, <2>2 DEF Named, Shown, SavedIds, Tabs, IdIn
  <2>4. Bygone'
    BY <1>1, SteadyBody, BygoneNone
  <2> QED
    BY <2>1, <2>3, <2>4 DEF Kempt, Froms, Firm, Restoring
<1> QED
  BY <1>1, <1>2, <1>3, KemptOpening

LEMMA KemptDelete == \A n \in Notes : Steady /\ Delete(n) => Kempt'
<1> SUFFICES ASSUME Steady, NEW n \in Notes, Delete(n) PROVE Kempt'
  OBVIOUS
<1> DEFINE left == Tabs(ui) \ {n}
           order == ui.tabs
           next == IF ui.active = n THEN Successor(order, n, left) ELSE None
           v == Discard(ui, n)
           u == Unselect(v, n)
<1>1. /\ opens = <<>> /\ actions # <<>> /\ ~exited
      /\ Ends(ui) \/ AfterSuccess(u) \/ (next # None /\ AfterSuccess(Show(u, next)))
      /\ UNCHANGED <<restore, batch, exited>>
  BY DEF Delete, Turn, Settled, BodyUnchanged
<1>2. /\ Named(ui, restore.retry) /\ ui \in UIType /\ Distinct(ui.tabs) /\ Tabs(ui) \cap ui.retained = {}
      /\ ui.active \in Tabs(ui) \cup {None} /\ None \notin Notes
  BY <1>1, SteadyBody
<1>3. next \in left \cup {None}
  <2>1. order \in Seq(Notes)
    BY <1>2, LastType
  <2> HIDE DEF order, left
  <2> QED
    BY <2>1, SuccessorLeft
<1> HIDE DEF next, order
<1>4. v \in UIType /\ Distinct(v.tabs) /\ Tabs(v) = left /\ v.active # n /\ v.active \in left \cup {None}
  <2>1. Looks(v, Tabs(ui) \ {n}, IF ui.active = n THEN ui.retained ELSE ui.retained \ {n},
              IF ui.active = n THEN None ELSE ui.active)
    BY <1>2, LooksDiscard
  <2> HIDE DEF v
  <2> QED
    BY <1>2, <2>1 DEF Looks
<1>5. Named(v, restore.retry)
  BY <1>2, NamedDiscard
<1> HIDE DEF v, left
<1>6. Named(u, restore.retry)
  BY <1>4, <1>5, NamedUnselect
<1>7. u \in UIType /\ Distinct(u.tabs) /\ Tabs(u) = left
  BY <1>4, LooksUnselect DEF Looks
<1> HIDE DEF u
<1>8. next # None => Named(Show(u, next), restore.retry)
  BY <1>3, <1>6, <1>7, NamedActivate
<1> QED
  BY <1>1, <1>2, <1>6, <1>8, KemptBody

LEMMA KemptRename ==
    \A old, new \in Notes, bad \in Notes \cup {None} :
        Steady /\ HistoryFits /\ Calm' /\ Rename(old, new, bad) => Kempt'
<1> SUFFICES ASSUME Steady, HistoryFits, Calm', NEW old \in Notes, NEW new \in Notes,
                    NEW bad \in Notes \cup {None}, Rename(old, new, bad)
             PROVE  Kempt'
  OBVIOUS
<1> DEFINE adopted == Adopt(ui, new, old)
           taken == [adopted EXCEPT !.selected = new]
           u == IF ui.active = old THEN taken ELSE ReplaceTab(ui, old, new)
           now == Reidentified(Tabs(ui), old, new)
           waits == ui.active = None /\ ui.selected = old
           homes == IF old \in ui.retained \ Tabs(ui) THEN {"rehomed"} ELSE {}
           doubles == IF waits /\ Has(ui, old) THEN {"twice"} ELSE {}
           missed == Missed(old)
           faulted == history.excused \/ bad # None
<1>1. /\ opens = <<>> /\ actions # <<>> /\ ~exited
      /\ old \in exists /\ new \in Notes \ exists
      /\ exists' = Reidentified(exists, old, new)
      /\ UNCHANGED <<restore, batch, exited>>
      /\ \/ Ends(ui)
         \/ waits /\ Opening(ui, "renamed", old, new, old)
         \/ ~waits /\ bad = None /\ AfterSuccess(u)
         \/ ~waits /\ bad # None /\ bad \in Tabs(u) \ {new} /\ Ends(Unreadable(u, bad))
  BY DEF Rename, Turn, Settled, BodyUnchanged, Reidentify
<1>2. /\ Named(ui, restore.retry) /\ ui \in UIType /\ Distinct(ui.tabs) /\ Tabs(ui) \cap ui.retained = {}
      /\ ui.active \in Tabs(ui) \cup {None} /\ Shown(ui) \subseteq exists /\ exists \subseteq Notes
      /\ None \notin Notes
  BY <1>1, SteadyBody
<1>3. history' = [history EXCEPT !.excused = faulted, !.quirks = @ \cup homes \cup doubles \cup missed]
  BY DEF Rename
<1>4. homes = {}
  <2> HIDE DEF homes, doubles, missed, faulted
  <2>1. homes \cap Disowning = {}
    BY <1>3 DEF HistoryFits, Calm
  <2> QED
    BY <2>1 DEF homes, Disowning
<1>5. old \notin ui.retained
  <2>1. old \in ui.retained \ Tabs(ui) => homes = {"rehomed"}
    OBVIOUS
  <2> QED
    BY <1>2, <1>4, <2>1
<1> HIDE DEF homes, doubles, missed, faulted
<1>6. new # old /\ new \notin Shown(ui) /\ new # None
  BY <1>1, <1>2
<1>7. CASE waits /\ Opening(ui, "renamed", old, new, old)
  <2>1. old \notin exists' /\ Firm(ui)
    BY <1>1, <1>6, <1>7 DEF Reidentified, Firm
  <2> QED
    BY <1>1, <1>2, <1>7, <2>1, KemptOpening
<1>11. CASE Ends(ui)
  BY <1>1, <1>2, <1>11, KemptBody
<1>8. /\ u \in UIType /\ Distinct(u.tabs) /\ u.active \in Tabs(u) \cup {None} /\ Tabs(u) \cap u.retained = {}
      /\ Named(u, restore.retry)
  <2>1. CASE ui.active = old
    <3>1. Looks(adopted, now, ui.retained \ {new}, new)
      BY <1>2, <1>6, LooksAdopt DEF Shown
    <3>2. Named(adopted, restore.retry)
      BY <1>2, <1>5, <1>6, <2>1, NamedAdopt
    <3> HIDE DEF adopted
    <3>3. Looks(taken, now, ui.retained \ {new}, new) /\ Named(taken, restore.retry)
      BY <3>1, <3>2, LooksSelected, NamedSelected DEF Looks, Id
    <3>4. u = taken
      BY <2>1
    <3> HIDE DEF taken, u
    <3>5. new \in now /\ now \cap (ui.retained \ {new}) = {}
      BY <1>2, <1>6, <2>1 DEF Reidentified
    <3> HIDE DEF now
    <3> QED
      BY <3>3, <3>4, <3>5 DEF Looks
  <2>2. CASE ui.active # old
    <3> DEFINE r == ReplaceTab(ui, old, new)
    <3>1. Looks(r, now, IF Has(ui, old) THEN ui.retained \ {new} ELSE ui.retained, ui.active)
      BY <1>2, <1>6, LooksReplaceTab DEF Shown
    <3>2. Named(r, restore.retry)
      BY <1>2, <1>5, <1>6, <2>2, NamedReplaceTab
    <3>3. u = r
      BY <2>2
    <3> HIDE DEF r, u
    <3>4. ui.active \in now \cup {None} /\ now \cap ui.retained = {}
      BY <1>2, <1>6, <2>2 DEF Reidentified, Shown
    <3> HIDE DEF now
    <3> QED
      BY <3>1, <3>2, <3>3, <3>4 DEF Looks
  <2> QED
    BY <2>1, <2>2
<1> HIDE DEF u, now
<1>9. CASE ~waits /\ bad = None /\ AfterSuccess(u)
  BY <1>1, <1>8, <1>9, KemptBody
<1>10. CASE ~waits /\ bad # None /\ bad \in Tabs(u) \ {new} /\ Ends(Unreadable(u, bad))
  <2>1. Named(Unreadable(u, bad), restore.retry)
    BY <1>8, <1>10, NamedUnreadable
  <2> QED
    BY <1>1, <1>10, <2>1, KemptBody
<1> QED
  BY <1>1, <1>7, <1>9, <1>10, <1>11

LEMMA KemptActionRenamed == \A bad \in Notes \cup {None} : Steady /\ ActionRenamed(bad) => Kempt'
<1> SUFFICES ASSUME Steady, NEW bad \in Notes \cup {None}, ActionRenamed(bad) PROVE Kempt'
  OBVIOUS
<1> DEFINE old == actions[1].old
           new == actions[1].new
           s == [ui EXCEPT !.selected = new]
           u == ReplaceTab(s, old, new)
<1>1. /\ opens = <<>> /\ actions # <<>> /\ actions[1].pc = "renamed" /\ ~exited
      /\ UNCHANGED <<exists, restore, batch, exited>>
      /\ \/ Ends(ui)
         \/ bad \in Tabs(u) \cup {None} /\ Ends(Unreadable(u, bad))
  BY DEF ActionRenamed, Resumes, BodyPaused, ResumeUnchanged
<1>2. /\ Named(ui, restore.retry) /\ ui \in UIType /\ Distinct(ui.tabs) /\ Tabs(ui) \cap ui.retained = {}
      /\ ui.active \in Tabs(ui) \cup {None} /\ Shown(ui) \subseteq exists
  BY <1>1, SteadyBody
<1>3. old \in Notes \ exists /\ new \in Notes
  <2>1. actions \in Seq(ActionType)
    BY DEF Steady, TabsInv, Parts, ActionsFit
  <2>2. 1 \in DOMAIN actions
    BY <1>1, <2>1, Behind
  <2> QED
    BY <1>1, <2>2 DEF Steady, TabsInv, Parts, ActionsFit
<1> HIDE DEF old, new
<1>4. Looks(s, Tabs(ui), ui.retained, ui.active) /\ Named(s, restore.retry)
  BY <1>2, <1>3, LooksSelected, NamedSelected DEF Id
<1> HIDE DEF s
<1>5. u = s
  <2>1. ~Has(s, old)
    BY <1>2, <1>3, <1>4 DEF Has, Looks, Shown
  <2> QED
    BY <2>1 DEF ReplaceTab
<1> HIDE DEF u
<1>6. bad \in Tabs(u) \cup {None} => Named(Unreadable(u, bad), restore.retry)
  BY <1>2, <1>4, <1>5, NamedUnreadable DEF Looks
<1> QED
  BY <1>1, <1>2, <1>6, KemptBody

LEMMA KemptActionCreated == \A end : Steady /\ ActionCreated(end) => Kempt'
<1> SUFFICES ASSUME Steady, NEW end, ActionCreated(end) PROVE Kempt'
  OBVIOUS
<1> DEFINE n == actions[1].new
           u == Discard(ui, n)
<1>1. /\ opens = <<>> /\ actions # <<>> /\ actions[1].pc \in {"created", "unadopted"} /\ ~exited
      /\ UNCHANGED <<exists, restore, batch, exited>>
      /\ \/ Ends(ui)
         \/ Ends([ui EXCEPT !.selected = n])
         \/ Ends([ui EXCEPT !.selected = ui.active])
         \/ (ui.active = n \/ Has(ui, n)) /\ Ends(Show(ui, n))
         \/ Has(ui, ui.selected) /\ Ends(Activate(ui, ui.selected))
         \/ Has(u, u.selected) /\ Ends(Activate(u, u.selected))
         \/ Ends([u EXCEPT !.selected = u.active])
  BY DEF ActionCreated, Resumes, BodyPaused, ResumeUnchanged
<1>2. /\ Named(ui, restore.retry) /\ ui \in UIType /\ Distinct(ui.tabs) /\ Tabs(ui) \cap ui.retained = {}
      /\ ui.active \in Tabs(ui) \cup {None} /\ None \notin Notes
  BY <1>1, SteadyBody
<1>3. n \in Notes
  <2>1. actions \in Seq(ActionType)
    BY DEF Steady, TabsInv, Parts, ActionsFit
  <2>2. 1 \in DOMAIN actions
    BY <1>1, <2>1, Behind
  <2> QED
    BY <1>1, <2>2 DEF Steady, TabsInv, Parts, ActionsFit
<1> HIDE DEF n
<1>4. u \in UIType /\ Distinct(u.tabs) /\ Named(u, restore.retry)
  BY <1>2, <1>3, LooksDiscard, NamedDiscard DEF Looks
<1> HIDE DEF u
<1>5. ASSUME NEW w \in UIType, Distinct(w.tabs), Named(w, restore.retry)
      PROVE  /\ \A x \in Tabs(w) : Named(Show(w, x), restore.retry) /\ Named(Activate(w, x), restore.retry)
             /\ Named([w EXCEPT !.selected = w.active], restore.retry)
             /\ Named([w EXCEPT !.selected = n], restore.retry)
  <2>1. w.active \in Id /\ n \in Id
    BY <1>3 DEF UIType, Id
  <2> QED
    BY <1>5, <2>1, NamedActivate, NamedSelected
<1>6. /\ Named([ui EXCEPT !.selected = n], restore.retry)
      /\ Named([ui EXCEPT !.selected = ui.active], restore.retry)
      /\ ui.active = n \/ Has(ui, n) => Named(Show(ui, n), restore.retry)
      /\ Has(ui, ui.selected) => Named(Activate(ui, ui.selected), restore.retry)
      /\ Has(u, u.selected) => Named(Activate(u, u.selected), restore.retry)
      /\ Named([u EXCEPT !.selected = u.active], restore.retry)
  BY <1>2, <1>3, <1>4, <1>5 DEF Has
<1> QED
  BY <1>1, <1>2, <1>6, KemptBody

LEMMA KemptRedirect ==
    \A old, new \in Notes, unread \in BOOLEAN : \A end :
        Steady /\ HistoryFits /\ Calm' /\ Redirect(old, new, unread, end) => Kempt'
<1> SUFFICES ASSUME Steady, HistoryFits, Calm', NEW old \in Notes, NEW new \in Notes,
                    NEW unread \in BOOLEAN, NEW end, Redirect(old, new, unread, end)
             PROVE  Kempt'
  OBVIOUS
<1> DEFINE anchored == old = (IF actions[1].old = None THEN actions[1].new ELSE actions[1].old)
           kept == ui.active = old /\ Has(ui, old)
           retired == RetainActive(ui, old, new)
           revoked == IF retired.selected = old THEN [retired EXCEPT !.selected = new] ELSE retired
           adopted == Adopt(ui, new, old)
           replaced == ReplaceTab(ui, old, new)
           taken == IF anchored THEN [adopted EXCEPT !.selected = new] ELSE replaced
           leaves == IF ui.active = None /\ ui.selected = old THEN {"unmounted"} ELSE {}
           missed == Missed(old)
           faulted == history.excused \/ unread
           now == Reidentified(Tabs(ui), old, new)
<1>1. /\ opens = <<>> /\ actions # <<>> /\ ~exited
      /\ old \in exists /\ new \in Notes \ exists
      /\ exists' = Reidentified(exists, old, new)
      /\ UNCHANGED <<restore, batch, exited>>
      /\ \/ Ends(ui)
         \/ Expected /\ AfterSuccess(RekeyRetained(taken, old, new))
         \/ Expected /\ anchored /\ Ends(RekeyRetained(IF kept THEN revoked ELSE replaced, old, new))
         \/ /\ ~anchored /\ (anchored \/ Has(ui, old))
            /\ Ends(IF ui.active = old THEN ui ELSE RetainTab(ui, old, new)) \/ Ends(Discard(ui, old))
  BY DEF Redirect, Turn, Settled, BodyUnchanged, Reidentify
<1>2. /\ Named(ui, restore.retry) /\ ui \in UIType /\ Distinct(ui.tabs) /\ Tabs(ui) \cap ui.retained = {}
      /\ ui.active \in Tabs(ui) \cup {None} /\ Shown(ui) \subseteq exists /\ exists \subseteq Notes
      /\ None \notin Notes
  BY <1>1, SteadyBody
<1>3. history' = [history EXCEPT !.excused = faulted, !.quirks = @ \cup leaves \cup missed]
  BY DEF Redirect
<1>4. ~(ui.active = None /\ ui.selected = old) /\ missed \cap Disowning = {}
  <2>1. leaves \cap Disowning = {} /\ missed \cap Disowning = {}
    <3> HIDE DEF leaves, missed, faulted
    <3> QED
      BY <1>3 DEF HistoryFits, Calm
  <2>2. ui.active = None /\ ui.selected = old => leaves = {"unmounted"}
    OBVIOUS
  <2> QED
    BY <2>1, <2>2 DEF Disowning
<1>10. ~Expected => ~Has(ui, old)
  BY <1>4, MissedFacts DEF Has
<1> HIDE DEF leaves, missed, faulted
<1>5. Expected => (anchored <=> ui.active = old) /\ (kept <=> anchored)
  BY <1>2, <1>4 DEF Has, Expected
<1>6. new # old /\ new \notin Shown(ui) /\ new \in Id
  BY <1>1, <1>2 DEF Id
<1>11. CASE Ends(ui)
  BY <1>1, <1>2, <1>11, KemptBody
<1>7. CASE Expected /\ AfterSuccess(RekeyRetained(taken, old, new))
  <2>1. taken \in UIType /\ Distinct(taken.tabs) /\ taken.active \in Tabs(taken) \cup {None}
        /\ Named(taken, restore.retry)
    <3>1. CASE anchored
      <4>1. ui.active = old /\ old \in Tabs(ui) /\ old \notin ui.retained
        BY <1>2, <1>5, <1>7, <3>1
      <4>2. Looks(adopted, now, ui.retained \ {new}, new) /\ Named(adopted, restore.retry)
        BY <1>2, <1>6, <4>1, LooksAdopt, NamedAdopt DEF Shown
      <4> HIDE DEF adopted
      <4>3. /\ Looks([adopted EXCEPT !.selected = new], now, ui.retained \ {new}, new)
            /\ Named([adopted EXCEPT !.selected = new], restore.retry)
        BY <1>6, <4>2, LooksSelected, NamedSelected DEF Looks
      <4>4. new \in now
        BY <4>1 DEF Reidentified
      <4>5. taken = [adopted EXCEPT !.selected = new]
        BY <3>1
      <4> HIDE DEF taken, now
      <4> QED
        BY <4>3, <4>4, <4>5 DEF Looks
    <3>2. CASE ~anchored
      <4>1. Looks(replaced, now, IF Has(ui, old) THEN ui.retained \ {new} ELSE ui.retained, ui.active)
        BY <1>2, <1>6, LooksReplaceTab DEF Shown
      <4>2. Named(replaced, restore.retry)
        <5>1. CASE Has(ui, old)
          BY <1>2, <1>5, <1>6, <1>7, <3>2, <5>1, NamedReplaceTab DEF Has
        <5>2. CASE ~Has(ui, old)
          BY <1>2, <5>2 DEF ReplaceTab
        <5> QED
          BY <5>1, <5>2
      <4>3. ui.active \in now \cup {None}
        BY <1>2, <1>5, <1>7, <3>2 DEF Reidentified
      <4>4. taken = replaced
        BY <3>2
      <4> HIDE DEF taken, now, replaced
      <4> QED
        BY <4>1, <4>2, <4>3, <4>4 DEF Looks
    <3> QED
      BY <3>1, <3>2
  <2> HIDE DEF taken
  <2>2. Named(RekeyRetained(taken, old, new), restore.retry)
    BY <2>1, NamedRekeyRetained
  <2> QED
    BY <1>1, <1>7, <2>2, KemptBody
<1>8. CASE Expected /\ anchored /\ Ends(RekeyRetained(IF kept THEN revoked ELSE replaced, old, new))
  <2>1. ui.active = old /\ old \in Tabs(ui)
    BY <1>2, <1>5, <1>8
  <2>2. /\ Looks(retired, Tabs(ui) \ {old}, (ui.retained \ {old}) \cup {new}, None)
        /\ Named(retired, restore.retry)
    BY <1>2, <2>1, LooksRetain, NamedRetain
  <2> HIDE DEF retired
  <2>3. revoked \in UIType /\ Distinct(revoked.tabs) /\ revoked.active = None /\ Named(revoked, restore.retry)
    BY <1>6, <2>2, LooksSelected, NamedSelected DEF Looks
  <2>4. Ends(RekeyRetained(revoked, old, new))
    BY <1>5, <1>8
  <2> HIDE DEF revoked
  <2>5. Named(RekeyRetained(revoked, old, new), restore.retry)
    BY <2>3, NamedRekeyRetained
  <2> QED
    BY <1>1, <2>4, <2>5, KemptBody
<1>9. CASE /\ ~anchored /\ (anchored \/ Has(ui, old))
           /\ Ends(IF ui.active = old THEN ui ELSE RetainTab(ui, old, new)) \/ Ends(Discard(ui, old))
  <2>1. ui.active # old /\ old \in Tabs(ui)
    BY <1>5, <1>9, <1>10 DEF Has
  <2>2. Named(RetainTab(ui, old, new), restore.retry) /\ Named(Discard(ui, old), restore.retry)
    BY <1>2, <2>1, NamedRetain, NamedDiscard
  <2> QED
    BY <1>1, <1>9, <2>1, <2>2, KemptBody
<1> QED
  BY <1>1, <1>7, <1>8, <1>9, <1>11

-----------------------------------------------------------------------------
(* From the start on, and after every step.                                  *)

(* At a start the saved list is what there is to restore.                    *)
LEMMA KemptInit == Init => Kempt
<1> SUFFICES ASSUME Init PROVE Kempt
  OBVIOUS
<1>1. PICK saved \in Saved :
        LET todo == saved.open \cup IdIn(saved.last) IN
        /\ exists = Files
        /\ core = {}
        /\ ui = [tabs |-> <<>>, active |-> None, selected |-> None, retained |-> {},
                 open |-> saved.open, last |-> saved.last]
        /\ opens = IF todo = {} THEN <<>>
                   ELSE <<[Task("restore", None, None) EXCEPT !.pc = "core"]>>
        /\ restore = [todo |-> todo, done |-> <<>>, late |-> None, retry |-> {},
                     last |-> saved.last]
        /\ closes = <<>> /\ batch = None /\ actions = <<>>
        /\ gates = [rescan |-> FALSE, reload |-> FALSE]
        /\ anchor = NoAnchor /\ exited = FALSE
        /\ history = [excused |-> FALSE, quirks |-> {}]
        /\ spent = [calls |-> 0, faults |-> 0]
  BY DEF Init
<1>2. saved.open \in SUBSET Notes /\ saved.last \in Id
  BY SavedAssumption DEF Id
<1>3. /\ ui.retained = {} /\ ui.active = None /\ ui.tabs = <<>>
      /\ ui.open = saved.open /\ ui.last = saved.last
  BY <1>1
<1>4. Shown(ui) = {}
  BY <1>3 DEF Shown, Tabs, Range
<1> DEFINE todo == saved.open \cup IdIn(saved.last)
           t == [Task("restore", None, None) EXCEPT !.pc = "core"]
<1>5. t.from = None /\ t.kind = "restore"
  BY DEF Task
<1>6. opens = IF todo = {} THEN <<>> ELSE <<t>>
  BY <1>1
<1>7. SavedIds(ui) = todo
  BY <1>3 DEF SavedIds
<1>8. todo \in SUBSET Notes /\ (todo = {} => saved.last = None) /\ saved.last \in todo \cup {None}
  BY <1>2 DEF IdIn, Id
<1> HIDE DEF todo, t
<1>9. Froms(opens) = {}
  <2>1. CASE todo = {}
    BY <1>6, <2>1 DEF Froms
  <2>2. CASE todo # {}
    <3>1. DOMAIN opens = {1} /\ opens[1] = t
      BY <1>6, <2>2
    <3> QED
      BY <1>5, <3>1 DEF Froms
  <2> QED
    BY <2>1, <2>2
<1>10. todo \subseteq Owed
  <2>1. CASE todo # {}
    <3>1. Restoring(opens)
      BY <1>5, <1>6, <2>1 DEF Restoring
    <3> QED
      BY <1>8, <3>1 DEF Owed
  <2> QED
    BY <2>1
<1>11. Named(ui, Owed)
  BY <1>3, <1>4, <1>7, <1>8, <1>10 DEF Named
<1> QED
  BY <1>1, <1>3, <1>9, <1>11 DEF Kempt, Bygone

LEMMA KemptStep ==
    Steady /\ HistoryFits /\ Calm' /\ "unsaved" \notin history'.quirks /\ [Next]_vars => Kempt'
<1> SUFFICES ASSUME Steady, HistoryFits, Calm', "unsaved" \notin history'.quirks, [Next]_vars PROVE Kempt'
  OBVIOUS
<1>1. CASE User
  <2>1. CASE CloseAllRefused
    BY <2>1, KemptCloseAllRefused
  <2>2. CASE Rescan \/ Reload \/ Submit
    BY <2>2, KemptGates
  <2>3. ASSUME NEW n \in Notes, Select(n) PROVE Kempt'
    BY <2>3, KemptSelect
  <2>4. ASSUME NEW n \in Notes, CloseTab(n) PROVE Kempt'
    BY <2>4, KemptCloseTab
  <2>5. ASSUME NEW kind, NEW keep, StartBatch(kind, keep) PROVE Kempt'
    BY <2>5, KemptStartBatch
  <2> QED
    BY <1>1, <2>1, <2>2, <2>3, <2>4, <2>5 DEF User
<1>2. CASE Program
  <2>1. CASE OpenStart
    BY <2>1, KemptOpenStart
  <2>2. CASE OpenAnswered
    BY <2>2, KemptOpenAnswered
  <2>3. CASE OpenFailed
    BY <2>3, KemptOpenFailed
  <2>4. CASE BatchOff
    BY <2>4, KemptBatchOff
  <2>5. CASE Answered
    BY <2>5, KemptGates
  <2>6. CASE RequestFails \/ Other \/ ActionRestored
    BY <2>6, KemptBodies
  <2>7. ASSUME NEW n \in Notes, RestoreAnswered(n) PROVE Kempt'
    BY <2>7, KemptRestoreAnswered
  <2>8. ASSUME NEW n \in Notes, RestoreFailed(n) PROVE Kempt'
    BY <2>8, KemptRestoreFailed
  <2>9. ASSUME NEW n \in Notes, Create(n) PROVE Kempt'
    BY <2>9, KemptCreate
  <2>10. ASSUME NEW n \in Notes, Delete(n) PROVE Kempt'
    BY <2>10, KemptDelete
  <2>11. ASSUME NEW saved \in BOOLEAN, BatchClosed(saved) PROVE Kempt'
    BY <2>11, KemptBatchClosed
  <2>12. ASSUME NEW bad \in Notes \cup {None}, ActionRenamed(bad) PROVE Kempt'
    BY <2>12, KemptActionRenamed
  <2>13. ASSUME NEW end \in Ending, RetireAnswered(end) PROVE Kempt'
    BY <2>13, KemptRetireAnswered
  <2>14. ASSUME NEW end \in Ending, TabClosed(end) PROVE Kempt'
    BY <2>14, KemptTabClosed
  <2>15. ASSUME NEW end \in Ending, ActionCreated(end) PROVE Kempt'
    BY <2>15, KemptActionCreated
  <2>16. ASSUME NEW end \in Ending, NEW bad \in Notes, NEW before \in SUBSET Notes,
                BatchCancelled(bad, before, end)
         PROVE  Kempt'
    BY <2>16, KemptBatchCancelled
  <2>17. ASSUME NEW end \in Ending, NEW old \in Notes, NEW new \in Notes, NEW unread \in BOOLEAN,
                Redirect(old, new, unread, end)
         PROVE  Kempt'
    BY <2>17, KemptRedirect
  <2>18. ASSUME NEW old \in Notes, NEW new \in Notes, NEW bad \in Notes \cup {None}, Rename(old, new, bad)
         PROVE  Kempt'
    BY <2>18, KemptRename
  <2>19. CASE Request
    BY <2>19, KemptRequest
  <2> QED
    BY <1>2, <2>1, <2>2, <2>3, <2>4, <2>5, <2>6, <2>7, <2>8, <2>9, <2>10, <2>11, <2>12, <2>13, <2>14,
       <2>15, <2>16, <2>17, <2>18, <2>19 DEF Program
<1>3. CASE UNCHANGED vars
  <2>1. UNCHANGED <<exists, ui, opens, restore, closes, batch, actions, exited>>
    BY <1>3 DEF vars
  <2>2. Owed' = Owed
    BY <2>1 DEF Owed, Restoring
  <2>3. Bygone'
    BY <2>1 DEF Steady, Kempt, Bygone, Exiting, Shown, Tabs, Restoring, Handing, Waits
  <2>4. Named(ui, Owed)' <=> Named(ui, Owed)
    BY <2>1, <2>2 DEF Named, Shown, SavedIds, Tabs, IdIn
  <2> QED
    BY <2>1, <2>3, <2>4 DEF Steady, Kempt, Restoring, Froms, Firm
<1> QED
  BY <1>1, <1>2, <1>3 DEF Next

(* The inductive invariant: while every session has had its owner and every  *)
(* batch has written what it closed, the snapshot is kempt.                  *)
Tended == CalmInv /\ Frame /\ Barred /\ (Calm /\ "unsaved" \notin history.quirks => Kempt)

LEMMA TendedStep == Tended /\ [Next]_vars => Tended'
<1> SUFFICES ASSUME Tended, [Next]_vars PROVE Tended'
  OBVIOUS
<1>1. CalmInv' /\ Frame' /\ Barred' /\ HistoryFits
  BY CalmStep, FrameStep, BarredStep DEF Tended, CalmInv
<1>2. ASSUME Calm', "unsaved" \notin history'.quirks PROVE Kempt'
  <2>1. history.quirks \subseteq history'.quirks
    BY <1>1, HistoryStep DEF HistoryGrows
  <2>2. Calm /\ "unsaved" \notin history.quirks
    BY <1>2, <2>1 DEF Calm
  <2>3. Steady
    BY <2>2 DEF Tended, CalmInv, Steady
  <2> QED
    BY <1>1, <1>2, <2>3, KemptStep
<1> QED
  BY <1>1, <1>2 DEF Tended

(* So it stays, whatever the queues, the close of a Note and the operations  *)
(* interleave: no answer that comes late leaves the saved list behind.       *)
THEOREM TabsTended == Spec => []Tended
<1>1. Init => Tended
  <2> SUFFICES ASSUME Init PROVE Tended
    OBVIOUS
  <2>1. HistoryFits /\ actions = <<>> /\ batch = None
    BY DEF Init, HistoryFits
  <2>2. LifeFree(opens)
    BY DEF Init, LifeFree, Task
  <2> QED
    BY <2>1, <2>2, TabsInit, FrameInit, KemptInit DEF Tended, CalmInv, Barred
<1> QED
  BY <1>1, TendedStep, PTL DEF Spec

(* SnapshotNamesTabs: when nothing is underway, what the next start will     *)
(* reopen is what is open now: the saved session names every tab and every   *)
(* retained Note, and beyond them only those that restoration could not read *)
(* and is to try again.                                                      *)
THEOREM SnapshotNames ==
    ASSUME Disowning \cup {"unsaved"} \subseteq Quirks
    PROVE  Spec => []SnapshotNamesTabs
<1>1. Tended => SnapshotNamesTabs
  <2> SUFFICES ASSUME Tended, AtRest, ~Excused
               PROVE  /\ Shown(ui) \subseteq SavedIds(ui)
                      /\ SavedIds(ui) \subseteq Shown(ui) \cup restore.retry
    BY DEF SnapshotNamesTabs
  <2>1. Calm /\ "unsaved" \notin history.quirks
    BY DEF Excused, Calm
  <2>2. Kempt /\ Owed = restore.retry /\ ui \in UIType
    BY <2>1 DEF Tended, AtRest, Owed, Restoring, Frame, Types
  <2>3. None \notin Shown(ui)
    BY <2>2, LastType DEF Shown
  <2> QED
    BY <2>2, <2>3 DEF Kempt, Named, SavedIds, IdIn
<1> QED
  BY <1>1, TabsTended, PTL

=============================================================================
