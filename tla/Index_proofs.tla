---------------------------- MODULE Index_proofs ----------------------------
(* Proofs about Index for every bundle, set of names and bound, with idle    *)
(* writes, scans and other programs between the operations: what the tables  *)
(* of the index owe each other, that the sidebar shows all they hold, and    *)
(* that what is indexed in pieces is what a scan would index.                *)
EXTENDS Index, FiniteSetTheorems, SequenceTheorems, WellFoundedInduction, TLAPS

-----------------------------------------------------------------------------
(* The rows of the Notes.                                                    *)

Tables(t) ==
    t = [notes |-> t.notes, fts |-> t.fts, mapping |-> t.mapping, links |-> t.links, dirs |-> t.dirs]

(* Every Note has a row of full text to itself, and every row its Note.      *)
Mapped(t) ==
    /\ DOMAIN t.mapping = DOMAIN t.notes
    /\ \A k \in DOMAIN t.notes : t.mapping[k] \in DOMAIN t.fts /\ t.fts[t.mapping[k]] = t.notes[k]
    /\ \A n \in DOMAIN t.fts : \E k \in DOMAIN t.notes : t.mapping[k] = n
    /\ \A j, k \in DOMAIN t.notes : t.mapping[j] = t.mapping[k] => j = k

(* The numbers of the rows have a last one.                                  *)
Numbered(t) ==
    /\ DOMAIN t.fts \subseteq Nat
    /\ \E b \in Nat : \A n \in DOMAIN t.fts : n <= b

(* The Note of every Link has a row.                                         *)
Sourced(t) ==
    \A l \in t.links :
        l = [ws |-> l.ws, source |-> l.source, target |-> l.target] /\ <<l.ws, l.source>> \in DOMAIN t.notes

Sound(t) == Tables(t) /\ Mapped(t) /\ Numbered(t) /\ Sourced(t)

LEMMA DeleteSound ==
    ASSUME NEW t, Sound(t), NEW keys, NEW u, u = DeleteNotes(PurgeText(t, keys), keys)
    PROVE  /\ Sound(u) /\ DOMAIN u.notes = DOMAIN t.notes \ keys /\ u.dirs = t.dirs
           /\ \A k \in DOMAIN u.notes : u.notes[k] = t.notes[k]
<1> DEFINE gone == RowNumbers(t, keys)
<1>1. u = [notes |-> Without(t.notes, keys), fts |-> Without(t.fts, gone),
           mapping |-> Without(t.mapping, keys), links |-> {l \in t.links : <<l.ws, l.source>> \notin keys},
           dirs |-> t.dirs]
  BY DEF Sound, Tables, DeleteNotes, PurgeText
<1>2. gone = {t.mapping[k] : k \in DOMAIN t.mapping \cap keys}
  BY DEF RowNumbers
<1> HIDE DEF gone
<1>3. /\ DOMAIN u.notes = DOMAIN t.notes \ keys /\ \A k \in DOMAIN u.notes : u.notes[k] = t.notes[k]
      /\ DOMAIN u.mapping = DOMAIN t.mapping \ keys /\ \A k \in DOMAIN u.mapping : u.mapping[k] = t.mapping[k]
      /\ DOMAIN u.fts = DOMAIN t.fts \ gone /\ \A n \in DOMAIN u.fts : u.fts[n] = t.fts[n]
  BY <1>1 DEF Without
<1>4. Mapped(u)
  BY <1>2, <1>3 DEF Sound, Mapped
<1>5. Numbered(u)
  BY <1>3 DEF Sound, Numbered
<1>6. Sourced(u)
  <2> DEFINE kept == {l \in t.links : <<l.ws, l.source>> \notin keys}
  <2>1. u.links = kept
    BY <1>1
  <2> QED
    BY <1>3, <2>1, Zenon DEF Sound, Sourced
<1>7. Tables(u) /\ u.dirs = t.dirs
  BY <1>1 DEF Tables
<1> QED
  BY <1>3, <1>4, <1>5, <1>6, <1>7 DEF Sound

(* The last number there is.                                                 *)
LEMMA LastNumber ==
    ASSUME NEW S \in SUBSET Nat, NEW b \in Nat, \A n \in S : n <= b
    PROVE  Max({0} \cup S) \in Nat /\ \A n \in S : n <= Max({0} \cup S)
<1> DEFINE T == {0} \cup S
           last == Max(T)
<1>1. \E n \in T : \A m \in T : m <= n
  <2> DEFINE bounds == {n \in Nat : \A m \in T : m <= n}
             R == {p \in Nat \X Nat : p[1] < p[2]}
  <2>1. b \in bounds
    OBVIOUS
  <2>2. IsWellFoundedOn(R, Nat)
    <3>1. R = OpToRel(<, Nat)
      BY DEF OpToRel
    <3> QED
      BY <3>1, NatLessThanWellFounded, Zenon
  <2>3. PICK n \in bounds : \A m \in bounds : <<m, n>> \notin R
    BY <2>1, <2>2, WFMin
  <2>4. n \in T
    <3> SUFFICES ASSUME n \notin T PROVE FALSE
      OBVIOUS
    <3>1. n \in Nat /\ n # 0 /\ \A m \in T : m <= n /\ m # n /\ m \in Nat
      BY <2>3
    <3> HIDE DEF T
    <3>2. n - 1 \in Nat /\ \A m \in T : m <= n - 1
      BY <3>1
    <3>3. n - 1 \in bounds /\ <<n - 1, n>> \in R
      BY <3>1, <3>2
    <3> QED
      BY <2>3, <3>3
  <2> QED
    BY <2>3, <2>4
<1>2. T \subseteq Nat /\ S \subseteq T
  OBVIOUS
<1>3. last \in T /\ \A m \in T : last >= m
  <2> HIDE DEF T
  <2>1. \E n \in T : \A m \in T : n >= m
    BY <1>1, <1>2
  <2> QED
    BY <2>1 DEF Max
<1> HIDE DEF T, last
<1>4. last \in Nat /\ \A n \in S : n <= last
  BY <1>2, <1>3
<1> QED
  BY <1>4 DEF T, last

(* The Notes of a list that names none of them twice.                        *)
Listed(notes) ==
    /\ \E n \in Nat : DOMAIN notes = 1..n
    /\ \A i, j \in DOMAIN notes : notes[i].id = notes[j].id => i = j

LEMMA InsertSound ==
    ASSUME NEW t, Sound(t), NEW ws, NEW notes, Listed(notes),
           NoteKeys(ws, IdsOf(notes)) \cap DOMAIN t.notes = {},
           NEW u, u = InsertNoteRows(t, ws, notes)
    PROVE  /\ Sound(u) /\ DOMAIN u.notes = DOMAIN t.notes \cup NoteKeys(ws, IdsOf(notes)) /\ u.dirs = t.dirs
           /\ \A k \in DOMAIN t.notes : u.notes[k] = t.notes[k]
<1> DEFINE last == Max({0} \cup DOMAIN t.fts)
           keys == NoteKeys(ws, IdsOf(notes))
           at == [k \in keys |-> CHOOSE i \in DOMAIN notes : notes[i].id = k[2]]
           edges(i) == {[ws |-> ws, source |-> notes[i].id, target |-> e] : e \in notes[i].edges}
           rows == [k \in DOMAIN at |-> notes[at[k]].row]
           texts == [n \in {last + i : i \in DOMAIN notes} |-> notes[n - last].row]
           numbers == [k \in DOMAIN at |-> last + at[k]]
           more == UNION {edges(i) : i \in DOMAIN notes}
<1>1. u = [notes |-> Updated(t.notes, rows), fts |-> Updated(t.fts, texts),
           mapping |-> Updated(t.mapping, numbers), links |-> t.links \cup more, dirs |-> t.dirs]
  <2>1. u = [t EXCEPT !.notes = Updated(@, rows), !.fts = Updated(@, texts), !.mapping = Updated(@, numbers),
                      !.links = @ \cup more]
    BY DEF InsertNoteRows
  <2> HIDE DEF rows, texts, numbers, more
  <2> QED
    BY <2>1 DEF Sound, Tables
<1>2. PICK len \in Nat : DOMAIN notes = 1..len
  BY DEF Listed
<1>3. last \in Nat /\ \A n \in DOMAIN t.fts : n \in Nat /\ n <= last
  BY LastNumber DEF Sound, Numbered
<1> HIDE DEF last
<1>4. keys = {<<ws, notes[i].id>> : i \in DOMAIN notes}
  BY DEF NoteKeys, IdsOf
<1>5. ASSUME NEW i \in DOMAIN notes
      PROVE  <<ws, notes[i].id>> \in keys /\ at[<<ws, notes[i].id>>] = i
  <2> DEFINE k == <<ws, notes[i].id>>
  <2>1. k \in keys /\ k[2] = notes[i].id
    BY <1>4
  <2>2. at[k] = CHOOSE j \in DOMAIN notes : notes[j].id = notes[i].id
    BY <2>1
  <2>3. at[k] \in DOMAIN notes /\ notes[at[k]].id = notes[i].id
    BY <2>2
  <2> QED
    BY <2>1, <2>3 DEF Listed
<1>6. DOMAIN at = keys
  OBVIOUS
<1> HIDE DEF at, keys
<1>7. \A k \in keys : at[k] \in DOMAIN notes /\ k = <<ws, notes[at[k]].id>>
  BY <1>4, <1>5
<1>8. /\ DOMAIN rows = keys /\ \A k \in keys : rows[k] = notes[at[k]].row
      /\ DOMAIN numbers = keys /\ \A k \in keys : numbers[k] = last + at[k]
      /\ DOMAIN texts = {last + i : i \in DOMAIN notes}
  BY <1>6
<1>9. \A i \in DOMAIN notes : last + i \in DOMAIN texts /\ texts[last + i] = notes[i].row
  <2> TAKE i \in DOMAIN notes
  <2>1. last + i \in DOMAIN texts /\ (last + i) - last = i
    BY <1>2, <1>3
  <2> QED
    BY <2>1
<1>10. \A n \in DOMAIN texts : n \in Nat /\ n > last /\ n <= last + len
  BY <1>2, <1>3
<1> HIDE DEF rows, numbers, texts
<1>11. /\ DOMAIN u.notes = DOMAIN t.notes \cup keys /\ DOMAIN u.mapping = DOMAIN t.mapping \cup keys
       /\ DOMAIN u.fts = DOMAIN t.fts \cup DOMAIN texts
       /\ \A k \in keys : u.notes[k] = rows[k] /\ u.mapping[k] = numbers[k]
       /\ \A k \in DOMAIN t.notes \ keys : u.notes[k] = t.notes[k]
       /\ \A k \in DOMAIN t.mapping \ keys : u.mapping[k] = t.mapping[k]
       /\ \A n \in DOMAIN texts : u.fts[n] = texts[n]
       /\ \A n \in DOMAIN t.fts \ DOMAIN texts : u.fts[n] = t.fts[n]
  <2> HIDE DEF more
  <2>1. /\ u.notes = Updated(t.notes, rows) /\ u.fts = Updated(t.fts, texts)
        /\ u.mapping = Updated(t.mapping, numbers)
    BY <1>1
  <2>2. /\ DOMAIN u.notes = DOMAIN t.notes \cup DOMAIN rows
        /\ \A k \in DOMAIN rows : u.notes[k] = rows[k]
        /\ \A k \in DOMAIN t.notes \ DOMAIN rows : u.notes[k] = t.notes[k]
    BY <2>1 DEF Updated
  <2>3. /\ DOMAIN u.mapping = DOMAIN t.mapping \cup DOMAIN numbers
        /\ \A k \in DOMAIN numbers : u.mapping[k] = numbers[k]
        /\ \A k \in DOMAIN t.mapping \ DOMAIN numbers : u.mapping[k] = t.mapping[k]
    BY <2>1 DEF Updated
  <2>4. /\ DOMAIN u.fts = DOMAIN t.fts \cup DOMAIN texts
        /\ \A n \in DOMAIN texts : u.fts[n] = texts[n]
        /\ \A n \in DOMAIN t.fts \ DOMAIN texts : u.fts[n] = t.fts[n]
    BY <2>1 DEF Updated
  <2> QED
    BY <1>8, <2>2, <2>3, <2>4
<1>12. keys \cap DOMAIN t.notes = {} /\ DOMAIN t.mapping = DOMAIN t.notes /\ DOMAIN t.fts \cap DOMAIN texts = {}
  <2>1. \A n \in DOMAIN t.fts : n \notin DOMAIN texts
    BY <1>3, <1>10
  <2> QED
    BY <2>1 DEF Sound, Mapped, keys
<1>13. /\ \A k \in DOMAIN t.notes : /\ u.notes[k] = t.notes[k] /\ u.mapping[k] = t.mapping[k]
                                   /\ u.mapping[k] \in DOMAIN t.fts
       /\ \A n \in DOMAIN t.fts : u.fts[n] = t.fts[n]
  BY <1>11, <1>12 DEF Sound, Mapped
<1>14. \A k \in keys : /\ u.mapping[k] \in DOMAIN texts /\ u.fts[u.mapping[k]] = u.notes[k]
                       /\ u.mapping[k] = last + at[k]
  BY <1>7, <1>8, <1>9, <1>11
<1>15. Mapped(u)
  <2>1. ASSUME NEW k \in DOMAIN u.notes PROVE u.mapping[k] \in DOMAIN u.fts /\ u.fts[u.mapping[k]] = u.notes[k]
    BY <1>11, <1>13, <1>14 DEF Sound, Mapped
  <2>2. ASSUME NEW n \in DOMAIN u.fts PROVE \E k \in DOMAIN u.notes : u.mapping[k] = n
    <3>1. CASE n \in DOMAIN t.fts
      BY <1>11, <1>13, <3>1 DEF Sound, Mapped
    <3>2. CASE n \in DOMAIN texts
      <4>1. PICK i \in DOMAIN notes : n = last + i
        BY <1>8, <3>2
      <4> DEFINE k == <<ws, notes[i].id>>
      <4>2. k \in keys /\ at[k] = i
        BY <1>5
      <4> HIDE DEF k
      <4> QED
        BY <1>11, <1>14, <4>1, <4>2
    <3> QED
      BY <1>11, <3>1, <3>2
  <2>3. ASSUME NEW j \in DOMAIN u.notes, NEW k \in DOMAIN u.notes, u.mapping[j] = u.mapping[k] PROVE j = k
    <3>1. CASE j \in keys /\ k \in keys
      <4>1. at[j] = at[k]
        BY <1>2, <1>3, <1>7, <1>14, <2>3, <3>1
      <4> QED
        BY <1>7, <3>1, <4>1
    <3>2. CASE j \in DOMAIN t.notes /\ k \in DOMAIN t.notes
      BY <1>13, <2>3, <3>2 DEF Sound, Mapped
    <3>3. CASE \/ j \in keys /\ k \in DOMAIN t.notes
               \/ k \in keys /\ j \in DOMAIN t.notes
      BY <1>12, <1>13, <1>14, <2>3, <3>3
    <3> QED
      BY <1>11, <3>1, <3>2, <3>3
  <2> QED
    BY <1>11, <1>12, <2>1, <2>2, <2>3 DEF Mapped
<1>16. Numbered(u)
  <2>1. last + len \in Nat /\ \A n \in DOMAIN u.fts : n \in Nat /\ n <= last + len
    BY <1>2, <1>3, <1>10, <1>11
  <2> QED
    BY <2>1 DEF Numbered
<1>17. Sourced(u)
  <2>1. ASSUME NEW l \in more
        PROVE  l = [ws |-> l.ws, source |-> l.source, target |-> l.target] /\ <<l.ws, l.source>> \in keys
    <3>1. PICK i \in DOMAIN notes : \E e \in notes[i].edges : l = [ws |-> ws, source |-> notes[i].id, target |-> e]
      BY <2>1
    <3> QED
      BY <1>5, <3>1
  <2> HIDE DEF more
  <2>2. u.links = t.links \cup more
    BY <1>1
  <2> QED
    BY <1>11, <2>1, <2>2, Zenon DEF Sound, Sourced
<1>18. Tables(u) /\ u.dirs = t.dirs
  BY <1>1 DEF Tables
<1> QED
  BY <1>11, <1>13, <1>15, <1>16, <1>17, <1>18 DEF Sound, keys

(* What is not of this Workspace stays.                                      *)
Beside(t, u) ==
    \A k : k[1] # Here => /\ k \in DOMAIN u.notes <=> k \in DOMAIN t.notes
                          /\ k \in DOMAIN t.notes => u.notes[k] = t.notes[k]

LEMMA BesideSteps == \A t, u, v : Beside(t, u) /\ Beside(u, v) => Beside(t, v)
BY DEF Beside

(* Tables that differ in their Directories only.                             *)
LEMMA DirectoriesSound ==
    ASSUME NEW t, Sound(t), NEW dirs, NEW u, u = [t EXCEPT !.dirs = dirs]
    PROVE  Sound(u) /\ u.dirs = dirs /\ u.notes = t.notes /\ u.links = t.links
<1>1. u = [notes |-> t.notes, fts |-> t.fts, mapping |-> t.mapping, links |-> t.links, dirs |-> dirs]
  BY DEF Sound, Tables
<1>2. /\ u.notes = t.notes /\ u.fts = t.fts /\ u.mapping = t.mapping /\ u.links = t.links /\ u.dirs = dirs
      /\ Tables(u)
  BY <1>1 DEF Tables
<1> QED
  BY <1>2 DEF Sound, Mapped, Numbered, Sourced

LEMMA RecordSound ==
    ASSUME NEW t, Sound(t), NEW ws, NEW dirs, NEW u, u = RecordDirectories(t, ws, dirs)
    PROVE  /\ Sound(u) /\ u.notes = t.notes /\ u.links = t.links
           /\ u.dirs = t.dirs \cup {<<ws, a>> : a \in UNION {Ancestors(d) : d \in dirs}}
<1>1. u = [t EXCEPT !.dirs = t.dirs \cup {<<ws, a>> : a \in UNION {Ancestors(d) : d \in dirs}}]
  BY DEF RecordDirectories
<1> QED
  BY <1>1, DirectoriesSound

LEMMA RemoveSound ==
    ASSUME NEW t, Sound(t), NEW ws, NEW ids, NEW u, u = RemoveNoteRows(t, ws, ids)
    PROVE  /\ Sound(u) /\ DOMAIN u.notes = DOMAIN t.notes \ NoteKeys(ws, ids) /\ u.dirs = t.dirs
           /\ \A k \in DOMAIN u.notes : u.notes[k] = t.notes[k]
BY DeleteSound DEF RemoveNoteRows

LEMMA WriteSound ==
    ASSUME NEW t, Sound(t), NEW ws, NEW notes, Listed(notes), NEW u, u = WriteNoteRows(t, ws, notes)
    PROVE  /\ Sound(u) /\ DOMAIN u.notes = DOMAIN t.notes \cup NoteKeys(ws, IdsOf(notes))
           /\ \A k \in DOMAIN t.notes \ NoteKeys(ws, IdsOf(notes)) : u.notes[k] = t.notes[k]
           /\ u.dirs = t.dirs \cup {<<ws, a>> : a \in UNION {Ancestors(ContainingDir(id)) : id \in IdsOf(notes)}}
<1> DEFINE ids == IdsOf(notes)
           dirs == {ContainingDir(id) : id \in ids}
           v == RemoveNoteRows(t, ws, ids)
           w == RecordDirectories(v, ws, dirs)
<1>1. /\ Sound(v) /\ DOMAIN v.notes = DOMAIN t.notes \ NoteKeys(ws, ids) /\ v.dirs = t.dirs
      /\ \A k \in DOMAIN v.notes : v.notes[k] = t.notes[k]
  BY RemoveSound
<1>2. u = InsertNoteRows(w, ws, notes)
  BY DEF WriteNoteRows
<1>3. UNION {Ancestors(d) : d \in dirs} = UNION {Ancestors(ContainingDir(id)) : id \in ids}
  OBVIOUS
<1> HIDE DEF v, dirs
<1>4. /\ Sound(w) /\ w.notes = v.notes
      /\ w.dirs = v.dirs \cup {<<ws, a>> : a \in UNION {Ancestors(d) : d \in dirs}}
  BY <1>1, RecordSound
<1> HIDE DEF w
<1>5. NoteKeys(ws, IdsOf(notes)) \cap DOMAIN w.notes = {}
  BY <1>1, <1>4
<1>6. /\ Sound(u) /\ DOMAIN u.notes = DOMAIN w.notes \cup NoteKeys(ws, IdsOf(notes)) /\ u.dirs = w.dirs
      /\ \A k \in DOMAIN w.notes : u.notes[k] = w.notes[k]
  BY <1>2, <1>4, <1>5, InsertSound
<1> QED
  BY <1>1, <1>3, <1>4, <1>6

LEMMA ScanSound ==
    ASSUME NEW t, Sound(t), NEW ws, NEW dirs, NEW notes, Listed(notes),
           NEW u, u = WriteScannedBundle(t, ws, dirs, notes)
    PROVE  /\ Sound(u) /\ DOMAIN u.notes = (DOMAIN t.notes \ KeysOf(t, ws)) \cup NoteKeys(ws, IdsOf(notes))
           /\ \A k \in DOMAIN t.notes \ KeysOf(t, ws) : u.notes[k] = t.notes[k]
           /\ u.dirs = {d \in t.dirs : d[1] # ws} \cup {<<ws, d>> : d \in dirs}
<1> DEFINE v == DeleteNotes(PurgeWorkspaceText(t, ws), KeysOf(t, ws))
           placed == {d \in v.dirs : d[1] # ws} \cup {<<ws, d>> : d \in dirs}
           w == [v EXCEPT !.dirs = placed]
<1>1. /\ Sound(v) /\ DOMAIN v.notes = DOMAIN t.notes \ KeysOf(t, ws) /\ v.dirs = t.dirs
      /\ \A k \in DOMAIN v.notes : v.notes[k] = t.notes[k]
  BY DeleteSound DEF PurgeWorkspaceText
<1>2. u = InsertNoteRows(w, ws, notes)
  BY DEF WriteScannedBundle
<1>3. placed = {d \in t.dirs : d[1] # ws} \cup {<<ws, d>> : d \in dirs}
  BY <1>1
<1> HIDE DEF v, placed
<1>4. Sound(w) /\ w.notes = v.notes /\ w.dirs = placed
  BY <1>1, DirectoriesSound
<1> HIDE DEF w
<1>5. NoteKeys(ws, IdsOf(notes)) \cap DOMAIN w.notes = {}
  BY <1>1, <1>4 DEF NoteKeys, KeysOf
<1>6. /\ Sound(u) /\ DOMAIN u.notes = DOMAIN w.notes \cup NoteKeys(ws, IdsOf(notes)) /\ u.dirs = w.dirs
      /\ \A k \in DOMAIN w.notes : u.notes[k] = w.notes[k]
  BY <1>2, <1>4, <1>5, InsertSound
<1> QED
  BY <1>1, <1>3, <1>4, <1>6

LEMMA RetargetSound ==
    ASSUME NEW t, Sound(t), NEW ws, NEW remap, NEW u, u = Retarget(t, ws, remap)
    PROVE  Sound(u) /\ u.notes = t.notes /\ u.dirs = t.dirs
<1> DEFINE shifted(l) == IF l.ws = ws /\ l.target \in DOMAIN remap THEN [l EXCEPT !.target = remap[@]] ELSE l
           links == {shifted(l) : l \in t.links}
<1>1. u = [t EXCEPT !.links = links]
  BY DEF Retarget
<1>2. ASSUME NEW m \in links
      PROVE  m = [ws |-> m.ws, source |-> m.source, target |-> m.target] /\ <<m.ws, m.source>> \in DOMAIN t.notes
  <2>1. PICK l \in t.links : m = shifted(l)
    OBVIOUS
  <2>2. l = [ws |-> l.ws, source |-> l.source, target |-> l.target] /\ <<l.ws, l.source>> \in DOMAIN t.notes
    BY DEF Sound, Sourced
  <2> QED
    BY <2>1, <2>2
<1> HIDE DEF links
<1>3. u = [notes |-> t.notes, fts |-> t.fts, mapping |-> t.mapping, links |-> links, dirs |-> t.dirs]
  BY <1>1 DEF Sound, Tables
<1>4. /\ u.notes = t.notes /\ u.fts = t.fts /\ u.mapping = t.mapping /\ u.links = links /\ u.dirs = t.dirs
      /\ Tables(u)
  BY <1>3 DEF Tables
<1> QED
  BY <1>2, <1>4 DEF Sound, Mapped, Numbered, Sourced

-----------------------------------------------------------------------------
(* Paths.                                                                    *)

Named == Paths \ {<<>>}

LEMMA Cuts ==
    ASSUME NEW p \in Paths, NEW l \in 0..Len(p)
    PROVE  /\ SubSeq(p, 1, l) \in Paths /\ Len(SubSeq(p, 1, l)) = l
           /\ \A i \in 1..l : SubSeq(p, 1, l)[i] = p[i]
<1>1. Len(p) \in Nat /\ l \in Int /\ \A i \in 1..l : p[i] \in Names
  BY DEF Paths
<1>2. /\ SubSeq(p, 1, l) \in Seq(Names)
      /\ Len(SubSeq(p, 1, l)) = IF 1 <= l THEN l - 1 + 1 ELSE 0
      /\ \A i \in 1..(l - 1 + 1) : SubSeq(p, 1, l)[i] = p[1 + i - 1]
  BY <1>1, SubSeqProperties
<1>3. l - 1 + 1 = l /\ \A i \in 1..l : 1 + i - 1 = i
  BY <1>1
<1>4. (IF 1 <= l THEN l ELSE 0) = l
  BY <1>1
<1> HIDE DEF Paths
<1> QED
  BY <1>2, <1>3, <1>4 DEF Paths

LEMMA PathsAre ==
    ASSUME NEW p \in Paths
    PROVE  /\ p \in Seq(Names) /\ Len(p) \in Nat /\ DOMAIN p = 1..Len(p) /\ (p # <<>> <=> Len(p) > 0)
           /\ \A i \in 1..Len(p) : p[i] \in Names
BY EmptySeq DEF Paths

LEMMA SamePath ==
    ASSUME NEW p \in Paths, NEW q \in Paths, Len(p) = Len(q), \A i \in 1..Len(p) : p[i] = q[i]
    PROVE  p = q
BY SeqEqual DEF Paths

LEMMA PrefixMeans ==
    ASSUME NEW p \in Paths, NEW q \in Paths
    PROVE  IsPrefix(p, q) <=> Len(p) <= Len(q) /\ \A i \in 1..Len(p) : p[i] = q[i]
<1>1. Len(p) \in Nat /\ Len(q) \in Nat
  BY PathsAre
<1>2. SUFFICES ASSUME Len(p) <= Len(q)
               PROVE  SubSeq(p, 1, Len(p)) = SubSeq(q, 1, Len(p)) <=> \A i \in 1..Len(p) : p[i] = q[i]
  BY DEF IsPrefix
<1> DEFINE l == Len(p)
           b == SubSeq(q, 1, l)
           a == SubSeq(p, 1, l)
<1>3. l \in 0..Len(p) /\ l \in 0..Len(q)
  BY <1>1, <1>2
<1>4. b \in Paths /\ Len(b) = l /\ \A i \in 1..l : b[i] = q[i]
  BY <1>3, Cuts
<1>5. a = p
  BY SubSeqFull DEF Paths
<1> HIDE DEF a, b
<1>6. a = b <=> \A i \in 1..l : p[i] = q[i]
  <2>1. ASSUME \A i \in 1..l : p[i] = q[i] PROVE p = b
    BY <1>4, <2>1, SamePath
  <2> QED
    BY <1>4, <1>5, <2>1
<1> QED
  BY <1>6 DEF a, b

(* The paths of the Directories above one, itself included.                  *)
LEMMA AncestorsAre ==
    ASSUME NEW d \in Paths
    PROVE  /\ \A a : a \in Ancestors(d) <=> a \in Named /\ IsPrefix(a, d)
           /\ d # <<>> => d \in Ancestors(d)
<1>1. Len(d) \in Nat /\ (d # <<>> <=> Len(d) > 0)
  BY PathsAre
<1>2. ASSUME NEW a \in Ancestors(d) PROVE a \in Named /\ IsPrefix(a, d)
  <2>1. PICK l \in 0..Len(d) : a = SubSeq(d, 1, l) /\ a # <<>>
    BY DEF Ancestors, Prefixes
  <2>2. a \in Paths /\ Len(a) = l /\ \A i \in 1..l : a[i] = d[i]
    BY <2>1, Cuts
  <2>3. IsPrefix(a, d) <=> Len(a) <= Len(d) /\ \A i \in 1..Len(a) : a[i] = d[i]
    BY <2>2, PrefixMeans
  <2>4. l <= Len(d)
    BY <1>1, <2>1
  <2> QED
    BY <2>1, <2>2, <2>3, <2>4 DEF Named
<1>3. ASSUME NEW a \in Named, IsPrefix(a, d) PROVE a \in Ancestors(d)
  <2>1. a \in Paths /\ a # <<>> /\ Len(a) \in Nat /\ Len(a) <= Len(d) /\ \A i \in 1..Len(a) : a[i] = d[i]
    BY <1>3, PrefixMeans, PathsAre DEF Named
  <2>2. Len(a) \in 0..Len(d)
    BY <1>1, <2>1
  <2> DEFINE b == SubSeq(d, 1, Len(a))
  <2>3. b \in Paths /\ Len(b) = Len(a) /\ \A i \in 1..Len(a) : b[i] = d[i]
    BY <2>2, Cuts
  <2> HIDE DEF b
  <2>4. a = b
    BY <2>1, <2>3, SamePath
  <2> QED
    BY <2>1, <2>2, <2>4, Zenon DEF b, Ancestors, Prefixes
<1>4. ASSUME d # <<>> PROVE d \in Ancestors(d)
  <2>1. d \in Named /\ IsPrefix(d, d)
    BY <1>1, <1>4, PrefixMeans DEF Named
  <2> QED
    BY <1>3, <2>1
<1> QED
  BY <1>2, <1>3, <1>4

LEMMA PrefixSteps ==
    ASSUME NEW p \in Paths, NEW q \in Paths, NEW r \in Paths, IsPrefix(p, q), IsPrefix(q, r)
    PROVE  IsPrefix(p, r)
<1>1. /\ Len(p) <= Len(q) /\ \A i \in 1..Len(p) : p[i] = q[i]
      /\ Len(q) <= Len(r) /\ \A i \in 1..Len(q) : q[i] = r[i]
      /\ Len(p) \in Nat /\ Len(q) \in Nat /\ Len(r) \in Nat
  BY PrefixMeans, PathsAre
<1>2. Len(p) <= Len(r) /\ \A i \in 1..Len(p) : p[i] = r[i]
  BY <1>1
<1> QED
  BY <1>2, PrefixMeans

(* What holds a Note, and what is above it.                                  *)
LEMMA FrontIs ==
    ASSUME NEW p \in Named
    PROVE  /\ ContainingDir(p) \in Paths /\ Len(ContainingDir(p)) = Len(p) - 1
           /\ \A i \in 1..(Len(p) - 1) : ContainingDir(p)[i] = p[i]
           /\ Last(p) \in Names /\ p[Len(p)] = Last(p)
<1>1. p \in Paths /\ Len(p) \in Nat /\ Len(p) > 0
  BY PathsAre DEF Named
<1>2. Len(p) - 1 \in 0..Len(p) /\ Len(p) \in 1..Len(p)
  BY <1>1
<1>3. ContainingDir(p) = SubSeq(p, 1, Len(p) - 1)
  BY DEF ContainingDir, Front
<1>4. Last(p) = p[Len(p)] /\ p[Len(p)] \in Names
  BY <1>1, <1>2, PathsAre DEF Last
<1> QED
  BY <1>1, <1>2, <1>3, <1>4, Cuts

(* A Note of a Directory.                                                    *)
LEMMA AppendIs ==
    ASSUME NEW d \in Paths, NEW name \in Names
    PROVE  /\ Append(d, name) \in Named /\ ContainingDir(Append(d, name)) = d
           /\ Len(Append(d, name)) = Len(d) + 1 /\ Append(d, name)[Len(d) + 1] = name
           /\ \A i \in 1..Len(d) : Append(d, name)[i] = d[i]
<1> DEFINE p == Append(d, name)
<1>1. /\ p \in Seq(Names) /\ p # <<>> /\ Len(p) = Len(d) + 1 /\ p[Len(d) + 1] = name
      /\ \A i \in 1..Len(d) : p[i] = d[i]
  BY AppendProperties DEF Paths
<1> HIDE DEF p
<1>2. p \in Named
  BY <1>1 DEF Named, Paths
<1>3. Len(d) \in Nat /\ Len(p) - 1 = Len(d)
  BY <1>1, PathsAre
<1>4. ContainingDir(p) = d
  <2>1. /\ ContainingDir(p) \in Paths /\ Len(ContainingDir(p)) = Len(d)
        /\ \A i \in 1..Len(d) : ContainingDir(p)[i] = d[i]
    BY <1>1, <1>2, <1>3, FrontIs
  <2> QED
    BY <2>1, SamePath
<1> QED
  BY <1>1, <1>2, <1>4 DEF p

(* The order in which a finite set is listed.                                *)
LEMMA OrderFacts ==
    ASSUME NEW S, IsFiniteSet(S)
    PROVE  /\ DOMAIN SetToSeq(S) = 1..Cardinality(S) /\ Cardinality(S) \in Nat
           /\ SetToSeq(S) \in Seq(S)
           /\ \A i \in DOMAIN SetToSeq(S) : SetToSeq(S)[i] \in S
           /\ \A i, j \in DOMAIN SetToSeq(S) : SetToSeq(S)[i] = SetToSeq(S)[j] => i = j
           /\ \A x \in S : \E i \in DOMAIN SetToSeq(S) : SetToSeq(S)[i] = x
<1>1. Cardinality(S) \in Nat
  BY FS_CardinalityType
<1> DEFINE n == Cardinality(S)
<1>2. \E f \in [1..n -> S] : IsInjective(f)
  <2>1. ExistsBijection(1..n, S)
    BY <1>1, FS_CardinalityType
  <2> QED
    BY <2>1 DEF ExistsBijection, Bijection, Injection
<1> DEFINE s == SetToSeq(S)
<1>3. s \in [1..n -> S] /\ IsInjective(s)
  BY <1>2 DEF SetToSeq
<1> HIDE DEF s, n
<1>4. s \in Seq(S)
  BY <1>1, <1>3 DEF n
<1>5. \A x \in S : \E i \in 1..n : s[i] = x
  <2> DEFINE T == {s[i] : i \in 1..n}
  <2>1. T \subseteq S
    BY <1>3
  <2>2. Cardinality(T) = n /\ IsFiniteSet(T)
    <3>1. ExistsBijection(1..n, T)
      <4>1. s \in [1..n -> T] /\ \A t \in T : \E i \in 1..n : s[i] = t
        BY <1>3
      <4>2. s \in Bijection(1..n, T)
        BY <1>3, <4>1 DEF Bijection, Injection, Surjection
      <4> QED
        BY <4>2 DEF ExistsBijection
    <3> HIDE DEF T
    <3> QED
      BY <1>1, <3>1, FS_CountingElements, FS_NatBijection DEF n
  <2>3. T = S
    BY <2>1, <2>2, FS_Subset DEF n
  <2> QED
    BY <2>3
<1> QED
  BY <1>1, <1>3, <1>4, <1>5 DEF s, n, IsInjective

(* Two Directories side by side: a rename gives one the name of the other.   *)
Siblings(old, new) ==
    /\ old \in Named /\ new \in Named /\ old # new /\ Len(old) = Len(new)
    /\ \A i \in 1..(Len(old) - 1) : old[i] = new[i]

LEMMA SiblingsAre ==
    ASSUME NEW old \in Named, NEW name \in Names, NEW new, new = Append(ContainingDir(old), name), new # old
    PROVE  Siblings(old, new) /\ Siblings(new, old)
<1>1. /\ ContainingDir(old) \in Paths /\ Len(ContainingDir(old)) = Len(old) - 1
      /\ \A i \in 1..(Len(old) - 1) : ContainingDir(old)[i] = old[i]
  BY FrontIs
<1>2. /\ new \in Named /\ Len(new) = Len(ContainingDir(old)) + 1
      /\ \A i \in 1..Len(ContainingDir(old)) : new[i] = ContainingDir(old)[i]
  BY <1>1, AppendIs
<1>3. Len(old) \in Nat
  BY PathsAre DEF Named
<1> QED
  BY <1>1, <1>2, <1>3 DEF Siblings

(* What a rename of a Directory makes of a path in it.                       *)
LEMMA MovedIs ==
    ASSUME NEW old \in Named, NEW new \in Named, Len(old) = Len(new), NEW p \in Paths, IsPrefix(old, p)
    PROVE  /\ Moved(p, old, new) \in Named /\ Len(Moved(p, old, new)) = Len(p)
           /\ \A i \in 1..Len(new) : Moved(p, old, new)[i] = new[i]
           /\ \A i \in (Len(old) + 1)..Len(p) : Moved(p, old, new)[i] = p[i]
<1>1. /\ Len(old) \in Nat /\ Len(old) > 0 /\ Len(new) \in Nat /\ Len(p) \in Nat /\ Len(old) <= Len(p)
      /\ \A i \in 1..Len(p) : p[i] \in Names
  BY PathsAre, PrefixMeans DEF Named
<1> DEFINE l == Len(old)
           rest == SubSeq(p, l + 1, Len(p))
           q == new \o rest
<1>2. /\ rest \in Seq(Names) /\ Len(rest) = Len(p) - l
      /\ \A i \in 1..(Len(p) - l) : rest[i] = p[l + i]
  <2>1. /\ \A i \in (l + 1)..Len(p) : p[i] \in Names
        /\ l + 1 \in Int /\ Len(p) \in Int /\ p \in Seq(Names) /\ l + 1 \in 1..(Len(p) + 1)
    BY <1>1 DEF Paths
  <2>2. /\ rest \in Seq(Names)
        /\ Len(rest) = IF l + 1 <= Len(p) THEN Len(p) - (l + 1) + 1 ELSE 0
        /\ \A i \in 1..(Len(p) - (l + 1) + 1) : rest[i] = p[l + 1 + i - 1]
    BY <2>1, SubSeqProperties
  <2>3. Len(p) - (l + 1) + 1 = Len(p) - l /\ \A i \in 1..(Len(p) - l) : l + 1 + i - 1 = l + i
    BY <1>1
  <2>4. (IF l + 1 <= Len(p) THEN Len(p) - l ELSE 0) = Len(p) - l
    BY <1>1
  <2> HIDE DEF rest
  <2> QED
    BY <2>2, <2>3, <2>4, Zenon
<1> HIDE DEF rest
<1>3. /\ q \in Seq(Names) /\ Len(q) = Len(new) + Len(rest)
      /\ \A i \in 1..(Len(new) + Len(rest)) : q[i] = IF i <= Len(new) THEN new[i] ELSE rest[i - Len(new)]
  BY <1>2, ConcatProperties DEF Named, Paths
<1> HIDE DEF q
<1>4. Len(q) = Len(p) /\ q # <<>> /\ q \in Named
  <2>1. Len(q) = Len(p)
    BY <1>1, <1>2, <1>3
  <2>2. q \in Paths
    BY <1>3 DEF Paths
  <2> QED
    BY <1>1, <2>1, <2>2, PathsAre DEF Named
<1>5. \A i \in 1..Len(new) : q[i] = new[i]
  BY <1>1, <1>2, <1>3
<1>6. ASSUME NEW i \in (l + 1)..Len(p) PROVE q[i] = p[i]
  <2>1. i \in Nat /\ ~(i <= Len(new)) /\ i \in 1..(Len(new) + Len(rest)) /\ i - Len(new) \in 1..(Len(p) - l)
    BY <1>1, <1>2
  <2>2. q[i] = rest[i - l]
    BY <1>1, <1>3, <2>1
  <2>3. rest[i - l] = p[l + (i - l)] /\ l + (i - l) = i
    BY <1>1, <1>2, <2>1
  <2> QED
    BY <2>2, <2>3
<1>7. q = Moved(p, old, new)
  BY DEF q, rest, Moved
<1> QED
  BY <1>4, <1>5, <1>6, <1>7

LEMMA MovedLands ==
    ASSUME NEW old, NEW new, Siblings(old, new), NEW p \in Paths, IsPrefix(old, p)
    PROVE  IsPrefix(new, Moved(p, old, new)) /\ ~IsPrefix(old, Moved(p, old, new))
<1> DEFINE q == Moved(p, old, new)
<1>1. /\ old \in Named /\ new \in Named /\ old \in Paths /\ new \in Paths /\ Len(old) = Len(new)
      /\ old # new /\ Len(old) \in Nat
  BY PathsAre DEF Siblings, Named
<1>2. q \in Paths /\ Len(q) = Len(p) /\ \A i \in 1..Len(new) : q[i] = new[i]
  BY <1>1, MovedIs DEF Named
<1>3. Len(old) <= Len(p)
  BY <1>1, PrefixMeans
<1> HIDE DEF q
<1>4. IsPrefix(new, q)
  BY <1>1, <1>2, <1>3, PrefixMeans
<1>5. ASSUME IsPrefix(old, q) PROVE FALSE
  <2>1. \A i \in 1..Len(old) : old[i] = q[i]
    BY <1>1, <1>2, <1>5, PrefixMeans
  <2> QED
    BY <1>1, <1>2, <2>1, SamePath
<1> QED
  BY <1>4, <1>5 DEF q

LEMMA MovedApart ==
    ASSUME NEW old, NEW new, Siblings(old, new),
           NEW p \in Paths, IsPrefix(old, p), NEW q \in Paths, IsPrefix(old, q),
           Moved(p, old, new) = Moved(q, old, new)
    PROVE  p = q
<1>1. /\ old \in Named /\ new \in Named /\ old \in Paths /\ Len(old) = Len(new) /\ Len(old) \in Nat
      /\ Len(p) \in Nat /\ Len(q) \in Nat
  BY PathsAre DEF Siblings, Named
<1>2. /\ Len(Moved(p, old, new)) = Len(p) /\ \A i \in (Len(old) + 1)..Len(p) : Moved(p, old, new)[i] = p[i]
      /\ Len(Moved(q, old, new)) = Len(q) /\ \A i \in (Len(old) + 1)..Len(q) : Moved(q, old, new)[i] = q[i]
  BY <1>1, MovedIs
<1>3. /\ \A i \in 1..Len(old) : old[i] = p[i]
      /\ \A i \in 1..Len(old) : old[i] = q[i]
  BY <1>1, PrefixMeans
<1>4. Len(p) = Len(q) /\ \A i \in (Len(old) + 1)..Len(p) : p[i] = q[i]
  BY <1>2
<1>5. \A i \in 1..Len(p) : p[i] = q[i]
  <2> TAKE i \in 1..Len(p)
  <2>1. i \in 1..Len(old) \/ i \in (Len(old) + 1)..Len(p)
    BY <1>1
  <2> QED
    BY <1>3, <1>4, <2>1
<1> QED
  BY <1>4, <1>5, SamePath

(* The Directory of a Note moves with it.                                    *)
LEMMA MovedHome ==
    ASSUME NEW old, NEW new, Siblings(old, new), NEW p \in Paths, Under(old, p)
    PROVE  /\ p \in Named /\ IsPrefix(old, ContainingDir(p))
           /\ ContainingDir(Moved(p, old, new)) = Moved(ContainingDir(p), old, new)
<1>1. /\ old \in Named /\ new \in Named /\ old \in Paths /\ Len(old) = Len(new) /\ Len(old) \in Nat
      /\ Len(p) \in Nat /\ Len(old) > 0
  BY PathsAre DEF Siblings, Named
<1>2. IsPrefix(old, p) /\ old # p
  BY DEF Under, IsStrictPrefix
<1>3. Len(old) <= Len(p) /\ \A i \in 1..Len(old) : old[i] = p[i]
  BY <1>1, <1>2, PrefixMeans
<1>4. Len(old) < Len(p) /\ p \in Named
  <2>1. Len(old) # Len(p)
    BY <1>1, <1>2, <1>3, SamePath
  <2> QED
    BY <1>1, <1>3, <2>1, PathsAre DEF Named
<1> DEFINE f == ContainingDir(p)
           q == Moved(p, old, new)
<1>5. f \in Paths /\ Len(f) = Len(p) - 1 /\ \A i \in 1..(Len(p) - 1) : f[i] = p[i]
  BY <1>4, FrontIs
<1>6. /\ q \in Named /\ Len(q) = Len(p) /\ \A i \in 1..Len(new) : q[i] = new[i]
      /\ \A i \in (Len(old) + 1)..Len(p) : q[i] = p[i]
  BY <1>1, <1>2, MovedIs
<1> HIDE DEF f, q
<1>7. IsPrefix(old, f)
  <2>1. Len(old) <= Len(f) /\ \A i \in 1..Len(old) : old[i] = f[i]
    BY <1>1, <1>3, <1>4, <1>5
  <2> QED
    BY <1>1, <1>5, <2>1, PrefixMeans
<1> DEFINE g == Moved(f, old, new)
           h == ContainingDir(q)
<1>8. /\ g \in Paths /\ Len(g) = Len(f) /\ \A i \in 1..Len(new) : g[i] = new[i]
      /\ \A i \in (Len(old) + 1)..Len(f) : g[i] = f[i]
  BY <1>1, <1>5, <1>7, MovedIs DEF Named
<1>9. h \in Paths /\ Len(h) = Len(q) - 1 /\ \A i \in 1..(Len(q) - 1) : h[i] = q[i]
  BY <1>6, FrontIs
<1> HIDE DEF g, h
<1>10. Len(h) = Len(g)
  BY <1>5, <1>6, <1>8, <1>9
<1>11. \A i \in 1..Len(h) : h[i] = g[i]
  <2> TAKE i \in 1..Len(h)
  <2>1. i \in 1..Len(new) \/ i \in (Len(old) + 1)..Len(f)
    BY <1>1, <1>8, <1>10, <1>5
  <2>2. i \in 1..(Len(p) - 1) /\ i \in 1..Len(p) /\ i \in 1..(Len(q) - 1)
    BY <1>1, <1>5, <1>6, <1>9
  <2>3. CASE i \in 1..Len(new)
    BY <1>6, <1>8, <1>9, <2>2, <2>3
  <2>4. CASE i \in (Len(old) + 1)..Len(f)
    <3>1. i \in (Len(old) + 1)..Len(p)
      BY <1>1, <1>5, <2>4
    <3> QED
      BY <1>5, <1>6, <1>8, <1>9, <2>2, <2>4, <3>1
  <2> QED
    BY <2>1, <2>3, <2>4
<1>12. h = g
  BY <1>8, <1>9, <1>10, <1>11, SamePath
<1> QED
  BY <1>4, <1>7, <1>12 DEF f, g, h, q

(* What is above a Directory that moved: what was above it moved too, or is  *)
(* above the Directory that was renamed.                                     *)
LEMMA SiblingsAbove ==
    ASSUME NEW old, NEW new, Siblings(old, new), NEW a \in Ancestors(new), a # new
    PROVE  a \in Ancestors(old) /\ ~IsPrefix(old, a) /\ a \in Named
<1>1. /\ old \in Named /\ new \in Named /\ old \in Paths /\ new \in Paths /\ Len(old) = Len(new)
      /\ Len(old) \in Nat /\ \A i \in 1..(Len(old) - 1) : old[i] = new[i]
  BY PathsAre DEF Siblings, Named
<1>2. a \in Named /\ a \in Paths /\ Len(a) \in Nat /\ IsPrefix(a, new)
  BY <1>1, AncestorsAre, PathsAre DEF Named
<1>3. Len(a) <= Len(new) /\ \A i \in 1..Len(a) : a[i] = new[i]
  BY <1>1, <1>2, PrefixMeans
<1>4. Len(a) # Len(new)
  BY <1>1, <1>2, <1>3, SamePath
<1>5. \A i \in 1..Len(a) : i \in 1..(Len(old) - 1)
  BY <1>1, <1>2, <1>3, <1>4
<1>6. IsPrefix(a, old)
  <2>1. Len(a) <= Len(old) /\ \A i \in 1..Len(a) : a[i] = old[i]
    BY <1>1, <1>3, <1>5
  <2> QED
    BY <1>1, <1>2, <2>1, PrefixMeans
<1>7. ~IsPrefix(old, a)
  <2>1. IsPrefix(old, a) => Len(old) <= Len(a)
    BY <1>1, <1>2, PrefixMeans
  <2> QED
    BY <1>1, <1>2, <1>3, <1>4, <2>1
<1> QED
  BY <1>1, <1>2, <1>6, <1>7, AncestorsAre

LEMMA MovedAbove ==
    ASSUME NEW old, NEW new, Siblings(old, new), NEW d \in Paths, IsPrefix(old, d),
           NEW a \in Ancestors(Moved(d, old, new))
    PROVE  \/ a \in Ancestors(new)
           \/ \E b \in Ancestors(d) : IsPrefix(old, b) /\ a = Moved(b, old, new)
<1>1. /\ old \in Named /\ new \in Named /\ old \in Paths /\ new \in Paths /\ Len(old) = Len(new)
      /\ Len(old) \in Nat /\ Len(d) \in Nat /\ Len(old) <= Len(d) /\ \A i \in 1..Len(old) : old[i] = d[i]
  BY PathsAre, PrefixMeans DEF Siblings, Named
<1> DEFINE e == Moved(d, old, new)
<1>2. /\ e \in Paths /\ Len(e) = Len(d) /\ \A i \in 1..Len(new) : e[i] = new[i]
      /\ \A i \in (Len(old) + 1)..Len(d) : e[i] = d[i]
  BY <1>1, MovedIs DEF Named
<1>3. a \in Ancestors(e)
  OBVIOUS
<1> HIDE DEF e
<1>4. a \in Named /\ a \in Paths /\ IsPrefix(a, e) /\ Len(a) \in Nat
  BY <1>2, <1>3, AncestorsAre, PathsAre DEF Named
<1>5. Len(a) <= Len(e) /\ \A i \in 1..Len(a) : a[i] = e[i]
  BY <1>2, <1>4, PrefixMeans
<1>6. CASE Len(a) <= Len(new)
  <2>1. \A i \in 1..Len(a) : i \in 1..Len(new) /\ a[i] = new[i]
    BY <1>1, <1>2, <1>4, <1>5, <1>6
  <2>2. IsPrefix(a, new)
    BY <1>1, <1>4, <1>6, <2>1, PrefixMeans
  <2> QED
    BY <1>1, <1>4, <2>2, AncestorsAre
<1>7. CASE Len(a) > Len(new)
  <2> DEFINE b == SubSeq(d, 1, Len(a))
  <2>1. Len(a) \in 0..Len(d)
    BY <1>2, <1>4, <1>5
  <2>2. b \in Paths /\ Len(b) = Len(a) /\ \A i \in 1..Len(a) : b[i] = d[i]
    BY <2>1, Cuts
  <2> HIDE DEF b
  <2>3. b \in Named
    BY <1>1, <1>4, <1>7, <2>2, PathsAre DEF Named
  <2>4. IsPrefix(b, d)
    BY <1>2, <1>5, <2>2, PrefixMeans
  <2>5. IsPrefix(old, b)
    <3>1. Len(old) <= Len(b) /\ \A i \in 1..Len(old) : old[i] = b[i]
      BY <1>1, <1>7, <1>4, <2>2
    <3> QED
      BY <1>1, <2>2, <3>1, PrefixMeans
  <2> DEFINE m == Moved(b, old, new)
  <2>6. /\ m \in Paths /\ Len(m) = Len(b) /\ \A i \in 1..Len(new) : m[i] = new[i]
        /\ \A i \in (Len(old) + 1)..Len(b) : m[i] = b[i]
    BY <1>1, <2>2, <2>5, MovedIs DEF Named
  <2> HIDE DEF m
  <2>7. ASSUME NEW i \in 1..Len(a) PROVE a[i] = m[i]
    <3>1. CASE i \in 1..Len(new)
      BY <1>2, <1>5, <2>6, <3>1
    <3>2. CASE i \in (Len(old) + 1)..Len(a)
      <4>1. i \in (Len(old) + 1)..Len(d)
        BY <1>1, <1>2, <1>4, <1>5, <3>2
      <4> QED
        BY <1>2, <1>5, <2>2, <2>6, <3>2, <4>1
    <3> QED
      BY <1>1, <1>4, <3>1, <3>2
  <2>8. a = m
    BY <1>4, <2>2, <2>6, <2>7, SamePath
  <2> QED
    BY <2>3, <2>4, <2>5, <2>8, AncestorsAre DEF m
<1> QED
  BY <1>1, <1>4, <1>6, <1>7

LEMMA MovedItself ==
    ASSUME NEW old, NEW new, Siblings(old, new)
    PROVE  Moved(old, old, new) = new /\ IsPrefix(old, old)
<1>1. /\ old \in Named /\ new \in Named /\ old \in Paths /\ new \in Paths /\ Len(old) = Len(new)
      /\ Len(old) \in Nat
  BY PathsAre DEF Siblings, Named
<1>2. IsPrefix(old, old)
  BY <1>1, PrefixMeans
<1> DEFINE m == Moved(old, old, new)
<1>3. m \in Paths /\ Len(m) = Len(old) /\ \A i \in 1..Len(new) : m[i] = new[i]
  BY <1>1, <1>2, MovedIs DEF Named
<1> HIDE DEF m
<1>4. m = new
  BY <1>1, <1>3, SamePath
<1> QED
  BY <1>2, <1>4 DEF m

-----------------------------------------------------------------------------
(* The tree.                                                                 *)

(* A set of Directories with every Directory above one of them, and Notes    *)
(* each of whose Directories is in it.                                       *)
Rooted(D) == D \subseteq Named /\ \A d \in D : Ancestors(d) \subseteq D
Homes(D, ids) == ids \subseteq Named /\ \A id \in ids : Ancestors(ContainingDir(id)) \subseteq D

LEMMA AboveClosed ==
    ASSUME NEW d \in Paths
    PROVE  Rooted(Ancestors(d))
<1>1. \A a : a \in Ancestors(d) <=> a \in Named /\ IsPrefix(a, d)
  BY AncestorsAre
<1>2. ASSUME NEW a \in Ancestors(d), NEW b \in Ancestors(a) PROVE b \in Ancestors(d)
  <2>1. a \in Paths /\ IsPrefix(a, d)
    BY <1>1 DEF Named
  <2>2. b \in Paths /\ b \in Named /\ IsPrefix(b, a)
    BY <2>1, AncestorsAre DEF Named
  <2> QED
    BY <1>1, <2>1, <2>2, PrefixSteps
<1> QED
  BY <1>1, <1>2 DEF Rooted

(* The Directories of a set when one of them takes the name of a sibling.    *)
Shifted(D, old, new) == {IF IsPrefix(old, d) THEN Moved(d, old, new) ELSE d : d \in D}

LEMMA ShiftClosed ==
    ASSUME NEW D, Rooted(D), NEW old, NEW new, Siblings(old, new),
           NEW E, E = Shifted(D, old, new) \cup Ancestors(new)
    PROVE  Rooted(E)
<1>1. old \in Named /\ new \in Named /\ new \in Paths /\ Len(old) = Len(new)
  BY DEF Siblings, Named
<1>2. Rooted(Ancestors(new))
  BY <1>1, AboveClosed
<1>3. ASSUME NEW d \in D, IsPrefix(old, d)
      PROVE  Moved(d, old, new) \in Named /\ Ancestors(Moved(d, old, new)) \subseteq E
  <2>1. d \in Paths /\ Moved(d, old, new) \in Named
    BY <1>1, <1>3, MovedIs DEF Rooted, Named
  <2>2. ASSUME NEW a \in Ancestors(Moved(d, old, new)) PROVE a \in E
    <3>1. \/ a \in Ancestors(new)
          \/ \E b \in Ancestors(d) : IsPrefix(old, b) /\ a = Moved(b, old, new)
      BY <1>3, <2>1, MovedAbove
    <3>2. Ancestors(d) \subseteq D
      BY DEF Rooted
    <3> QED
      BY <3>1, <3>2 DEF Shifted
  <2> QED
    BY <2>1, <2>2
<1>4. ASSUME NEW d \in D, ~IsPrefix(old, d)
      PROVE  d \in Named /\ Ancestors(d) \subseteq E
  <2>1. d \in Named /\ d \in Paths /\ Ancestors(d) \subseteq D
    BY DEF Rooted, Named
  <2>2. ASSUME NEW a \in Ancestors(d) PROVE a \in E
    <3>1. a \in Paths /\ IsPrefix(a, d) /\ old \in Paths
      BY <1>1, <2>1, AncestorsAre DEF Named
    <3>2. ~IsPrefix(old, a)
      BY <1>4, <2>1, <3>1, PrefixSteps
    <3> QED
      BY <2>1, <3>2 DEF Shifted
  <2> QED
    BY <2>1, <2>2
<1>5. ASSUME NEW e \in E PROVE e \in Named /\ Ancestors(e) \subseteq E
  <2>1. CASE e \in Ancestors(new)
    BY <1>2, <2>1 DEF Rooted
  <2>2. CASE e \in Shifted(D, old, new)
    <3>1. PICK d \in D : e = IF IsPrefix(old, d) THEN Moved(d, old, new) ELSE d
      BY <2>2 DEF Shifted
    <3> QED
      BY <1>3, <1>4, <3>1
  <2> QED
    BY <2>1, <2>2
<1> QED
  BY <1>5 DEF Rooted

LEMMA HomeUnder ==
    ASSUME NEW id \in Named, NEW dir \in Paths, NEW a \in Ancestors(ContainingDir(id)), IsPrefix(dir, a)
    PROVE  Under(dir, id)
<1>1. /\ ContainingDir(id) \in Paths /\ id \in Paths /\ Len(ContainingDir(id)) = Len(id) - 1
      /\ \A i \in 1..(Len(id) - 1) : ContainingDir(id)[i] = id[i]
  BY FrontIs DEF Named
<1>2. a \in Paths /\ IsPrefix(a, ContainingDir(id))
  BY <1>1, AncestorsAre DEF Named
<1>3. IsPrefix(dir, ContainingDir(id))
  BY <1>1, <1>2, PrefixSteps
<1>4. /\ Len(dir) <= Len(id) - 1 /\ \A i \in 1..Len(dir) : dir[i] = ContainingDir(id)[i]
      /\ Len(dir) \in Nat /\ Len(id) \in Nat
  BY <1>1, <1>3, PrefixMeans, PathsAre
<1>5. Len(dir) <= Len(id) /\ Len(dir) # Len(id) /\ \A i \in 1..Len(dir) : dir[i] = id[i]
  BY <1>1, <1>4
<1> QED
  BY <1>1, <1>5, PrefixMeans DEF Under, IsStrictPrefix

(* The Directories of a set when one of them goes with all under it.         *)
Dropped(D, dir) == {d \in D : ~IsPrefix(dir, d)}

LEMMA DropClosed ==
    ASSUME NEW D, Rooted(D), NEW ids, Homes(D, ids), NEW dir \in Paths, \A id \in ids : ~Under(dir, id)
    PROVE  Rooted(Dropped(D, dir)) /\ Homes(Dropped(D, dir), ids)
<1>1. ASSUME NEW d \in D, ~IsPrefix(dir, d), NEW a \in Ancestors(d) PROVE a \in Dropped(D, dir)
  <2>1. d \in Paths /\ a \in D /\ a \in Paths
    BY DEF Rooted, Named
  <2>2. IsPrefix(a, d)
    BY <2>1, AncestorsAre
  <2> QED
    BY <1>1, <2>1, <2>2, PrefixSteps DEF Dropped
<1>2. ASSUME NEW id \in ids, NEW a \in Ancestors(ContainingDir(id)) PROVE a \in Dropped(D, dir)
  <2>1. id \in Named /\ a \in D /\ ~Under(dir, id)
    BY DEF Homes
  <2> QED
    BY <2>1, HomeUnder DEF Dropped
<1> QED
  BY <1>1, <1>2 DEF Rooted, Homes, Dropped

(* A Note of a Directory whose name a sibling took, and one of another.      *)
ShiftedNote(id, old, new) == IF Under(old, id) THEN Moved(id, old, new) ELSE id

LEMMA ShiftHome ==
    ASSUME NEW D, Rooted(D), NEW old, NEW new, Siblings(old, new),
           NEW E, E = Shifted(D, old, new) \cup Ancestors(new),
           NEW id, Homes(D, {id})
    PROVE  Homes(E, {ShiftedNote(id, old, new)}) /\ ~Under(old, ShiftedNote(id, old, new))
<1>1. old \in Named /\ old \in Paths /\ new \in Named /\ Len(old) = Len(new)
  BY DEF Siblings, Named
<1> DEFINE home == ContainingDir(id)
           q == ShiftedNote(id, old, new)
<1>2. id \in Named /\ id \in Paths /\ home \in Paths /\ Ancestors(home) \subseteq D
  BY FrontIs DEF Homes, Named
<1>3. CASE Under(old, id)
  <2>0. q = Moved(id, old, new)
    BY <1>3 DEF ShiftedNote
  <2> HIDE DEF q
  <2>1. /\ q = Moved(id, old, new) /\ IsPrefix(old, id) /\ IsPrefix(old, home)
        /\ ContainingDir(q) = Moved(home, old, new)
    BY <1>2, <1>3, <2>0, MovedHome DEF Under, IsStrictPrefix
  <2>2. q \in Named /\ ~IsPrefix(old, q)
    BY <1>1, <1>2, <2>1, MovedIs, MovedLands
  <2>3. ASSUME NEW a \in Ancestors(ContainingDir(q)) PROVE a \in E
    <3>1. \/ a \in Ancestors(new)
          \/ \E b \in Ancestors(home) : IsPrefix(old, b) /\ a = Moved(b, old, new)
      <4> HIDE DEF home
      <4> QED
        BY <1>2, <2>1, MovedAbove
    <3> QED
      BY <1>2, <3>1 DEF Shifted
  <2>4. Homes(E, {q}) /\ ~Under(old, q)
    BY <2>2, <2>3 DEF Homes, Under, IsStrictPrefix
  <2> QED
    BY <2>4 DEF q
<1>4. CASE ~Under(old, id)
  <2>0. q = id
    BY <1>4 DEF ShiftedNote
  <2> HIDE DEF q
  <2>1. ASSUME NEW a \in Ancestors(home) PROVE a \in E
    <3>1. a \in D /\ ~IsPrefix(old, a)
      BY <1>1, <1>2, <1>4, HomeUnder
    <3> QED
      BY <3>1 DEF Shifted
  <2>2. Homes(E, {q}) /\ ~Under(old, q)
    BY <1>2, <1>4, <2>0, <2>1 DEF Homes
  <2> QED
    BY <2>2 DEF q
<1> QED
  BY <1>3, <1>4

(* The rows of this Workspace: its Directories and its Notes.                *)
Paired(S) == \A r \in S : r = <<r[1], r[2]>>
DirsOf(t) == {r[2] : r \in {d \in t.dirs : d[1] = Here}}
RowIds(t) == {k[2] : k \in KeysOf(t, Here)}

Placed(t) ==
    /\ Paired(DOMAIN t.notes) /\ Paired(t.dirs)
    /\ Rooted(DirsOf(t)) /\ Homes(DirsOf(t), RowIds(t))

Fine(t) == Sound(t) /\ Placed(t)

LEMMA RowsAre ==
    ASSUME NEW t, Paired(DOMAIN t.notes), Paired(t.dirs)
    PROVE  /\ \A d : d \in DirsOf(t) <=> <<Here, d>> \in t.dirs
           /\ \A id : id \in RowIds(t) <=> <<Here, id>> \in DOMAIN t.notes
BY DEF Paired, DirsOf, RowIds, KeysOf

LEMMA WriteFine ==
    ASSUME NEW t, Fine(t), NEW notes, Listed(notes), IdsOf(notes) \subseteq Named,
           NEW u, u = WriteNoteRows(t, Here, notes)
    PROVE  /\ Fine(u) /\ Beside(t, u) /\ RowIds(u) = RowIds(t) \cup IdsOf(notes)
           /\ DirsOf(u) = DirsOf(t) \cup UNION {Ancestors(ContainingDir(id)) : id \in IdsOf(notes)}
<1> DEFINE ids == IdsOf(notes)
           above == UNION {Ancestors(ContainingDir(id)) : id \in ids}
<1>1. /\ Sound(u) /\ DOMAIN u.notes = DOMAIN t.notes \cup NoteKeys(Here, ids)
      /\ \A k \in DOMAIN t.notes \ NoteKeys(Here, ids) : u.notes[k] = t.notes[k]
      /\ u.dirs = t.dirs \cup {<<Here, a>> : a \in above}
  BY WriteSound DEF Fine
<1> HIDE DEF ids, above
<1>2. Paired(DOMAIN u.notes) /\ Paired(u.dirs) /\ Paired(DOMAIN t.notes) /\ Paired(t.dirs)
  BY <1>1 DEF Fine, Placed, Paired, NoteKeys
<1>3. RowIds(u) = RowIds(t) \cup ids /\ DirsOf(u) = DirsOf(t) \cup above
  <2>1. \A id : id \in RowIds(u) <=> id \in RowIds(t) \/ id \in ids
    BY <1>1, <1>2, RowsAre DEF NoteKeys
  <2>2. \A d : d \in DirsOf(u) <=> d \in DirsOf(t) \/ d \in above
    <3>1. \A d : (d \in DirsOf(u) <=> <<Here, d>> \in u.dirs) /\ (d \in DirsOf(t) <=> <<Here, d>> \in t.dirs)
      BY <1>2, RowsAre
    <3>2. u.dirs = t.dirs \cup {<<Here, a>> : a \in above}
      BY <1>1
    <3> QED
      BY <3>1, <3>2
  <2> QED
    BY <2>1, <2>2
<1>4. ids \subseteq Named /\ \A id \in ids : Rooted(Ancestors(ContainingDir(id)))
  BY FrontIs, AboveClosed DEF ids
<1>5. Rooted(DirsOf(u)) /\ Homes(DirsOf(u), RowIds(u))
  <2>1. Rooted(above) /\ Homes(above, ids)
    BY <1>4 DEF Rooted, Homes, above
  <2> QED
    BY <1>3, <2>1 DEF Fine, Placed, Rooted, Homes
<1>6. Beside(t, u)
  BY <1>1 DEF Beside, NoteKeys
<1> QED
  BY <1>1, <1>2, <1>3, <1>5, <1>6 DEF Fine, Placed, ids, above

LEMMA RemoveFine ==
    ASSUME NEW t, Fine(t), NEW ids, NEW u, u = RemoveNoteRows(t, Here, ids)
    PROVE  Fine(u) /\ Beside(t, u) /\ RowIds(u) = RowIds(t) \ ids /\ DirsOf(u) = DirsOf(t)
<1>1. /\ Sound(u) /\ DOMAIN u.notes = DOMAIN t.notes \ NoteKeys(Here, ids) /\ u.dirs = t.dirs
      /\ \A k \in DOMAIN u.notes : u.notes[k] = t.notes[k]
  BY RemoveSound DEF Fine
<1>2. Paired(DOMAIN u.notes) /\ Paired(u.dirs) /\ Paired(DOMAIN t.notes) /\ Paired(t.dirs)
  BY <1>1 DEF Fine, Placed, Paired
<1>3. RowIds(u) = RowIds(t) \ ids /\ DirsOf(u) = DirsOf(t)
  <2>1. \A id : id \in RowIds(u) <=> id \in RowIds(t) /\ id \notin ids
    BY <1>1, <1>2, RowsAre DEF NoteKeys
  <2> QED
    BY <1>1, <2>1 DEF DirsOf
<1>4. Rooted(DirsOf(u)) /\ Homes(DirsOf(u), RowIds(u))
  BY <1>3 DEF Fine, Placed, Homes
<1>5. Beside(t, u)
  BY <1>1 DEF Beside, NoteKeys
<1> QED
  BY <1>1, <1>2, <1>3, <1>4, <1>5 DEF Fine, Placed

LEMMA RecordFine ==
    ASSUME NEW t, Fine(t), NEW dir \in Paths, NEW u, u = RecordDirectories(t, Here, {dir})
    PROVE  /\ Fine(u) /\ Beside(t, u) /\ u.notes = t.notes /\ u.links = t.links
           /\ DirsOf(u) = DirsOf(t) \cup Ancestors(dir)
<1>1. /\ Sound(u) /\ u.notes = t.notes /\ u.links = t.links
      /\ u.dirs = t.dirs \cup {<<Here, a>> : a \in UNION {Ancestors(d) : d \in {dir}}}
  BY RecordSound DEF Fine
<1>2. u.dirs = t.dirs \cup {<<Here, a>> : a \in Ancestors(dir)}
  BY <1>1
<1>3. Paired(DOMAIN u.notes) /\ Paired(u.dirs) /\ Paired(DOMAIN t.notes) /\ Paired(t.dirs)
  <2>1. Paired(DOMAIN t.notes) /\ Paired(t.dirs)
    BY DEF Fine, Placed
  <2>2. u.notes = t.notes
    BY <1>1
  <2> QED
    BY <1>2, <2>1, <2>2 DEF Paired
<1>4. RowIds(u) = RowIds(t) /\ DirsOf(u) = DirsOf(t) \cup Ancestors(dir)
  <2>1. \A d : d \in DirsOf(u) <=> d \in DirsOf(t) \/ d \in Ancestors(dir)
    <3>1. \A d : (d \in DirsOf(u) <=> <<Here, d>> \in u.dirs) /\ (d \in DirsOf(t) <=> <<Here, d>> \in t.dirs)
      BY <1>3, RowsAre
    <3> QED
      BY <1>2, <3>1
  <2> QED
    BY <1>1, <2>1 DEF RowIds, KeysOf
<1>5. Rooted(DirsOf(u)) /\ Homes(DirsOf(u), RowIds(u))
  <2>1. Rooted(Ancestors(dir))
    BY AboveClosed
  <2> QED
    BY <1>4, <2>1 DEF Fine, Placed, Rooted, Homes
<1> QED
  BY <1>1, <1>3, <1>4, <1>5 DEF Fine, Placed, Beside

LEMMA ScanFine ==
    ASSUME NEW t, Fine(t), NEW dirs, Rooted(dirs), NEW notes, Listed(notes), Homes(dirs, IdsOf(notes)),
           NEW u, u = WriteScannedBundle(t, Here, dirs, notes)
    PROVE  Fine(u) /\ Beside(t, u) /\ RowIds(u) = IdsOf(notes) /\ DirsOf(u) = dirs
<1> DEFINE ids == IdsOf(notes)
<1>1. /\ Sound(u) /\ DOMAIN u.notes = (DOMAIN t.notes \ KeysOf(t, Here)) \cup NoteKeys(Here, ids)
      /\ \A k \in DOMAIN t.notes \ KeysOf(t, Here) : u.notes[k] = t.notes[k]
      /\ u.dirs = {d \in t.dirs : d[1] # Here} \cup {<<Here, d>> : d \in dirs}
  BY ScanSound DEF Fine
<1> HIDE DEF ids
<1>2. Paired(DOMAIN u.notes) /\ Paired(u.dirs)
  BY <1>1 DEF Fine, Placed, Paired, NoteKeys
<1>3. RowIds(u) = ids /\ DirsOf(u) = dirs
  <2>1. \A id : id \in RowIds(u) <=> id \in ids
    <3>1. \A id : id \in RowIds(u) <=> <<Here, id>> \in DOMAIN u.notes
      BY <1>2, RowsAre
    <3> QED
      BY <1>1, <3>1 DEF NoteKeys, KeysOf
  <2>2. \A d : d \in DirsOf(u) <=> d \in dirs
    <3>1. \A d : d \in DirsOf(u) <=> <<Here, d>> \in u.dirs
      BY <1>2, RowsAre
    <3>2. u.dirs = {d \in t.dirs : d[1] # Here} \cup {<<Here, d>> : d \in dirs}
      BY <1>1
    <3> QED
      BY <3>1, <3>2
  <2> QED
    BY <2>1, <2>2
<1>4. Beside(t, u)
  BY <1>1 DEF Beside, NoteKeys, KeysOf
<1> QED
  BY <1>1, <1>2, <1>3, <1>4 DEF Fine, Placed, ids

(* The rows of a Directory go, and it goes, with what is under it.           *)
LEMMA DropFine ==
    ASSUME NEW t, Fine(t), NEW dir \in Named, \A id \in RowIds(t) : ~Under(dir, id),
           NEW u, u = [t EXCEPT !.dirs = {d \in @ : d[1] # Here \/ ~IsPrefix(dir, d[2])}]
    PROVE  /\ Fine(u) /\ Beside(t, u) /\ u.notes = t.notes /\ u.links = t.links
           /\ DirsOf(u) = Dropped(DirsOf(t), dir)
<1>1. u = [t EXCEPT !.dirs = {d \in t.dirs : d[1] # Here \/ ~IsPrefix(dir, d[2])}]
  OBVIOUS
<1>2. /\ Sound(u) /\ u.notes = t.notes /\ u.links = t.links
      /\ u.dirs = {d \in t.dirs : d[1] # Here \/ ~IsPrefix(dir, d[2])}
  BY <1>1, DirectoriesSound DEF Fine
<1>3. Paired(DOMAIN u.notes) /\ Paired(u.dirs) /\ Paired(DOMAIN t.notes) /\ Paired(t.dirs)
  BY <1>2 DEF Fine, Placed, Paired
<1>4. RowIds(u) = RowIds(t) /\ DirsOf(u) = Dropped(DirsOf(t), dir)
  <2>1. \A d : (d \in DirsOf(u) <=> <<Here, d>> \in u.dirs) /\ (d \in DirsOf(t) <=> <<Here, d>> \in t.dirs)
    BY <1>3, RowsAre
  <2>2. \A d : d \in DirsOf(u) <=> d \in DirsOf(t) /\ ~IsPrefix(dir, d)
    BY <1>2, <2>1
  <2> QED
    BY <1>2, <2>2 DEF RowIds, KeysOf, Dropped
<1>5. Rooted(DirsOf(u)) /\ Homes(DirsOf(u), RowIds(u))
  BY <1>4, DropClosed DEF Fine, Placed, Named
<1> QED
  BY <1>2, <1>3, <1>4, <1>5 DEF Fine, Placed, Beside

(* A Directory takes the name of a sibling, with what is under it.           *)
LEMMA RekeyFine ==
    ASSUME NEW t, Fine(t), NEW old, NEW new, Siblings(old, new), \A id \in RowIds(t) : ~Under(old, id),
           NEW u, u = RekeyDirectories(t, Here, old, new)
    PROVE  /\ Fine(u) /\ Beside(t, u) /\ u.notes = t.notes /\ u.links = t.links
           /\ DirsOf(u) = Shifted(DirsOf(t), old, new) \cup Ancestors(new)
<1> DEFINE shift(d) == IF d[1] = Here /\ IsPrefix(old, d[2]) THEN <<Here, Moved(d[2], old, new)>> ELSE d
           dirs == {shift(d) : d \in t.dirs}
           v == [t EXCEPT !.dirs = dirs]
<1>1. u = RecordDirectories(v, Here, {new})
  BY DEF RekeyDirectories
<1>2. Paired(DOMAIN t.notes) /\ Paired(t.dirs) /\ Paired(dirs)
  BY DEF Fine, Placed, Paired
<1>3. \A d : <<Here, d>> \in dirs <=> d \in Shifted(DirsOf(t), old, new)
  <2>1. \A d : d \in DirsOf(t) <=> <<Here, d>> \in t.dirs
    BY <1>2, RowsAre
  <2>2. ASSUME NEW d, <<Here, d>> \in dirs PROVE d \in Shifted(DirsOf(t), old, new)
    <3>1. PICK e \in t.dirs : <<Here, d>> = shift(e)
      BY <2>2
    <3>2. e = <<e[1], e[2]>>
      BY <1>2 DEF Paired
    <3>3. e[1] = Here /\ d = IF IsPrefix(old, e[2]) THEN Moved(e[2], old, new) ELSE e[2]
      BY <3>1, <3>2
    <3> QED
      BY <2>1, <3>2, <3>3 DEF Shifted
  <2>3. ASSUME NEW d \in Shifted(DirsOf(t), old, new) PROVE <<Here, d>> \in dirs
    <3>1. PICK e \in DirsOf(t) : d = IF IsPrefix(old, e) THEN Moved(e, old, new) ELSE e
      BY DEF Shifted
    <3>2. <<Here, e>> \in t.dirs
      BY <2>1
    <3>3. shift(<<Here, e>>) = <<Here, d>>
      BY <3>1
    <3> QED
      BY <3>2, <3>3
  <2> QED
    BY <2>2, <2>3
<1> HIDE DEF dirs
<1>4. Sound(v) /\ v.notes = t.notes /\ v.dirs = dirs /\ v.links = t.links
  BY DirectoriesSound DEF Fine
<1> HIDE DEF v
<1>5. /\ Sound(u) /\ u.notes = t.notes /\ u.links = t.links
      /\ u.dirs = dirs \cup {<<Here, a>> : a \in UNION {Ancestors(d) : d \in {new}}}
  BY <1>1, <1>4, RecordSound
<1>6. u.dirs = dirs \cup {<<Here, a>> : a \in Ancestors(new)}
  BY <1>5
<1>7. Paired(DOMAIN u.notes) /\ Paired(u.dirs)
  BY <1>2, <1>5, <1>6 DEF Paired
<1>8. RowIds(u) = RowIds(t) /\ DirsOf(u) = Shifted(DirsOf(t), old, new) \cup Ancestors(new)
  <2>1. \A d : d \in DirsOf(u) <=> <<Here, d>> \in u.dirs
    BY <1>7, RowsAre
  <2>2. \A d : d \in DirsOf(u) <=> d \in Shifted(DirsOf(t), old, new) \/ d \in Ancestors(new)
    BY <1>3, <1>6, <2>1
  <2> QED
    BY <1>5, <2>2 DEF RowIds, KeysOf
<1>9. Rooted(DirsOf(u))
  BY <1>8, ShiftClosed DEF Fine, Placed
<1>10. Homes(DirsOf(u), RowIds(u))
  <2>1. ASSUME NEW id \in RowIds(t) PROVE Homes(DirsOf(u), {id})
    <3>1. Rooted(DirsOf(t)) /\ Homes(DirsOf(t), {id})
      BY DEF Fine, Placed, Homes
    <3>2. ShiftedNote(id, old, new) = id
      BY DEF ShiftedNote
    <3>3. Homes(DirsOf(u), {ShiftedNote(id, old, new)})
      BY <1>8, <3>1, ShiftHome
    <3> QED
      BY <3>2, <3>3
  <2> QED
    BY <1>8, <2>1 DEF Homes
<1> QED
  BY <1>5, <1>7, <1>8, <1>9, <1>10 DEF Fine, Placed, Beside

LEMMA RetargetFine ==
    ASSUME NEW t, Fine(t), NEW remap, NEW u, u = Retarget(t, Here, remap)
    PROVE  Fine(u) /\ Beside(t, u) /\ RowIds(u) = RowIds(t) /\ DirsOf(u) = DirsOf(t)
<1>1. Sound(u) /\ u.notes = t.notes /\ u.dirs = t.dirs
  BY RetargetSound DEF Fine
<1> QED
  BY <1>1 DEF Fine, Placed, Beside, RowIds, KeysOf, DirsOf

-----------------------------------------------------------------------------
(* The bundle, the scan and the idle write.                                  *)

(* Every Directory above a file is there.                                    *)
Housed(held, dirs) == IsFiniteSet(DOMAIN held) /\ Rooted(dirs) /\ Homes(dirs, DOMAIN held)

LEMMA FileAdded ==
    ASSUME NEW held, NEW dirs, Housed(held, dirs), NEW id \in Named, NEW text,
           NEW now, now = Updated(held, [p \in {id} |-> text])
    PROVE  Housed(now, dirs \cup Ancestors(ContainingDir(id)))
<1>1. DOMAIN now = DOMAIN held \cup {id}
  BY DEF Updated
<1>2. IsFiniteSet(DOMAIN now)
  BY <1>1, FS_AddElement DEF Housed
<1>3. Rooted(Ancestors(ContainingDir(id)))
  BY FrontIs, AboveClosed
<1> QED
  BY <1>1, <1>2, <1>3 DEF Housed, Rooted, Homes

LEMMA FilesGone ==
    ASSUME NEW held, NEW dirs, Housed(held, dirs), NEW gone, NEW now, now = Without(held, gone)
    PROVE  Housed(now, dirs) /\ DOMAIN now = DOMAIN held \ gone
<1>1. DOMAIN now = DOMAIN held \ gone
  BY DEF Without
<1>2. IsFiniteSet(DOMAIN now)
  BY <1>1, FS_Difference DEF Housed
<1> QED
  BY <1>1, <1>2 DEF Housed, Homes

LEMMA DirectoryGone ==
    ASSUME NEW held, NEW dirs, Housed(held, dirs), NEW dir \in Paths,
           NEW now, now = Without(held, {id \in DOMAIN held : Under(dir, id)})
    PROVE  Housed(now, {f \in dirs : ~IsPrefix(dir, f)})
<1>1. Housed(now, dirs) /\ DOMAIN now = DOMAIN held \ {id \in DOMAIN held : Under(dir, id)}
  BY FilesGone
<1>2. Rooted(Dropped(dirs, dir)) /\ Homes(Dropped(dirs, dir), DOMAIN now)
  BY <1>1, DropClosed DEF Housed
<1> QED
  BY <1>1, <1>2 DEF Housed, Dropped

(* The walk takes a Directory only with those above it.                      *)
LEMMA WalkFits ==
    ASSUME NEW held, NEW dirs, Housed(held, dirs)
    PROVE  /\ Rooted(WalkDirectories(dirs)) /\ Homes(WalkDirectories(dirs), WalkNotes(held))
           /\ IsFiniteSet(WalkNotes(held)) /\ WalkNotes(held) \subseteq DOMAIN held
<1>1. ASSUME NEW p \in Paths, Walkable(p), NEW a \in Paths, IsPrefix(a, p) PROVE Walkable(a)
  <2>1. /\ DOMAIN a = 1..Len(a) /\ DOMAIN p = 1..Len(p) /\ Len(a) <= Len(p) /\ Len(a) \in Nat /\ Len(p) \in Nat
        /\ \A i \in 1..Len(a) : a[i] = p[i]
    BY <1>1, PathsAre, PrefixMeans
  <2>2. \A i \in DOMAIN a : i \in DOMAIN p /\ a[i] = p[i]
    BY <2>1
  <2> QED
    BY <1>1, <2>2 DEF Walkable, Contained
<1>2. ASSUME NEW p \in Paths, Walkable(p), Ancestors(p) \subseteq dirs
      PROVE  Ancestors(p) \subseteq WalkDirectories(dirs)
  <2>1. ASSUME NEW a \in Ancestors(p) PROVE a \in WalkDirectories(dirs)
    <3>1. a \in Paths /\ IsPrefix(a, p)
      BY AncestorsAre DEF Named
    <3> QED
      BY <1>1, <1>2, <3>1 DEF WalkDirectories
  <2> QED
    BY <2>1
<1>3. Rooted(WalkDirectories(dirs))
  <2>1. ASSUME NEW d \in WalkDirectories(dirs) PROVE d \in Named /\ Ancestors(d) \subseteq WalkDirectories(dirs)
    <3>1. d \in Named /\ d \in Paths /\ Walkable(d) /\ Ancestors(d) \subseteq dirs
      BY DEF WalkDirectories, Housed, Rooted, Named
    <3> QED
      BY <1>2, <3>1
  <2> QED
    BY <2>1 DEF Rooted
<1>4. Homes(WalkDirectories(dirs), WalkNotes(held))
  <2>1. ASSUME NEW id \in WalkNotes(held)
        PROVE  id \in Named /\ Ancestors(ContainingDir(id)) \subseteq WalkDirectories(dirs)
    <3>1. id \in Named /\ id \in Paths /\ Walkable(id) /\ Ancestors(ContainingDir(id)) \subseteq dirs
      BY DEF WalkNotes, Housed, Homes, Named
    <3>2. /\ ContainingDir(id) \in Paths /\ Len(ContainingDir(id)) = Len(id) - 1 /\ Len(id) \in Nat
          /\ \A i \in 1..(Len(id) - 1) : ContainingDir(id)[i] = id[i]
      BY <3>1, FrontIs, PathsAre
    <3>3. IsPrefix(ContainingDir(id), id)
      <4>1. Len(ContainingDir(id)) <= Len(id) /\ \A i \in 1..Len(ContainingDir(id)) : ContainingDir(id)[i] = id[i]
        BY <3>2
      <4> QED
        BY <3>1, <3>2, <4>1, PrefixMeans
    <3>4. Walkable(ContainingDir(id))
      BY <1>1, <3>1, <3>2, <3>3
    <3> QED
      BY <1>2, <3>1, <3>2, <3>4
  <2> QED
    BY <2>1 DEF Homes
<1>5. WalkNotes(held) \subseteq DOMAIN held
  BY DEF WalkNotes
<1>6. IsFiniteSet(WalkNotes(held))
  BY <1>5, FS_Subset DEF Housed
<1> QED
  BY <1>3, <1>4, <1>5, <1>6

(* The Notes of a list made from a set of ids.                               *)
LEMMA ListIs ==
    ASSUME NEW ids, IsFiniteSet(ids), NEW notes, DOMAIN notes = DOMAIN SetToSeq(ids),
           \A i \in DOMAIN notes : notes[i].id = SetToSeq(ids)[i]
    PROVE  Listed(notes) /\ IdsOf(notes) = ids
<1>1. /\ DOMAIN SetToSeq(ids) = 1..Cardinality(ids) /\ Cardinality(ids) \in Nat
      /\ \A i \in DOMAIN SetToSeq(ids) : SetToSeq(ids)[i] \in ids
      /\ \A i, j \in DOMAIN SetToSeq(ids) : SetToSeq(ids)[i] = SetToSeq(ids)[j] => i = j
      /\ \A x \in ids : \E i \in DOMAIN SetToSeq(ids) : SetToSeq(ids)[i] = x
  BY OrderFacts
<1> DEFINE s == SetToSeq(ids)
<1> HIDE DEF s
<1>2. DOMAIN notes = DOMAIN s /\ \A i \in DOMAIN notes : notes[i].id = s[i]
  BY DEF s
<1>3. /\ DOMAIN s = 1..Cardinality(ids)
      /\ \A i \in DOMAIN s : s[i] \in ids
      /\ \A i, j \in DOMAIN s : s[i] = s[j] => i = j
      /\ \A x \in ids : \E i \in DOMAIN s : s[i] = x
  BY <1>1 DEF s
<1>4. Listed(notes)
  BY <1>1, <1>2, <1>3 DEF Listed
<1>5. IdsOf(notes) = ids
  BY <1>2, <1>3 DEF IdsOf
<1> QED
  BY <1>4, <1>5

LEMMA OneNote ==
    ASSUME NEW id, NEW text
    PROVE  Listed(<<DeriveNote(id, text)>>) /\ IdsOf(<<DeriveNote(id, text)>>) = {id}
<1>1. DeriveNote(id, text).id = id
  BY DEF DeriveNote
<1> DEFINE note == DeriveNote(id, text)
<1> HIDE DEF note
<1>2. DOMAIN <<note>> = 1..1 /\ <<note>>[1] = note
  OBVIOUS
<1>3. Listed(<<note>>) /\ IdsOf(<<note>>) = {note.id}
  BY <1>2 DEF Listed, IdsOf
<1> QED
  BY <1>1, <1>3 DEF note

(* What a scan has still to read and what it has read: no Note twice.        *)
TodoIds == {scan.todo[i] : i \in DOMAIN scan.todo}

ScanFits ==
    /\ scan = [pc |-> scan.pc, todo |-> scan.todo, found |-> scan.found, dirs |-> scan.dirs, clean |-> scan.clean]
    /\ scan.pc \in {"idle", "read"} /\ scan.clean \in BOOLEAN
    /\ Rooted(scan.dirs)
    /\ \E S : scan.todo \in Seq(S)
    /\ \E S : scan.found \in Seq(S)
    /\ \A i, j \in DOMAIN scan.todo : scan.todo[i] = scan.todo[j] => i = j
    /\ Listed(scan.found)
    /\ TodoIds \cap IdsOf(scan.found) = {}
    /\ Homes(scan.dirs, TodoIds \cup IdsOf(scan.found))

WriterFits ==
    /\ writer = [pc |-> writer.pc, id |-> writer.id, text |-> writer.text]
    /\ writer.pc \in {"idle", "written", "stale"}
    /\ writer.pc # "idle" => writer.id \in Named

IndexInv ==
    /\ Fine(db) /\ Beside(Elsewhere, db)
    /\ Housed(files, folders)
    /\ ScanFits /\ WriterFits /\ tidy \in BOOLEAN

LEMMA StillFits == scan = Still => ScanFits
<1> SUFFICES ASSUME scan = Still PROVE ScanFits
  OBVIOUS
<1>1. /\ scan.pc = "idle" /\ scan.todo = <<>> /\ scan.found = <<>> /\ scan.dirs = {} /\ scan.clean = FALSE
      /\ scan = [pc |-> scan.pc, todo |-> scan.todo, found |-> scan.found, dirs |-> scan.dirs, clean |-> scan.clean]
  BY DEF Still
<1>2. DOMAIN scan.todo = {} /\ DOMAIN scan.found = {} /\ DOMAIN scan.found = 1..0 /\ <<>> \in Seq({})
  BY <1>1
<1>3. TodoIds = {} /\ IdsOf(scan.found) = {}
  BY <1>2 DEF TodoIds, IdsOf
<1>4. Listed(scan.found)
  <2>1. \E n \in Nat : DOMAIN scan.found = 1..n
    BY <1>2
  <2> QED
    BY <1>2, <2>1 DEF Listed
<1> QED
  BY <1>1, <1>2, <1>3, <1>4 DEF ScanFits, Rooted, Homes

LEMMA ElsewhereFine == Fine(Elsewhere)
<1> DEFINE first == CHOOSE p \in DOMAIN StartFiles : TRUE
           notes == <<DeriveNote(first, ConformantNote(Last(first)))>>
<1>1. Elsewhere = WriteNoteRows(NoRows, There, notes)
  BY DEF Elsewhere
<1>2. Listed(notes)
  BY OneNote
<1> HIDE DEF notes, first
<1>3. /\ DOMAIN NoRows.notes = {} /\ DOMAIN NoRows.mapping = {} /\ DOMAIN NoRows.fts = {}
      /\ NoRows.links = {} /\ NoRows.dirs = {} /\ Tables(NoRows)
  BY DEF NoRows, Tables
<1>4. Sound(NoRows)
  <2>1. \A n \in DOMAIN NoRows.fts : n <= 0
    BY <1>3
  <2> QED
    BY <1>3, <2>1 DEF Sound, Mapped, Numbered, Sourced
<1> DEFINE above == UNION {Ancestors(ContainingDir(id)) : id \in IdsOf(notes)}
<1>5. /\ Sound(Elsewhere) /\ DOMAIN Elsewhere.notes = DOMAIN NoRows.notes \cup NoteKeys(There, IdsOf(notes))
      /\ Elsewhere.dirs = NoRows.dirs \cup {<<There, a>> : a \in above}
  BY <1>1, <1>2, <1>4, WriteSound
<1> HIDE DEF above
<1>6. /\ \A k \in DOMAIN Elsewhere.notes : k = <<There, k[2]>> /\ k[1] # Here
      /\ \A d \in Elsewhere.dirs : d = <<There, d[2]>> /\ d[1] # Here
  BY <1>3, <1>5, BundleStarts DEF NoteKeys
<1>7. RowIds(Elsewhere) = {} /\ DirsOf(Elsewhere) = {}
  BY <1>6 DEF RowIds, DirsOf, KeysOf
<1>8. Paired(DOMAIN Elsewhere.notes) /\ Paired(Elsewhere.dirs)
  BY <1>6 DEF Paired
<1> QED
  BY <1>5, <1>7, <1>8 DEF Fine, Placed, Rooted, Homes

LEMMA StartBundle == Housed(StartFiles, StartFolders)
<1>1. ASSUME NEW d \in StartFolders PROVE Ancestors(d) \subseteq StartFolders
  BY BundleIsATree DEF Ancestors
<1>2. ASSUME NEW id \in DOMAIN StartFiles PROVE Ancestors(ContainingDir(id)) \subseteq StartFolders
  BY BundleIsATree DEF Ancestors, ContainingDir
<1> QED
  BY <1>1, <1>2, BundleIsATree DEF Housed, Rooted, Homes, Named

LEMMA IndexInvInit == Init => IndexInv
<1> SUFFICES ASSUME Init PROVE IndexInv
  OBVIOUS
<1> DEFINE ids == WalkNotes(StartFiles)
           notes == ScanBundle(StartFiles, StartFolders).notes
           dirs == WalkDirectories(StartFolders)
<1>1. Housed(files, folders)
  BY StartBundle DEF Init
<1>2. /\ Rooted(dirs) /\ Homes(dirs, ids) /\ IsFiniteSet(ids)
  BY StartBundle, WalkFits
<1>3. Listed(notes) /\ IdsOf(notes) = ids
  <2>1. DOMAIN notes = DOMAIN SetToSeq(ids) /\ \A i \in DOMAIN notes : notes[i].id = SetToSeq(ids)[i]
    <3> DEFINE s == SetToSeq(ids)
    <3>1. notes = [i \in DOMAIN s |-> DeriveNote(s[i], StartFiles[s[i]])]
      BY DEF ScanBundle, SortedIds
    <3> HIDE DEF s, notes
    <3>2. DOMAIN notes = DOMAIN s /\ \A i \in DOMAIN s : notes[i].id = s[i]
      BY <3>1 DEF DeriveNote
    <3> QED
      BY <3>2 DEF s
  <2> HIDE DEF ids, notes
  <2> QED
    BY <1>2, <2>1, ListIs
<1>4. db = WriteScannedBundle(Elsewhere, Here, dirs, notes)
  BY DEF Init, ScanBundle
<1> HIDE DEF ids, notes, dirs
<1>5. Fine(db) /\ Beside(Elsewhere, db)
  BY <1>2, <1>3, <1>4, ElsewhereFine, ScanFine
<1>6. ScanFits
  BY StillFits DEF Init
<1>7. WriterFits /\ tidy \in BOOLEAN
  BY DEF Init, WriterFits, Rest
<1> QED
  BY <1>1, <1>5, <1>6, <1>7 DEF IndexInv

-----------------------------------------------------------------------------
(* The steps of an idle write, of a scan and of other programs.              *)

LEMMA FineSteps ==
    ASSUME IndexInv, Fine(db'), Beside(db, db')
    PROVE  Fine(db)' /\ Beside(Elsewhere, db)'
<1>1. Beside(Elsewhere, db')
  BY BesideSteps DEF IndexInv
<1> QED
  BY <1>1

LEMMA ScanKept ==
    ASSUME IndexInv, UNCHANGED <<scan, writer, tidy>>
    PROVE  ScanFits' /\ WriterFits' /\ (tidy \in BOOLEAN)'
BY DEF IndexInv, ScanFits, WriterFits, TodoIds

LEMMA WriteFileStep ==
    ASSUME IndexInv, NEW id \in Noted, NEW body \in Bodies, WriteFile(id, body)
    PROVE  IndexInv'
<1>1. id \in DOMAIN files /\ UNCHANGED <<folders, db, scan, tidy>>
  BY DEF WriteFile, WalkNotes
<1>2. DOMAIN files' = DOMAIN files
  BY DEF WriteFile
<1>3. Housed(files, folders)'
  BY <1>1, <1>2 DEF IndexInv, Housed
<1>4. \E text : writer' = [pc |-> "written", id |-> id, text |-> text]
  BY DEF WriteFile
<1>5. id \in Named
  BY BundleIsATree DEF Named
<1>6. WriterFits'
  BY <1>4, <1>5 DEF WriterFits
<1>7. ScanFits'
  BY <1>1 DEF IndexInv, ScanFits, TodoIds
<1> QED
  BY <1>1, <1>3, <1>6, <1>7 DEF IndexInv

LEMMA CompareHashStep == ASSUME IndexInv, CompareHash PROVE IndexInv'
<1>1. UNCHANGED <<files, folders, db, scan, tidy>>
  BY DEF CompareHash
<1>2. WriterFits'
  <2>1. writer' = Rest \/ writer' = [writer EXCEPT !.pc = "stale"]
    BY DEF CompareHash
  <2>2. writer.pc = "written" /\ WriterFits
    BY DEF CompareHash, IndexInv
  <2> QED
    BY <2>1, <2>2 DEF WriterFits, Rest
<1>3. ScanFits'
  BY <1>1 DEF IndexInv, ScanFits, TodoIds
<1> QED
  BY <1>1, <1>2, <1>3 DEF IndexInv, Housed

LEMMA IndexWrittenSourceStep == ASSUME IndexInv, IndexWrittenSource PROVE IndexInv'
<1>1. UNCHANGED <<files, folders, scan, tidy>> /\ writer' = Rest
  BY DEF IndexWrittenSource
<1> DEFINE notes == <<DeriveNote(writer.id, writer.text)>>
<1>2. writer.id \in Named /\ db' = WriteNoteRows(db, Here, notes)
  BY DEF IndexWrittenSource, IndexInv, WriterFits
<1>3. Listed(notes) /\ IdsOf(notes) \subseteq Named
  BY <1>2, OneNote
<1> HIDE DEF notes
<1>4. Fine(db') /\ Beside(db, db')
  BY <1>2, <1>3, WriteFine DEF IndexInv
<1>5. ScanFits' /\ WriterFits'
  BY <1>1 DEF IndexInv, ScanFits, TodoIds, WriterFits, Rest
<1> QED
  BY <1>1, <1>4, <1>5, FineSteps DEF IndexInv, Housed

LEMMA ScanWalkStep == ASSUME IndexInv, ScanWalk PROVE IndexInv'
<1>1. UNCHANGED <<files, folders, db, writer, tidy>>
  BY DEF ScanWalk
<1> DEFINE ids == WalkNotes(files)
           s == SetToSeq(ids)
           dirs == WalkDirectories(folders)
<1>2. scan' = [pc |-> "read", todo |-> s, found |-> <<>>, dirs |-> dirs, clean |-> TRUE]
  BY DEF ScanWalk, SortedIds
<1>3. Rooted(dirs) /\ Homes(dirs, ids) /\ IsFiniteSet(ids)
  BY WalkFits DEF IndexInv
<1> HIDE DEF ids, dirs
<1>4. /\ s \in Seq(ids) /\ \A i \in DOMAIN s : s[i] \in ids
      /\ \A i, j \in DOMAIN s : s[i] = s[j] => i = j
  BY <1>3, OrderFacts
<1> HIDE DEF s
<1>5. /\ scan'.pc = "read" /\ scan'.todo = s /\ scan'.found = <<>> /\ scan'.dirs = dirs /\ scan'.clean = TRUE
  BY <1>2
<1>6. DOMAIN scan'.found = {} /\ DOMAIN scan'.found = 1..0 /\ <<>> \in Seq({})
  BY <1>5
<1>7. TodoIds' \subseteq ids /\ IdsOf(scan'.found) = {}
  BY <1>4, <1>5, <1>6 DEF TodoIds, IdsOf
<1>8. Listed(scan'.found)
  <2>1. \E n \in Nat : DOMAIN scan'.found = 1..n
    BY <1>6
  <2> QED
    BY <1>6, <2>1 DEF Listed
<1>9. Homes(scan'.dirs, TodoIds' \cup IdsOf(scan'.found)) /\ TodoIds' \cap IdsOf(scan'.found) = {}
  BY <1>3, <1>5, <1>7 DEF Homes
<1>10. ScanFits'
  BY <1>2, <1>3, <1>4, <1>5, <1>6, <1>8, <1>9 DEF ScanFits
<1> QED
  BY <1>1, <1>10 DEF IndexInv, WriterFits, Housed

(* Reading a Note takes it from what is to be read.                          *)
LEMMA HeadIsRead ==
    ASSUME NEW s, \E S : s \in Seq(S), s # <<>>, \A i, j \in DOMAIN s : s[i] = s[j] => i = j
    PROVE  /\ \E S : Tail(s) \in Seq(S)
           /\ \A i, j \in DOMAIN Tail(s) : Tail(s)[i] = Tail(s)[j] => i = j
           /\ \E i \in DOMAIN s : s[i] = Head(s)
           /\ \A i \in DOMAIN Tail(s) : Tail(s)[i] # Head(s) /\ \E j \in DOMAIN s : Tail(s)[i] = s[j]
<1>1. PICK S : s \in Seq(S)
  OBVIOUS
<1>2. /\ Tail(s) \in Seq(S) /\ Len(s) \in Nat /\ Len(s) > 0 /\ DOMAIN s = 1..Len(s)
      /\ DOMAIN Tail(s) = 1..(Len(s) - 1) /\ Head(s) = s[1]
      /\ \A i \in 1..(Len(s) - 1) : Tail(s)[i] = s[i + 1]
  BY <1>1
<1>3. /\ \A i \in DOMAIN Tail(s) : i \in Nat /\ i + 1 \in DOMAIN s /\ i + 1 # 1 /\ Tail(s)[i] = s[i + 1]
      /\ 1 \in DOMAIN s /\ \A i, j \in DOMAIN Tail(s) : i + 1 = j + 1 => i = j
  BY <1>2
<1> QED
  BY <1>2, <1>3

LEMMA AppendListed ==
    ASSUME NEW notes, \E S : notes \in Seq(S), Listed(notes), NEW note, note.id \notin IdsOf(notes)
    PROVE  /\ \E S : Append(notes, note) \in Seq(S)
           /\ Listed(Append(notes, note)) /\ IdsOf(Append(notes, note)) = IdsOf(notes) \cup {note.id}
<1>1. PICK S : notes \in Seq(S)
  OBVIOUS
<1> DEFINE T == S \cup {note}
           now == Append(notes, note)
<1>2. notes \in Seq(T)
  BY <1>1
<1>3. /\ now \in Seq(T) /\ Len(now) = Len(notes) + 1 /\ Len(notes) \in Nat
      /\ DOMAIN now = 1..(Len(notes) + 1) /\ DOMAIN notes = 1..Len(notes)
      /\ \A i \in 1..Len(notes) : now[i] = notes[i]
      /\ now[Len(notes) + 1] = note
  BY <1>2
<1> HIDE DEF now, T
<1>4. \A i \in DOMAIN now : i \in DOMAIN notes \/ i = Len(notes) + 1
  BY <1>3
<1>5. Len(notes) + 1 \in DOMAIN now /\ DOMAIN notes \subseteq DOMAIN now
  BY <1>3
<1>6. IdsOf(now) = IdsOf(notes) \cup {note.id}
  BY <1>3, <1>4, <1>5 DEF IdsOf
<1>7. Listed(now)
  <2>1. ASSUME NEW i \in DOMAIN now, NEW j \in DOMAIN now, now[i].id = now[j].id PROVE i = j
    BY <1>3, <1>4, <2>1 DEF Listed, IdsOf
  <2> QED
    BY <1>3, <2>1 DEF Listed
<1> QED
  BY <1>3, <1>6, <1>7 DEF now

LEMMA ScanReadStep == ASSUME IndexInv, ScanRead PROVE IndexInv'
<1>1. UNCHANGED <<files, folders, db, writer, tidy>> /\ scan.todo # <<>>
  BY DEF ScanRead
<1> DEFINE id == Head(scan.todo)
           note == DeriveNote(id, files[id])
           found == IF id \in DOMAIN files THEN Append(scan.found, note) ELSE scan.found
<1>2. scan' = [scan EXCEPT !.todo = Tail(@), !.found = IF id \in DOMAIN files THEN Append(@, note) ELSE @]
  BY DEF ScanRead
<1>3. /\ scan = [pc |-> scan.pc, todo |-> scan.todo, found |-> scan.found, dirs |-> scan.dirs, clean |-> scan.clean]
      /\ scan.pc \in {"idle", "read"} /\ scan.clean \in BOOLEAN /\ Rooted(scan.dirs)
      /\ \E S : scan.todo \in Seq(S)
      /\ \E S : scan.found \in Seq(S)
      /\ \A i, j \in DOMAIN scan.todo : scan.todo[i] = scan.todo[j] => i = j
      /\ Listed(scan.found)
      /\ TodoIds \cap IdsOf(scan.found) = {}
      /\ Homes(scan.dirs, TodoIds \cup IdsOf(scan.found))
  BY DEF IndexInv, ScanFits
<1>4. note.id = id
  BY DEF DeriveNote
<1> HIDE DEF note
<1>5. /\ \E S : Tail(scan.todo) \in Seq(S)
      /\ \A i, j \in DOMAIN Tail(scan.todo) : Tail(scan.todo)[i] = Tail(scan.todo)[j] => i = j
      /\ \E i \in DOMAIN scan.todo : scan.todo[i] = id
      /\ \A i \in DOMAIN Tail(scan.todo) :
            Tail(scan.todo)[i] # id /\ \E j \in DOMAIN scan.todo : Tail(scan.todo)[i] = scan.todo[j]
  BY <1>1, <1>3, HeadIsRead
<1>6. id \in TodoIds /\ id \notin IdsOf(scan.found)
  BY <1>3, <1>5 DEF TodoIds
<1> HIDE DEF id
<1>7. (\E S : found \in Seq(S)) /\ Listed(found) /\ IdsOf(found) \subseteq IdsOf(scan.found) \cup {id}
  <2>1. /\ \E S : Append(scan.found, note) \in Seq(S)
        /\ Listed(Append(scan.found, note)) /\ IdsOf(Append(scan.found, note)) = IdsOf(scan.found) \cup {note.id}
    BY <1>3, <1>4, <1>6, AppendListed
  <2>2. CASE id \in DOMAIN files
    BY <1>4, <2>1, <2>2
  <2>3. CASE id \notin DOMAIN files
    BY <1>3, <2>3
  <2> QED
    BY <2>2, <2>3
<1>8. /\ scan' = [pc |-> scan.pc, todo |-> Tail(scan.todo), found |-> found, dirs |-> scan.dirs,
                  clean |-> scan.clean]
  BY <1>2, <1>3
<1> HIDE DEF found
<1>9. /\ scan'.pc = scan.pc /\ scan'.todo = Tail(scan.todo) /\ scan'.found = found /\ scan'.dirs = scan.dirs
      /\ scan'.clean = scan.clean
  BY <1>8
<1>10. TodoIds' \subseteq TodoIds /\ id \notin TodoIds'
  BY <1>5, <1>9 DEF TodoIds
<1>11. TodoIds' \cap IdsOf(scan'.found) = {} /\ Homes(scan'.dirs, TodoIds' \cup IdsOf(scan'.found))
  BY <1>3, <1>6, <1>7, <1>9, <1>10 DEF Homes
<1>12. ScanFits'
  BY <1>3, <1>5, <1>7, <1>8, <1>9, <1>11 DEF ScanFits
<1> QED
  BY <1>1, <1>12 DEF IndexInv, WriterFits, Housed

LEMMA ScanWriteStep == ASSUME IndexInv, ScanWrite PROVE IndexInv'
<1>1. /\ UNCHANGED <<files, folders, writer>> /\ scan' = Still /\ tidy' = scan.clean
      /\ db' = WriteScannedBundle(db, Here, scan.dirs, scan.found)
  BY DEF ScanWrite
<1>2. Rooted(scan.dirs) /\ Listed(scan.found) /\ Homes(scan.dirs, IdsOf(scan.found)) /\ scan.clean \in BOOLEAN
  BY DEF IndexInv, ScanFits, Homes
<1>3. Fine(db') /\ Beside(db, db')
  BY <1>1, <1>2, ScanFine DEF IndexInv
<1>4. ScanFits'
  <2>1. (scan = Still)'
    BY <1>1
  <2> QED
    BY <2>1, StillFits, PTL
<1> QED
  BY <1>1, <1>2, <1>3, <1>4, FineSteps DEF IndexInv, WriterFits, Housed

LEMMA ForeignKept ==
    ASSUME IndexInv, Foreign
    PROVE  Fine(db)' /\ Beside(Elsewhere, db)' /\ ScanFits' /\ WriterFits' /\ (tidy \in BOOLEAN)'
<1>1. UNCHANGED <<db, writer>> /\ scan' = [scan EXCEPT !.clean = FALSE] /\ tidy' = FALSE
  BY DEF Foreign
<1>2. scan = [pc |-> scan.pc, todo |-> scan.todo, found |-> scan.found, dirs |-> scan.dirs, clean |-> scan.clean]
  BY DEF IndexInv, ScanFits
<1>3. /\ scan' = [pc |-> scan.pc, todo |-> scan.todo, found |-> scan.found, dirs |-> scan.dirs, clean |-> FALSE]
      /\ scan'.pc = scan.pc /\ scan'.todo = scan.todo /\ scan'.found = scan.found /\ scan'.dirs = scan.dirs
      /\ scan'.clean = FALSE
  BY <1>1, <1>2
<1>4. TodoIds' = TodoIds
  BY <1>3 DEF TodoIds
<1>5. ScanFits'
  BY <1>3, <1>4 DEF IndexInv, ScanFits
<1> QED
  BY <1>1, <1>5 DEF IndexInv, WriterFits

LEMMA GuestWritesStep ==
    ASSUME IndexInv, NEW id \in Noted, NEW body \in Bodies, GuestWrites(id, body)
    PROVE  IndexInv'
<1>1. /\ Foreign /\ folders' = folders \cup Ancestors(ContainingDir(id))
      /\ files' = Updated(files, [p \in {id} |-> Text("none", None, body)])
  BY DEF GuestWrites
<1>2. id \in Named
  BY BundleIsATree DEF Named
<1>3. Housed(files', folders')
  BY <1>1, <1>2, FileAdded DEF IndexInv
<1> QED
  BY <1>1, <1>3, ForeignKept DEF IndexInv

LEMMA GuestRemovesStep ==
    ASSUME IndexInv, NEW id \in Noted, GuestRemoves(id)
    PROVE  IndexInv'
<1>1. Foreign /\ files' = Without(files, {id}) /\ folders' = folders
  BY DEF GuestRemoves
<1>2. Housed(files', folders')
  BY <1>1, FilesGone DEF IndexInv
<1> QED
  BY <1>1, <1>2, ForeignKept DEF IndexInv

LEMMA GuestRemovesFolderStep ==
    ASSUME IndexInv, NEW dir \in Folders, GuestRemovesFolder(dir)
    PROVE  IndexInv'
<1>1. /\ Foreign /\ files' = Without(files, {id \in DOMAIN files : Under(dir, id)})
      /\ folders' = {f \in folders : ~IsPrefix(dir, f)}
  BY DEF GuestRemovesFolder
<1>2. dir \in Paths
  BY BundleIsATree
<1>3. Housed(files', folders')
  BY <1>1, <1>2, DirectoryGone DEF IndexInv
<1> QED
  BY <1>1, <1>3, ForeignKept DEF IndexInv

-----------------------------------------------------------------------------
(* The lifecycle operations.                                                 *)

LEMMA OperatedFits ==
    ASSUME IndexInv, Operated, Fine(db'), Beside(db, db'), Housed(files', folders')
    PROVE  IndexInv'
<1>1. UNCHANGED <<scan, writer, tidy>>
  BY DEF Operated
<1>2. ScanFits' /\ WriterFits' /\ (tidy \in BOOLEAN)'
  BY <1>1, ScanKept
<1>3. Fine(db)' /\ Beside(Elsewhere, db)'
  BY FineSteps
<1> QED
  BY <1>2, <1>3 DEF IndexInv

LEMMA PublishFits ==
    ASSUME IndexInv, NEW id \in Named, Publish(id), Operated
    PROVE  IndexInv'
<1> DEFINE notes == <<DeriveNote(id, ConformantNote(Last(id)))>>
<1>1. /\ files' = Updated(files, [p \in {id} |-> ConformantNote(Last(id))])
      /\ folders' = folders \cup Ancestors(ContainingDir(id))
      /\ db' = WriteNoteRows(db, Here, notes)
  BY DEF Publish
<1>2. Listed(notes) /\ IdsOf(notes) \subseteq Named
  BY OneNote
<1> HIDE DEF notes
<1>3. Fine(db') /\ Beside(db, db')
  BY <1>1, <1>2, WriteFine DEF IndexInv
<1>4. Housed(files', folders')
  BY <1>1, FileAdded DEF IndexInv
<1> QED
  BY <1>3, <1>4, OperatedFits

LEMMA CreateNoteStep ==
    ASSUME IndexInv, NEW dir \in Folders, NEW title \in Titles, CreateNote(dir, title)
    PROVE  IndexInv'
<1>1. Publish(Append(dir, title)) /\ Operated
  BY DEF CreateNote
<1>2. Append(dir, title) \in Named
  BY AppendIs, BundleIsATree
<1> QED
  BY <1>1, <1>2, PublishFits

LEMMA CreateLinkTargetStep ==
    ASSUME IndexInv, NEW id \in Noted, CreateLinkTarget(id)
    PROVE  IndexInv'
<1>1. Publish(id) /\ Operated
  BY DEF CreateLinkTarget
<1>2. id \in Named
  BY BundleIsATree DEF Named
<1> QED
  BY <1>1, <1>2, PublishFits

LEMMA CreateDirectoryStep ==
    ASSUME IndexInv, NEW dir \in Folders, CreateDirectory(dir)
    PROVE  IndexInv'
<1>1. /\ folders' = folders \cup Ancestors(dir) /\ db' = RecordDirectories(db, Here, {dir})
      /\ Operated /\ files' = files
  BY DEF CreateDirectory
<1>2. dir \in Paths
  BY BundleIsATree
<1>3. Fine(db') /\ Beside(db, db')
  BY <1>1, <1>2, RecordFine DEF IndexInv
<1>4. Rooted(Ancestors(dir))
  BY <1>2, AboveClosed
<1>5. Housed(files', folders')
  BY <1>1, <1>4 DEF IndexInv, Housed, Rooted, Homes
<1> QED
  BY <1>1, <1>3, <1>5, OperatedFits

LEMMA DeleteNoteStep ==
    ASSUME IndexInv, NEW id \in Noted, DeleteNote(id)
    PROVE  IndexInv'
<1>1. /\ files' = Without(files, {id}) /\ db' = RemoveNoteRows(db, Here, {id})
      /\ Operated /\ folders' = folders
  BY DEF DeleteNote
<1>2. Fine(db') /\ Beside(db, db')
  BY <1>1, RemoveFine DEF IndexInv
<1>3. Housed(files', folders')
  BY <1>1, FilesGone DEF IndexInv
<1> QED
  BY <1>1, <1>2, <1>3, OperatedFits

LEMMA RowsUnder ==
    ASSUME NEW t, NEW dir
    PROVE  IdsWithPrefix(t, Here, dir) = {id \in RowIds(t) : Under(dir, id)}
BY DEF IdsWithPrefix, RowIds

LEMMA DeleteDirectoryStep ==
    ASSUME IndexInv, NEW dir \in Folders, DeleteDirectory(dir)
    PROVE  IndexInv'
<1> DEFINE rows == IdsWithPrefix(db, Here, dir)
           t == RemoveNoteRows(db, Here, rows)
<1>1. /\ files' = Without(files, {id \in DOMAIN files : Under(dir, id)})
      /\ folders' = {f \in folders : ~IsPrefix(dir, f)}
      /\ db' = [t EXCEPT !.dirs = {d \in @ : d[1] # Here \/ ~IsPrefix(dir, d[2])}]
      /\ Operated /\ dir # <<>>
  BY DEF DeleteDirectory
<1>2. dir \in Named /\ dir \in Paths
  BY <1>1, BundleIsATree DEF Named
<1>3. Fine(t) /\ Beside(db, t) /\ RowIds(t) = RowIds(db) \ rows
  BY RemoveFine DEF IndexInv
<1>4. \A id \in RowIds(t) : ~Under(dir, id)
  BY <1>3, RowsUnder
<1> HIDE DEF t, rows
<1>5. Fine(db') /\ Beside(t, db')
  BY <1>1, <1>2, <1>3, <1>4, DropFine
<1>6. Beside(db, db')
  BY <1>3, <1>5, BesideSteps
<1>7. Housed(files', folders')
  BY <1>1, <1>2, DirectoryGone DEF IndexInv
<1> QED
  BY <1>1, <1>5, <1>6, <1>7, OperatedFits

-----------------------------------------------------------------------------
(* Renames and moves.                                                        *)

(* No two files land on one name.                                            *)
Apart(plan, held) == \A o, p \in held : Lands(plan, o) = Lands(plan, p) => o = p

(* What a rename or a move does to the rows.                                 *)
LEMMA RowsLand ==
    ASSUME NEW t, Fine(t), NEW plan, NEW final, IsFiniteSet(DOMAIN final),
           Apart(plan, DOMAIN final), \A id \in DOMAIN final : Lands(plan, id) \in Named,
           NEW indexed, NEW ids, ids = SetToSeq(DOMAIN final),
           indexed = [i \in DOMAIN ids |-> DeriveNote(Lands(plan, ids[i]), final[ids[i]])],
           NEW left, left = RemoveNoteRows(Retarget(t, Here, plan.remap), Here,
                                           {id \in DOMAIN final : Lands(plan, id) # id}),
           NEW u, u = WriteNoteRows(left, Here, indexed)
    PROVE  /\ Fine(u) /\ Beside(t, u)
           /\ RowIds(u) = (RowIds(t) \ {id \in DOMAIN final : Lands(plan, id) # id})
                          \cup {Lands(plan, id) : id \in DOMAIN final}
<1>1. /\ \A i \in DOMAIN ids : ids[i] \in DOMAIN final
      /\ \A i, j \in DOMAIN ids : ids[i] = ids[j] => i = j
      /\ \A x \in DOMAIN final : \E i \in DOMAIN ids : ids[i] = x
      /\ \E n \in Nat : DOMAIN ids = 1..n
  BY OrderFacts
<1>2. DOMAIN indexed = DOMAIN ids /\ \A i \in DOMAIN ids : indexed[i].id = Lands(plan, ids[i])
  BY DEF DeriveNote
<1>3. Listed(indexed)
  <2>1. ASSUME NEW i \in DOMAIN indexed, NEW j \in DOMAIN indexed, indexed[i].id = indexed[j].id PROVE i = j
    BY <1>1, <1>2, <2>1 DEF Apart
  <2> QED
    BY <1>1, <1>2, <2>1 DEF Listed
<1>4. IdsOf(indexed) = {Lands(plan, id) : id \in DOMAIN final}
  BY <1>1, <1>2 DEF IdsOf
<1>5. IdsOf(indexed) \subseteq Named
  BY <1>4
<1> DEFINE v == Retarget(t, Here, plan.remap)
           gone == {id \in DOMAIN final : Lands(plan, id) # id}
<1>6. Fine(v) /\ Beside(t, v) /\ RowIds(v) = RowIds(t)
  BY RetargetFine
<1>7. left = RemoveNoteRows(v, Here, gone)
  OBVIOUS
<1> HIDE DEF v, gone
<1>8. Fine(left) /\ Beside(v, left) /\ RowIds(left) = RowIds(v) \ gone
  BY <1>6, <1>7, RemoveFine
<1>9. Fine(u) /\ Beside(left, u) /\ RowIds(u) = RowIds(left) \cup IdsOf(indexed)
  BY <1>3, <1>5, <1>8, WriteFine
<1>10. Beside(t, u)
  BY <1>6, <1>8, <1>9, BesideSteps
<1> QED
  BY <1>4, <1>6, <1>8, <1>9, <1>10 DEF gone

LEMMA ReidentifyIs ==
    ASSUME NEW plan, ApplyReidentify(plan)
    PROVE  /\ Operated /\ DOMAIN files' = {Lands(plan, p) : p \in DOMAIN files}
           /\ DOMAIN plan.remap \subseteq DOMAIN files
           /\ \E final : /\ DOMAIN final \subseteq DOMAIN files /\ DOMAIN plan.remap \subseteq DOMAIN final
                         /\ db' = RewriteIndex(db, plan, final)
<1> DEFINE rewritten == [id \in Candidates(plan) \cap DOMAIN files |-> Rewritten(plan, id)]
           final == FinalTexts(plan, rewritten)
<1>1. DOMAIN plan.remap \subseteq DOMAIN files /\ Operated /\ Install(plan, final)
  BY DEF ApplyReidentify, Carry
<1>2. DOMAIN rewritten = Candidates(plan) \cap DOMAIN files
  OBVIOUS
<1>3. DOMAIN plan.remap \subseteq DOMAIN rewritten
  BY <1>1, <1>2 DEF Candidates, Targets
<1> HIDE DEF rewritten
<1>4. DOMAIN final \subseteq DOMAIN rewritten /\ DOMAIN plan.remap \subseteq DOMAIN final
  BY <1>3 DEF FinalTexts
<1> HIDE DEF final
<1>5. DOMAIN files' = {Lands(plan, p) : p \in DOMAIN files} /\ db' = RewriteIndex(db, plan, final)
  BY <1>1 DEF Install
<1> QED
  BY <1>1, <1>2, <1>4, <1>5

(* There are no more files than there were.                                  *)
LEMMA LandsFinite ==
    ASSUME NEW plan, NEW S, IsFiniteSet(S)
    PROVE  IsFiniteSet({Lands(plan, p) : p \in S})
<1> DEFINE T == {Lands(plan, p) : p \in S}
           f == [p \in S |-> Lands(plan, p)]
<1>1. f \in Surjection(S, T)
  BY DEF Surjection
<1> HIDE DEF f, T
<1>2. IsFiniteSet(T)
  BY <1>1, FS_Surjection
<1> QED
  BY <1>2 DEF T

(* The plan of a Note that takes another name.                               *)
NotePlan(plan, id, new) == plan.remap = Renamed(id, new) /\ plan.directory = NoteOnly

LEMMA NoteLands ==
    ASSUME NEW plan, NEW id, NEW new, NotePlan(plan, id, new), NEW p
    PROVE  Lands(plan, p) = IF p = id THEN new ELSE p
BY DEF NotePlan, Lands, Renamed

LEMMA NoteReidentified ==
    ASSUME IndexInv, NEW id \in DOMAIN files, NEW new \in Named, EnsurePathAvailable(new, {id}),
           NEW plan, NotePlan(plan, id, new), ApplyReidentify(plan),
           folders' = folders \cup Ancestors(ContainingDir(new))
    PROVE  IndexInv'
<1>1. /\ Operated /\ DOMAIN files' = {Lands(plan, p) : p \in DOMAIN files}
      /\ DOMAIN plan.remap \subseteq DOMAIN files
  BY ReidentifyIs
<1>2. PICK final : /\ DOMAIN final \subseteq DOMAIN files /\ DOMAIN plan.remap \subseteq DOMAIN final
                   /\ db' = RewriteIndex(db, plan, final)
  BY ReidentifyIs
<1>3. \A p : Lands(plan, p) = IF p = id THEN new ELSE p
  BY NoteLands
<1>4. new \in DOMAIN files => new = id
  BY DEF EnsurePathAvailable
<1>5. Apart(plan, DOMAIN files)
  BY <1>3, <1>4 DEF Apart
<1>6. DOMAIN files \subseteq Named /\ IsFiniteSet(DOMAIN files)
  BY DEF IndexInv, Housed, Homes
<1>7. /\ IsFiniteSet(DOMAIN final) /\ Apart(plan, DOMAIN final)
      /\ \A p \in DOMAIN final : Lands(plan, p) \in Named
  <2>1. IsFiniteSet(DOMAIN final)
    BY <1>2, <1>6, FS_Subset
  <2> QED
    BY <1>2, <1>3, <1>5, <1>6, <2>1 DEF Apart
<1>8. Fine(db') /\ Beside(db, db')
  <2> DEFINE ids == SetToSeq(DOMAIN final)
             indexed == [i \in DOMAIN ids |-> DeriveNote(Lands(plan, ids[i]), final[ids[i]])]
             left == RemoveNoteRows(Retarget(db, Here, plan.remap), Here,
                                    {p \in DOMAIN final : Lands(plan, p) # p})
  <2>1. db' = WriteNoteRows(left, Here, indexed)
    BY <1>2 DEF RewriteIndex, NotePlan
  <2>2. Fine(db)
    BY DEF IndexInv
  <2> QED
    BY <1>7, <2>1, <2>2, RowsLand
<1>9. Housed(files', folders')
  <2>1. IsFiniteSet(DOMAIN files')
    BY <1>1, <1>6, LandsFinite
  <2>2. Rooted(Ancestors(ContainingDir(new)))
    BY FrontIs, AboveClosed
  <2>3. DOMAIN files' \subseteq DOMAIN files \cup {new}
    BY <1>1, <1>3
  <2> QED
    BY <2>1, <2>2, <2>3 DEF IndexInv, Housed, Rooted, Homes
<1> QED
  BY <1>1, <1>8, <1>9, OperatedFits

LEMMA RenameNoteStep ==
    ASSUME IndexInv, NEW id \in Noted, NEW title \in Titles, RenameNote(id, title)
    PROVE  IndexInv'
<1> DEFINE new == Append(ContainingDir(id), title)
           plan == Plan(Renamed(id, new), id, title, {}, NoteOnly)
<1>1. id \in DOMAIN files /\ EnsurePathAvailable(new, {id}) /\ ApplyReidentify(plan) /\ folders' = folders
  BY DEF RenameNote
<1>2. id \in Named /\ ContainingDir(id) \in Paths
  BY BundleIsATree, FrontIs DEF Named
<1>3. new \in Named /\ ContainingDir(new) = ContainingDir(id)
  BY <1>2, AppendIs, BundleIsATree
<1>4. NotePlan(plan, id, new)
  BY DEF NotePlan, Plan
<1> HIDE DEF new, plan
<1>5. folders' = folders \cup Ancestors(ContainingDir(new))
  BY <1>1, <1>3 DEF IndexInv, Housed, Homes
<1> QED
  BY <1>1, <1>3, <1>4, <1>5, NoteReidentified

LEMMA MoveNoteStep ==
    ASSUME IndexInv, NEW id \in Noted, NEW dir \in Folders, MoveNote(id, dir)
    PROVE  IndexInv'
<1> DEFINE new == Append(dir, Last(id))
           plan == Plan(Renamed(id, new), None, None, IF ContainingDir(id) # dir THEN {id} ELSE {}, NoteOnly)
<1>1. /\ id \in DOMAIN files /\ EnsurePathAvailable(new, {id}) /\ ApplyReidentify(plan)
      /\ folders' = folders \cup Ancestors(dir)
  BY DEF MoveNote
<1>2. id \in Named /\ Last(id) \in Names /\ dir \in Paths
  BY BundleIsATree, FrontIs DEF Named
<1>3. new \in Named /\ ContainingDir(new) = dir
  BY <1>2, AppendIs
<1>4. NotePlan(plan, id, new)
  BY DEF NotePlan, Plan
<1> HIDE DEF new, plan
<1> QED
  BY <1>1, <1>3, <1>4, NoteReidentified

(* The plan of a Directory that takes the name of a sibling.                 *)
ShiftPlan(plan, rows, old, new) ==
    plan = Plan([id \in rows |-> Moved(id, old, new)], None, None, {}, [old |-> old, new |-> new])

LEMMA DirectoryLands ==
    ASSUME NEW rows, NEW old, NEW new, old # new, \A id \in rows : Under(old, id),
           NEW plan, ShiftPlan(plan, rows, old, new)
    PROVE  /\ plan.directory # NoteOnly /\ plan.directory.old = old /\ plan.directory.new = new
           /\ DOMAIN plan.remap = rows
           /\ \A p : Lands(plan, p) = ShiftedNote(p, old, new)
<1>1. /\ plan.remap = [id \in rows |-> Moved(id, old, new)] /\ plan.directory = [old |-> old, new |-> new]
  BY DEF ShiftPlan, Plan
<1>2. plan.directory # NoteOnly /\ plan.directory.old = old /\ plan.directory.new = new
  BY <1>1 DEF NoteOnly
<1> QED
  BY <1>1, <1>2 DEF Lands, ShiftedNote

(* What is above the name it takes is there already.                         *)
LEMMA ShiftAbove ==
    ASSUME NEW D, Rooted(D), NEW old \in D, NEW new, Siblings(old, new)
    PROVE  Shifted(D, old, new) = Shifted(D, old, new) \cup Ancestors(new)
<1>1. Moved(old, old, new) = new /\ IsPrefix(old, old)
  BY MovedItself
<1>2. new \in Shifted(D, old, new)
  BY <1>1 DEF Shifted
<1>3. Ancestors(old) \subseteq D
  BY DEF Rooted
<1>4. ASSUME NEW a \in Ancestors(new), a # new PROVE a \in Shifted(D, old, new)
  BY <1>3, <1>4, SiblingsAbove DEF Shifted
<1> QED
  BY <1>2, <1>4

Renaming(plan, dir, name, new) ==
    new = Append(Front(dir), name) /\ ShiftPlan(plan, IdsWithPrefix(db, Here, dir), dir, new)

LEMMA RenameDirectoryIs ==
    ASSUME IndexInv, NEW dir \in Folders, NEW name \in Titles, RenameDirectory(dir, name),
           NEW new, NEW plan, Renaming(plan, dir, name, new)
    PROVE  /\ dir \in folders /\ Siblings(dir, new) /\ folders' = Shifted(folders, dir, new)
           /\ plan.directory # NoteOnly /\ plan.directory.old = dir /\ plan.directory.new = new
           /\ plan.retitled = None /\ plan.absolutize = {}
           /\ DOMAIN plan.remap = {id \in RowIds(db) : Under(dir, id)}
           /\ ApplyReidentify(plan) /\ Apart(plan, DOMAIN files)
           /\ \A p : Lands(plan, p) = ShiftedNote(p, dir, new)
           /\ \A p \in DOMAIN files : Homes(folders', {Lands(plan, p)}) /\ ~Under(dir, Lands(plan, p))
<1>0. PICK rows : rows = IdsWithPrefix(db, Here, dir)
  OBVIOUS
<1>1. /\ dir # <<>> /\ dir \in folders /\ new # dir /\ new \notin folders
      /\ ApplyReidentify(plan)
      /\ folders' = Shifted(folders, dir, new)
  BY DEF RenameDirectory, Renaming, ShiftPlan, Shifted
<1>2. Siblings(dir, new)
  <2>1. dir \in Named /\ name \in Names /\ new = Append(ContainingDir(dir), name)
    BY <1>1, BundleIsATree DEF Named, ContainingDir, Renaming
  <2> QED
    BY <1>1, <2>1, SiblingsAre
<1>3. new \in Named /\ new \in Paths
  BY <1>2 DEF Siblings, Named
<1>4. rows = {id \in RowIds(db) : Under(dir, id)}
  BY <1>0, RowsUnder
<1>5. plan.retitled = None /\ plan.absolutize = {}
  BY DEF Renaming, ShiftPlan, Plan
<1>6. /\ plan.directory # NoteOnly /\ plan.directory.old = dir /\ plan.directory.new = new
      /\ DOMAIN plan.remap = rows
      /\ \A p : Lands(plan, p) = ShiftedNote(p, dir, new)
  <2>1. ShiftPlan(plan, rows, dir, new)
    BY <1>0 DEF Renaming
  <2>2. dir # new /\ \A id \in rows : Under(dir, id)
    BY <1>1, <1>4
  <2> QED
    BY <2>1, <2>2, DirectoryLands
<1>7. /\ Rooted(folders) /\ Homes(folders, DOMAIN files)
      /\ DOMAIN files \subseteq Named /\ DOMAIN files \subseteq Paths
  BY DEF IndexInv, Housed, Homes, Named
<1>8. folders' = Shifted(folders, dir, new) \cup Ancestors(new)
  BY <1>1, <1>2, <1>7, ShiftAbove
<1>9. \A p \in DOMAIN files : Homes(folders', {Lands(plan, p)}) /\ ~Under(dir, Lands(plan, p))
  <2> TAKE p \in DOMAIN files
  <2>1. Homes(folders, {p})
    BY <1>7 DEF Homes
  <2>2. Lands(plan, p) = ShiftedNote(p, dir, new)
    BY <1>6
  <2>3. /\ Homes(folders', {ShiftedNote(p, dir, new)})
        /\ ~Under(dir, ShiftedNote(p, dir, new))
    BY <1>2, <1>7, <1>8, <2>1, ShiftHome
  <2> QED
    BY <2>2, <2>3
<1>10. Apart(plan, DOMAIN files)
  <2>1. ASSUME NEW o \in DOMAIN files, NEW p \in DOMAIN files, Under(dir, o), ~Under(dir, p),
               Moved(o, dir, new) = p
        PROVE  FALSE
    <3>1. /\ IsPrefix(dir, ContainingDir(o)) /\ ContainingDir(p) = Moved(ContainingDir(o), dir, new)
          /\ ContainingDir(o) \in Paths /\ ContainingDir(p) \in Paths
      BY <1>2, <1>7, <2>1, MovedHome, FrontIs
    <3>2. IsPrefix(new, ContainingDir(p))
      BY <1>2, <3>1, MovedLands
    <3>3. new \in Ancestors(ContainingDir(p))
      BY <1>3, <3>1, <3>2, AncestorsAre
    <3> QED
      BY <1>1, <1>7, <3>3 DEF Homes
  <2>2. ASSUME NEW o \in DOMAIN files, NEW p \in DOMAIN files, Under(dir, o), Under(dir, p),
               Moved(o, dir, new) = Moved(p, dir, new)
        PROVE  o = p
    BY <1>2, <1>7, <2>2, MovedApart DEF Under, IsStrictPrefix
  <2> QED
    BY <1>6, <2>1, <2>2 DEF Apart, ShiftedNote
<1> QED
  BY <1>1, <1>2, <1>4, <1>5, <1>6, <1>9, <1>10

LEMMA RenameDirectoryStep ==
    ASSUME IndexInv, NEW dir \in Folders, NEW name \in Titles, RenameDirectory(dir, name)
    PROVE  IndexInv'
<1>a. PICK new, plan : Renaming(plan, dir, name, new)
  BY DEF Renaming, ShiftPlan
<1>1. dir \in folders /\ Siblings(dir, new) /\ folders' = Shifted(folders, dir, new)
  BY <1>a, RenameDirectoryIs
<1>2. /\ plan.directory # NoteOnly /\ plan.directory.old = dir /\ plan.directory.new = new
      /\ DOMAIN plan.remap = {id \in RowIds(db) : Under(dir, id)}
      /\ ApplyReidentify(plan) /\ Apart(plan, DOMAIN files)
      /\ \A p \in DOMAIN files : Homes(folders', {Lands(plan, p)}) /\ ~Under(dir, Lands(plan, p))
  BY <1>a, RenameDirectoryIs
<1>3. Rooted(folders) /\ IsFiniteSet(DOMAIN files)
  BY DEF IndexInv, Housed
<1>4. /\ Operated /\ DOMAIN files' = {Lands(plan, p) : p \in DOMAIN files}
  BY <1>2, ReidentifyIs
<1>5. PICK final : /\ DOMAIN final \subseteq DOMAIN files /\ DOMAIN plan.remap \subseteq DOMAIN final
                   /\ db' = RewriteIndex(db, plan, final)
  BY <1>2, ReidentifyIs
<1>6. Housed(files', folders')
  <2>1. IsFiniteSet(DOMAIN files')
    BY <1>3, <1>4, LandsFinite
  <2>2. Homes(folders', DOMAIN files')
    BY <1>2, <1>4 DEF Homes
  <2>3. Rooted(folders')
    BY <1>1, <1>3, ShiftAbove, ShiftClosed
  <2> QED
    BY <2>1, <2>2, <2>3 DEF Housed
<1>7. /\ IsFiniteSet(DOMAIN final) /\ Apart(plan, DOMAIN final)
      /\ \A p \in DOMAIN final : Lands(plan, p) \in Named
  <2>1. IsFiniteSet(DOMAIN final)
    BY <1>3, <1>5, FS_Subset
  <2> QED
    BY <1>2, <1>5, <2>1 DEF Apart, Homes
<1> DEFINE ids == SetToSeq(DOMAIN final)
           indexed == [i \in DOMAIN ids |-> DeriveNote(Lands(plan, ids[i]), final[ids[i]])]
           leaving == {p \in DOMAIN final : Lands(plan, p) # p}
           left == RemoveNoteRows(Retarget(db, Here, plan.remap), Here, leaving)
           t == WriteNoteRows(left, Here, indexed)
<1>8. db' = RekeyDirectories(t, Here, dir, new)
  BY <1>2, <1>5 DEF RewriteIndex
<1>9. /\ Fine(t) /\ Beside(db, t)
      /\ RowIds(t) = (RowIds(db) \ leaving) \cup {Lands(plan, p) : p \in DOMAIN final}
  <2>1. Fine(db)
    BY DEF IndexInv
  <2>2. /\ ids = SetToSeq(DOMAIN final)
        /\ indexed = [i \in DOMAIN ids |-> DeriveNote(Lands(plan, ids[i]), final[ids[i]])]
        /\ left = RemoveNoteRows(Retarget(db, Here, plan.remap), Here,
                                 {id \in DOMAIN final : Lands(plan, id) # id})
        /\ t = WriteNoteRows(left, Here, indexed)
        /\ leaving = {id \in DOMAIN final : Lands(plan, id) # id}
    OBVIOUS
  <2> HIDE DEF ids, indexed, left, t, leaving
  <2>3. /\ Fine(t) /\ Beside(db, t)
        /\ RowIds(t) = (RowIds(db) \ {id \in DOMAIN final : Lands(plan, id) # id})
                       \cup {Lands(plan, id) : id \in DOMAIN final}
    BY <1>7, <2>1, <2>2, RowsLand
  <2> QED
    BY <2>2, <2>3
<1> HIDE DEF t, leaving
<1>10. \A id \in RowIds(t) : ~Under(dir, id)
  <2>1. ASSUME NEW id \in RowIds(db) \ leaving PROVE ~Under(dir, id)
    <3> SUFFICES ASSUME Under(dir, id) PROVE FALSE
      OBVIOUS
    <3>1. id \in DOMAIN final /\ id \in DOMAIN files
      BY <1>2, <1>5
    <3>2. ~Under(dir, Lands(plan, id))
      BY <1>2, <3>1
    <3> QED
      BY <2>1, <3>1, <3>2 DEF leaving
  <2>2. \A p \in DOMAIN final : ~Under(dir, Lands(plan, p))
    BY <1>2, <1>5
  <2> QED
    BY <1>9, <2>1, <2>2
<1>11. Fine(db') /\ Beside(t, db')
  BY <1>1, <1>8, <1>9, <1>10, RekeyFine
<1>12. Beside(db, db')
  BY <1>9, <1>11, BesideSteps
<1> QED
  BY <1>4, <1>6, <1>11, <1>12, OperatedFits

-----------------------------------------------------------------------------

LEMMA IndexInvStays == IndexInv /\ [Next]_vars => IndexInv'
<1> SUFFICES ASSUME IndexInv, [Next]_vars PROVE IndexInv'
  OBVIOUS
<1>1. CASE Lifecycle
  BY <1>1, CreateNoteStep, CreateLinkTargetStep, CreateDirectoryStep, DeleteNoteStep, DeleteDirectoryStep,
     RenameNoteStep, MoveNoteStep, RenameDirectoryStep DEF Lifecycle
<1>2. CASE Indexing
  BY <1>2, WriteFileStep, CompareHashStep, IndexWrittenSourceStep, ScanWalkStep, ScanReadStep, ScanWriteStep
  DEF Indexing
<1>3. CASE Guests
  BY <1>3, GuestWritesStep, GuestRemovesStep, GuestRemovesFolderStep DEF Guests
<1>4. CASE UNCHANGED vars
  <2>1. UNCHANGED <<files, folders, db, writer, scan, tidy>>
    BY <1>4 DEF vars
  <2> QED
    BY <2>1 DEF IndexInv, Housed, ScanFits, TodoIds, WriterFits
<1> QED
  BY <1>1, <1>2, <1>3, <1>4 DEF Next

(* Whatever operations, idle writes, scans and other programs do, the bundle *)
(* and the rows fit each other.                                              *)
THEOREM RowsFitBundle == Spec => []IndexInv
BY IndexInvInit, IndexInvStays, PTL DEF Spec

(* The state has its shape: a file is on disk only in Directories that are.  *)
THEOREM ShapeHolds == Spec => []TypeOK
<1>1. IndexInv => TypeOK
  BY DEF IndexInv, Housed, Rooted, Homes, Named, ScanFits, WriterFits, TypeOK
<1> QED
  BY <1>1, RowsFitBundle, PTL

(* Every row of full text is reachable from exactly one Note and no Note     *)
(* lacks one (purge_note_text before the delete that takes the mapping), no  *)
(* Link is left of a Note that has gone, and the rows of another Workspace   *)
(* stay as they are.                                                         *)
THEOREM RowsStayReachable == Spec => []RowsReachable
<1>1. ASSUME IndexInv PROVE RowsReachable
  <2>1. /\ DOMAIN db.mapping = DOMAIN db.notes
        /\ \A k \in DOMAIN db.notes : db.mapping[k] \in DOMAIN db.fts /\ db.fts[db.mapping[k]] = db.notes[k]
        /\ \A n \in DOMAIN db.fts : \E k \in DOMAIN db.notes : db.mapping[k] = n
        /\ \A l \in db.links : <<l.ws, l.source>> \in DOMAIN db.notes
    BY <1>1 DEF IndexInv, Fine, Sound, Mapped, Sourced
  <2>2. {db.mapping[k] : k \in DOMAIN db.mapping} = DOMAIN db.fts
    BY <2>1
  <2>3. \A l \in db.links : l.source \in Backlinks(db, l.ws, l.target)
    BY <2>1 DEF Backlinks, LinkSources, NoteExists
  <2>4. \A k : k[1] # Here => /\ k \in DOMAIN db.notes <=> k \in DOMAIN Elsewhere.notes
                              /\ k \in DOMAIN Elsewhere.notes => db.notes[k] = Elsewhere.notes[k]
    BY <1>1 DEF IndexInv, Beside
  <2>5. /\ \A k \in KeysOf(Elsewhere, There) : k \in DOMAIN db.notes /\ db.notes[k] = Elsewhere.notes[k]
        /\ KeysOf(db, There) = KeysOf(Elsewhere, There)
    BY <2>4, BundleStarts DEF KeysOf
  <2> QED
    BY <2>1, <2>2, <2>3, <2>5 DEF RowsReachable
<1> QED
  BY <1>1, RowsFitBundle, PTL

(* The tree is shown from the root down, and every indexed Note and every    *)
(* recorded Directory is in it, after renames and moves too.                 *)
THEOREM TreeStaysWhole == Spec => []TreeReaches
<1>1. ASSUME IndexInv PROVE TreeReaches
  <2>1. /\ Paired(DOMAIN db.notes) /\ Paired(db.dirs) /\ Rooted(DirsOf(db)) /\ Homes(DirsOf(db), RowIds(db))
    BY <1>1 DEF IndexInv, Fine, Placed
  <2>2. \A d : d \in DirsOf(db) <=> <<Here, d>> \in db.dirs
    BY <2>1, RowsAre
  <2>3. ASSUME NEW d \in DirsOf(db) PROVE d \in ShownDirectories(db, Here)
    <3>1. <<Here, d>> \in db.dirs /\ <<Here, d>>[2] = d
      BY <2>2
    <3>2. d \in {r[2] : r \in db.dirs}
      BY <3>1
    <3>3. \A a \in Ancestors(d) : <<Here, a>> \in db.dirs
      BY <2>1, <2>2 DEF Rooted
    <3> QED
      BY <3>2, <3>3 DEF ShownDirectories
  <2>4. ASSUME NEW d \in db.dirs, d[1] = Here PROVE d[2] \in ShownDirectories(db, Here)
    BY <2>3, <2>4 DEF DirsOf
  <2>5. ASSUME NEW id \in RowIds(db) PROVE ContainingDir(id) \in {<<>>} \cup ShownDirectories(db, Here)
    <3>1. id \in Named /\ Ancestors(ContainingDir(id)) \subseteq DirsOf(db)
      BY <2>1 DEF Homes
    <3>2. ContainingDir(id) \in Paths
      BY <3>1, FrontIs
    <3>3. ContainingDir(id) = <<>> \/ ContainingDir(id) \in Ancestors(ContainingDir(id))
      BY <3>2, AncestorsAre
    <3> QED
      BY <2>3, <3>1, <3>3
  <2>6. ShownNotes(db, Here) = RowIds(db)
    BY <2>5 DEF ShownNotes, RowIds
  <2> QED
    BY <2>4, <2>6 DEF TreeReaches, RowIds
<1> QED
  BY <1>1, RowsFitBundle, PTL

-----------------------------------------------------------------------------
(* The rows are those of the bundle, as long as no other program has changed *)
(* it since a scan.                                                          *)

(* Operations name Notes as the sidebar and the resolution of Links do, by   *)
(* ids a scan would index.                                                   *)

NamesShown == \A id \in Noted : Walkable(id) /\ Last(id) \notin Reserved

LinkRow(id, e) == [ws |-> Here, source |-> id, target |-> e]

(* The rows of one Note are those of a text.                                 *)
Right(t, id, text) ==
    /\ t.notes[<<Here, id>>] = DeriveNote(id, text).row
    /\ \A e : LinkRow(id, e) \in t.links <=> e \in Edges(id, text)

(* The text the rows of a Note are of: not yet one that is written and not   *)
(* yet indexed.                                                              *)
RowText(id) ==
    IF writer.pc # "idle" /\ id = writer.id THEN db.notes[<<Here, id>>].hash ELSE files[id]

Matched ==
    /\ RowIds(db) = WalkNotes(files) /\ DirsOf(db) = WalkDirectories(folders)
    /\ \A id \in WalkNotes(files) : Right(db, id, RowText(id))

(* What a scan nothing disturbs has read, and what an idle write has written. *)
ScanKnows ==
    /\ scan.dirs = WalkDirectories(folders)
    /\ TodoIds \cup IdsOf(scan.found) = WalkNotes(files)
    /\ \A i \in DOMAIN scan.found : scan.found[i] = DeriveNote(scan.found[i].id, files[scan.found[i].id])

WriterKnows == writer.pc # "idle" => writer.id \in WalkNotes(files) /\ files[writer.id] = writer.text

MatchInv ==
    /\ scan.pc = "read" => writer.pc = "idle" /\ ~tidy
    /\ scan.pc = "read" /\ scan.clean => ScanKnows
    /\ tidy => WriterKnows /\ Matched

(* A row of a Link is known by its source and what it names.                 *)
LEMMA LinkRowsDiffer ==
    ASSUME NEW i, NEW d, NEW j, NEW e, LinkRow(i, d) = LinkRow(j, e)
    PROVE  i = j /\ d = e
<1>1. LinkRow(i, d).source = i /\ LinkRow(i, d).target = d /\ LinkRow(j, e).source = j /\ LinkRow(j, e).target = e
  BY DEF LinkRow
<1> QED
  BY <1>1

LEMMA InsertRight ==
    ASSUME NEW t, Sound(t), NEW notes, Listed(notes), NoteKeys(Here, IdsOf(notes)) \cap DOMAIN t.notes = {},
           NEW u, u = InsertNoteRows(t, Here, notes)
    PROVE  /\ \A i \in DOMAIN notes : u.notes[<<Here, notes[i].id>>] = notes[i].row
           /\ \A i \in DOMAIN notes : \A e : LinkRow(notes[i].id, e) \in u.links <=> e \in notes[i].edges
           /\ \A id, e : id \notin IdsOf(notes) => (LinkRow(id, e) \in u.links <=> LinkRow(id, e) \in t.links)
<1> DEFINE keys == NoteKeys(Here, IdsOf(notes))
           at == [k \in keys |-> CHOOSE i \in DOMAIN notes : notes[i].id = k[2]]
           edges(i) == {[ws |-> Here, source |-> notes[i].id, target |-> e] : e \in notes[i].edges}
           rows == [k \in DOMAIN at |-> notes[at[k]].row]
           more == UNION {edges(i) : i \in DOMAIN notes}
<1>1. u.notes = Updated(t.notes, rows) /\ u.links = t.links \cup more
  <2>1. \E fts, mapping : u = [t EXCEPT !.notes = Updated(@, rows), !.fts = fts, !.mapping = mapping,
                                        !.links = @ \cup more]
    BY DEF InsertNoteRows
  <2>2. t = [notes |-> t.notes, fts |-> t.fts, mapping |-> t.mapping, links |-> t.links, dirs |-> t.dirs]
    BY DEF Sound, Tables
  <2> HIDE DEF rows, more
  <2> QED
    BY <2>1, <2>2
<1>2. ASSUME NEW i \in DOMAIN notes
      PROVE  <<Here, notes[i].id>> \in keys /\ at[<<Here, notes[i].id>>] = i
  <2> DEFINE k == <<Here, notes[i].id>>
  <2>1. k \in keys /\ k[2] = notes[i].id
    BY DEF NoteKeys, IdsOf
  <2>2. at[k] = CHOOSE j \in DOMAIN notes : notes[j].id = notes[i].id
    BY <2>1
  <2>3. at[k] \in DOMAIN notes /\ notes[at[k]].id = notes[i].id
    BY <2>2
  <2> QED
    BY <2>1, <2>3 DEF Listed
<1>3. ASSUME NEW i \in DOMAIN notes PROVE u.notes[<<Here, notes[i].id>>] = notes[i].row
  <2>1. DOMAIN rows = keys /\ rows[<<Here, notes[i].id>>] = notes[i].row
    BY <1>2
  <2> HIDE DEF rows, keys, more
  <2> QED
    BY <1>1, <1>2, <2>1 DEF Updated
<1>4. \A id, e : LinkRow(id, e) \in more <=> \E i \in DOMAIN notes : id = notes[i].id /\ e \in notes[i].edges
  <2>1. ASSUME NEW id, NEW e, LinkRow(id, e) \in more
        PROVE  \E i \in DOMAIN notes : id = notes[i].id /\ e \in notes[i].edges
    <3>1. PICK i \in DOMAIN notes : LinkRow(id, e) \in edges(i)
      BY <2>1
    <3>2. PICK d \in notes[i].edges : LinkRow(id, e) = LinkRow(notes[i].id, d)
      BY <3>1 DEF LinkRow
    <3> QED
      BY <3>2, LinkRowsDiffer
  <2>2. ASSUME NEW i \in DOMAIN notes, NEW e \in notes[i].edges PROVE LinkRow(notes[i].id, e) \in more
    <3>1. LinkRow(notes[i].id, e) \in edges(i)
      BY DEF LinkRow
    <3> QED
      BY <3>1
  <2> QED
    BY <2>1, <2>2
<1> HIDE DEF more
<1>5. ASSUME NEW i \in DOMAIN notes, NEW e PROVE LinkRow(notes[i].id, e) \in u.links <=> e \in notes[i].edges
  <2>1. LinkRow(notes[i].id, e) \notin t.links
    <3>1. LinkRow(notes[i].id, e).ws = Here /\ LinkRow(notes[i].id, e).source = notes[i].id
      BY DEF LinkRow
    <3> QED
      BY <1>2, <3>1 DEF Sound, Sourced
  <2>2. \A j \in DOMAIN notes : notes[i].id = notes[j].id => i = j
    BY DEF Listed
  <2> QED
    BY <1>1, <1>4, <2>1, <2>2
<1>6. ASSUME NEW id, NEW e, id \notin IdsOf(notes) PROVE LinkRow(id, e) \in u.links <=> LinkRow(id, e) \in t.links
  <2>1. \A i \in DOMAIN notes : id # notes[i].id
    BY <1>6 DEF IdsOf
  <2> QED
    BY <1>1, <1>4, <2>1
<1> QED
  BY <1>3, <1>5, <1>6

(* Removing the rows of some Notes leaves those of the others.               *)
LEMMA RemoveRight ==
    ASSUME NEW t, Sound(t), NEW keys, NEW u, u = DeleteNotes(PurgeText(t, keys), keys),
           NEW id, <<Here, id>> \notin keys, NEW text
    PROVE  /\ \A e : LinkRow(id, e) \in u.links <=> LinkRow(id, e) \in t.links
           /\ <<Here, id>> \in DOMAIN t.notes => u.notes[<<Here, id>>] = t.notes[<<Here, id>>]
<1>1. u.links = {l \in t.links : <<l.ws, l.source>> \notin keys}
  <2>1. t = [notes |-> t.notes, fts |-> t.fts, mapping |-> t.mapping, links |-> t.links, dirs |-> t.dirs]
    BY DEF Sound, Tables
  <2> QED
    BY <2>1 DEF DeleteNotes, PurgeText
<1>2. \A e : LinkRow(id, e).ws = Here /\ LinkRow(id, e).source = id
  BY DEF LinkRow
<1>3. \A e : LinkRow(id, e) \in u.links <=> LinkRow(id, e) \in t.links
  BY <1>1, <1>2
<1>4. <<Here, id>> \in DOMAIN t.notes => u.notes[<<Here, id>>] = t.notes[<<Here, id>>]
  BY DeleteSound
<1> QED
  BY <1>3, <1>4

LEMMA RemoveKeeps ==
    ASSUME NEW t, Fine(t), NEW ids, NEW u, u = RemoveNoteRows(t, Here, ids)
    PROVE  \A id \in RowIds(t) \ ids : \A text : Right(t, id, text) => Right(u, id, text)
<1> TAKE id \in RowIds(t) \ ids
<1> TAKE text
<1>1. <<Here, id>> \notin NoteKeys(Here, ids) /\ <<Here, id>> \in DOMAIN t.notes
  BY RowsAre DEF NoteKeys, Fine, Placed
<1> DEFINE keys == NoteKeys(Here, ids)
<1>2. u = DeleteNotes(PurgeText(t, keys), keys)
  BY DEF RemoveNoteRows
<1> HIDE DEF keys
<1>3. /\ \A e : LinkRow(id, e) \in u.links <=> LinkRow(id, e) \in t.links
      /\ u.notes[<<Here, id>>] = t.notes[<<Here, id>>]
  BY <1>1, <1>2, RemoveRight DEF Fine, keys
<1> QED
  BY <1>3 DEF Right

(* Only the Directories change.                                              *)
LEMMA SameRight ==
    ASSUME NEW t, NEW u, u.notes = t.notes, u.links = t.links
    PROVE  \A id, text : Right(t, id, text) <=> Right(u, id, text)
BY DEF Right

(* The rows inserted for a Note are those of its text.                       *)
LEMMA InsertedRight ==
    ASSUME NEW u, NEW note, NEW text, note = DeriveNote(note.id, text), u.notes[<<Here, note.id>>] = note.row,
           \A e : LinkRow(note.id, e) \in u.links <=> e \in note.edges
    PROVE  Right(u, note.id, text)
<1>1. DeriveNote(note.id, text).edges = Edges(note.id, text)
  BY DEF DeriveNote
<1>2. note.edges = Edges(note.id, text) /\ note.row = DeriveNote(note.id, text).row
  BY <1>1
<1> QED
  BY <1>2 DEF Right

LEMMA WriteRight ==
    ASSUME NEW t, Fine(t), NEW notes, Listed(notes), NEW u, u = WriteNoteRows(t, Here, notes)
    PROVE  /\ \A i \in DOMAIN notes : \A text : notes[i] = DeriveNote(notes[i].id, text) => Right(u, notes[i].id, text)
           /\ \A id \in RowIds(t) \ IdsOf(notes) : \A text : Right(t, id, text) => Right(u, id, text)
<1> DEFINE ids == IdsOf(notes)
           dirs == {ContainingDir(id) : id \in ids}
           v == RemoveNoteRows(t, Here, ids)
           w == RecordDirectories(v, Here, dirs)
<1>1. Sound(v) /\ DOMAIN v.notes = DOMAIN t.notes \ NoteKeys(Here, ids)
  BY RemoveSound DEF Fine
<1>2. u = InsertNoteRows(w, Here, notes)
  BY DEF WriteNoteRows
<1>3. \A id \in RowIds(t) \ ids : \A text : Right(t, id, text) => Right(v, id, text)
  BY RemoveKeeps
<1> HIDE DEF v, dirs
<1>4. Sound(w) /\ w.notes = v.notes /\ w.links = v.links
  BY <1>1, RecordSound
<1> HIDE DEF w
<1>5. NoteKeys(Here, ids) \cap DOMAIN w.notes = {}
  BY <1>1, <1>4
<1>6. /\ \A k \in DOMAIN w.notes : u.notes[k] = w.notes[k]
      /\ \A i \in DOMAIN notes : u.notes[<<Here, notes[i].id>>] = notes[i].row
      /\ \A i \in DOMAIN notes : \A e : LinkRow(notes[i].id, e) \in u.links <=> e \in notes[i].edges
      /\ \A id, e : id \notin ids => (LinkRow(id, e) \in u.links <=> LinkRow(id, e) \in w.links)
  BY <1>2, <1>4, <1>5, InsertSound, InsertRight
<1>7. ASSUME NEW i \in DOMAIN notes, NEW text, notes[i] = DeriveNote(notes[i].id, text)
      PROVE  Right(u, notes[i].id, text)
  BY <1>6, <1>7, InsertedRight
<1>8. ASSUME NEW id \in RowIds(t) \ ids, NEW text, Right(t, id, text) PROVE Right(u, id, text)
  <2>1. Right(w, id, text)
    BY <1>3, <1>4, <1>8, SameRight
  <2>2. <<Here, id>> \in DOMAIN w.notes
    BY <1>1, <1>4, RowsAre DEF NoteKeys, Fine, Placed
  <2> QED
    BY <1>6, <2>1, <2>2 DEF Right
<1> QED
  BY <1>7, <1>8

LEMMA ScanRight ==
    ASSUME NEW t, Fine(t), NEW dirs, NEW notes, Listed(notes),
           NEW u, u = WriteScannedBundle(t, Here, dirs, notes)
    PROVE  \A i \in DOMAIN notes : \A text : notes[i] = DeriveNote(notes[i].id, text) => Right(u, notes[i].id, text)
<1> DEFINE keys == KeysOf(t, Here)
           v == DeleteNotes(PurgeText(t, keys), keys)
           w == [v EXCEPT !.dirs = {d \in v.dirs : d[1] # Here} \cup {<<Here, d>> : d \in dirs}]
<1>1. Sound(v) /\ DOMAIN v.notes = DOMAIN t.notes \ keys
  BY DeleteSound DEF Fine
<1>2. u = InsertNoteRows(w, Here, notes)
  BY DEF WriteScannedBundle, PurgeWorkspaceText
<1> HIDE DEF v
<1>3. Sound(w) /\ w.notes = v.notes
  BY <1>1, DirectoriesSound
<1> HIDE DEF w
<1>4. NoteKeys(Here, IdsOf(notes)) \cap DOMAIN w.notes = {}
  BY <1>1, <1>3 DEF NoteKeys, KeysOf
<1>5. /\ \A i \in DOMAIN notes : u.notes[<<Here, notes[i].id>>] = notes[i].row
      /\ \A i \in DOMAIN notes : \A e : LinkRow(notes[i].id, e) \in u.links <=> e \in notes[i].edges
  BY <1>2, <1>3, <1>4, InsertRight
<1> QED
  BY <1>5, InsertedRight

(* A Note that names nothing that is renamed keeps its rows.                 *)
LEMMA RetargetRight ==
    ASSUME NEW t, Fine(t), NEW remap, NEW u, u = Retarget(t, Here, remap),
           NEW id, NEW text, Right(t, id, text), Edges(id, text) \cap DOMAIN remap = {}
    PROVE  Right(u, id, text)
<1> DEFINE shifted(l) == IF l.ws = Here /\ l.target \in DOMAIN remap THEN [l EXCEPT !.target = remap[@]] ELSE l
           links == {shifted(l) : l \in t.links}
<1>1. u.links = links /\ u.notes = t.notes
  <2>1. t = [notes |-> t.notes, fts |-> t.fts, mapping |-> t.mapping, links |-> t.links, dirs |-> t.dirs]
    BY DEF Fine, Sound, Tables
  <2>2. u = [t EXCEPT !.links = links]
    BY DEF Retarget
  <2> HIDE DEF links
  <2> QED
    BY <2>1, <2>2
<1>2. ASSUME NEW e, LinkRow(id, e) \in t.links PROVE LinkRow(id, e) \in links
  <2>1. LinkRow(id, e).target = e
    BY DEF LinkRow
  <2>2. e \notin DOMAIN remap
    BY <1>2 DEF Right
  <2>3. shifted(LinkRow(id, e)) = LinkRow(id, e)
    BY <2>1, <2>2
  <2> QED
    BY <1>2, <2>3
<1>3. ASSUME NEW e, LinkRow(id, e) \in links PROVE LinkRow(id, e) \in t.links
  <2>1. PICK l \in t.links : LinkRow(id, e) = shifted(l)
    BY <1>3
  <2>2. l = [ws |-> l.ws, source |-> l.source, target |-> l.target]
    BY DEF Fine, Sound, Sourced
  <2>3. LinkRow(id, e).ws = Here /\ LinkRow(id, e).source = id
    BY DEF LinkRow
  <2>4. shifted(l).ws = l.ws /\ shifted(l).source = l.source
    BY <2>2
  <2>5. l = LinkRow(id, l.target)
    BY <2>1, <2>2, <2>3, <2>4 DEF LinkRow
  <2>6. l.target \in Edges(id, text)
    BY <2>5 DEF Right
  <2>7. shifted(l) = l
    BY <2>6
  <2> QED
    BY <2>1, <2>7
<1> HIDE DEF links
<1> QED
  BY <1>1, <1>2, <1>3 DEF Right

-----------------------------------------------------------------------------
(* The Links of a text, and what a rewriting finds of them.                  *)

LEMMA LinksAreFound ==
    ASSUME NEW s, NEW e \in LinksOf(s), ~e.image
    PROVE  \E v \in Opening(s, FALSE) : v.dest = e.dest
<1>1. PICK line \in ToSet(Lines(s)) : e = Content(line.text)
  <2>1. e \in ToSet(Contents(s))
    BY DEF LinksOf
  <2> DEFINE lines == Lines(s)
  <2>2. Contents(s) = [k \in DOMAIN lines |-> Content(lines[k].text)]
    BY DEF Contents
  <2> HIDE DEF lines
  <2>3. PICK k \in DOMAIN lines : e = Content(lines[k].text)
    BY <2>1, <2>2 DEF ToSet
  <2>4. lines[k] \in ToSet(lines)
    BY DEF ToSet
  <2> QED
    BY <2>3, <2>4 DEF lines
<1>2. "dest" \in DOMAIN e
  BY DEF LinksOf
<1>3. line.text \in DOMAIN Reading /\ e = Reading[line.text]
  <2>1. DOMAIN [prose |-> line.text] = {"prose"}
    OBVIOUS
  <2> QED
    BY <1>1, <1>2, <2>1 DEF Content
<1> DEFINE v == Event("link", line.at, line.at + Len(Spelling(e)), e.dest)
<1>4. v \in LineEvents(line)
  BY <1>3 DEF LineEvents, ElementEvents, Around
<1>5. v.what = "link" /\ v.dest = e.dest
  BY DEF Event
<1> HIDE DEF v
<1>6. v \in Events(s)
  BY <1>1, <1>4 DEF Events
<1> QED
  BY <1>5, <1>6 DEF Opening

(* A rewriting that changes nothing had nothing to change.                   *)
LEMMA UnchangedTargets ==
    ASSUME NEW s, NEW dir, NEW remap, NEW e \in LinksOf(s), ~e.image, Classify(e.dest, dir) \in DOMAIN remap,
           RewriteLinkTargets(s, dir, remap) # Refused
    PROVE  RewriteLinkTargets(s, dir, remap).changed = TRUE
<1> DEFINE renamed == {d \in Dests(s, FALSE) : Classify(d, dir) \in DOMAIN remap}
           new == [d \in renamed |-> Bundle("note", remap[Classify(d, dir)])]
           spans == {[at |-> DestinationSpan(s, l), new |-> l.new] : l \in MatchingLinks(s, FALSE, new)}
           body == SpliceAll(s, spans)
<1>1. PICK v \in Opening(s, FALSE) : v.dest = e.dest
  BY LinksAreFound
<1>2. v.dest \in renamed
  BY <1>1 DEF Dests
<1>3. DOMAIN new = renamed
  OBVIOUS
<1> HIDE DEF new, renamed
<1>4. MatchingLinks(s, FALSE, new) # {}
  <2>1. v \in {o \in Opening(s, FALSE) : o.dest \in DOMAIN new}
    BY <1>2, <1>3
  <2> QED
    BY <2>1 DEF MatchingLinks
<1>5. spans # {}
  BY <1>4
<1>6. RewriteLinkTargets(s, dir, remap)
        = IF spans = {} THEN [body |-> s, changed |-> FALSE]
          ELSE IF body = Refused THEN Refused ELSE [body |-> body, changed |-> TRUE]
  BY Zenon DEF RewriteLinkTargets, RewriteDestinations, renamed, new
<1> HIDE DEF spans, body
<1> QED
  BY <1>5, <1>6

LEMMA UnchangedText ==
    ASSUME NEW text, NEW dir, NEW remap, NEW title,
           RewriteNoteText(text, dir, remap, title, FALSE) # Refused,
           ~RewriteNoteText(text, dir, remap, title, FALSE).changed,
           NEW e \in LinksOf(text.body), ~e.image
    PROVE  Classify(e.dest, dir) \notin DOMAIN remap
<1> SUFFICES ASSUME Classify(e.dest, dir) \in DOMAIN remap PROVE FALSE
  OBVIOUS
<1> DEFINE done == Retitle(text, title)
           rewrite == RewriteLinkTargets(done.text.body, dir, remap)
<1>1. RewriteNoteText(text, dir, remap, title, FALSE) = Remap(done, dir, remap)
  BY DEF RewriteNoteText
<1>2. RewriteNoteText(text, dir, remap, title, FALSE) = WithBody(done, rewrite) /\ rewrite # Refused
  BY <1>1 DEF Remap, WithBody
<1>3. ~(done.changed \/ rewrite.changed)
  <2> HIDE DEF done, rewrite
  <2> DEFINE now == [done.text EXCEPT !.body = rewrite.body]
             either == done.changed \/ rewrite.changed
  <2>1. WithBody(done, rewrite) = [text |-> now, changed |-> either]
    BY <1>2 DEF WithBody
  <2> HIDE DEF now, either
  <2>2. WithBody(done, rewrite).changed = either
    BY <2>1
  <2> QED
    BY <1>2, <2>2 DEF either
<1>4. done.text = text
  BY <1>3 DEF Retitle
<1> HIDE DEF done
<1>5. rewrite.changed = TRUE
  BY <1>2, <1>4, UnchangedTargets
<1> QED
  BY <1>3, <1>5

(* The Notes whose rows name what is renamed, and only they, are rewritten.  *)
LEMMA EdgesFollowed ==
    ASSUME NEW plan, NEW p, p \notin plan.absolutize,
           Rewritten(plan, p) # Refused, ~Rewritten(plan, p).changed
    PROVE  Edges(p, files[p]) \cap DOMAIN plan.remap = {}
<1> DEFINE title == IF plan.retitled = p THEN plan.title ELSE None
<1>1. (p \in plan.absolutize) = FALSE
  OBVIOUS
<1>2. Rewritten(plan, p) = RewriteNoteText(files[p], ContainingDir(p), plan.remap, title, FALSE)
  BY <1>1 DEF Rewritten
<1> HIDE DEF title
<1>3. \A e \in LinksOf(files[p].body) : ~e.image => Classify(e.dest, ContainingDir(p)) \notin DOMAIN plan.remap
  BY <1>2, UnchangedText
<1> QED
  BY <1>3 DEF Edges

-----------------------------------------------------------------------------
(* What a walk passes over.                                                  *)

LEMMA WalkableAbove ==
    ASSUME NEW p \in Paths, Walkable(p), NEW a \in Paths, IsPrefix(a, p)
    PROVE  Walkable(a)
<1>1. /\ DOMAIN a = 1..Len(a) /\ DOMAIN p = 1..Len(p) /\ Len(a) <= Len(p) /\ Len(a) \in Nat /\ Len(p) \in Nat
      /\ \A i \in 1..Len(a) : a[i] = p[i]
  BY PathsAre, PrefixMeans
<1>2. \A i \in DOMAIN a : i \in DOMAIN p /\ a[i] = p[i]
  BY <1>1
<1> QED
  BY <1>2 DEF Walkable, Contained

LEMMA WalkableHome ==
    ASSUME NEW id \in Named, Walkable(id)
    PROVE  Walkable(ContainingDir(id))
<1>1. /\ ContainingDir(id) \in Paths /\ id \in Paths /\ Len(ContainingDir(id)) = Len(id) - 1 /\ Len(id) \in Nat
      /\ \A i \in 1..(Len(id) - 1) : ContainingDir(id)[i] = id[i]
  BY FrontIs, PathsAre DEF Named
<1>2. Len(ContainingDir(id)) <= Len(id) /\ \A i \in 1..Len(ContainingDir(id)) : ContainingDir(id)[i] = id[i]
  BY <1>1
<1>3. IsPrefix(ContainingDir(id), id)
  BY <1>1, <1>2, PrefixMeans
<1> QED
  BY <1>1, <1>3, WalkableAbove

LEMMA WalkableNormal ==
    ASSUME NEW dir, NormalDirectory(dir), Contained(dir)
    PROVE  Walkable(dir)
BY DEF NormalDirectory, ValidSegment, Walkable

LEMMA WalkableIn ==
    ASSUME NEW dir \in Paths, Walkable(dir), NEW name \in Names \ Dotted, Contained(Append(dir, name))
    PROVE  Walkable(Append(dir, name)) /\ Last(Append(dir, name)) = name
<1> DEFINE p == Append(dir, name)
<1>1. /\ p \in Named /\ Len(p) = Len(dir) + 1 /\ p[Len(dir) + 1] = name
      /\ \A i \in 1..Len(dir) : p[i] = dir[i]
  BY AppendIs
<1> HIDE DEF p
<1>2. /\ DOMAIN p = 1..(Len(dir) + 1) /\ DOMAIN dir = 1..Len(dir) /\ Len(dir) \in Nat /\ p[Len(p)] = Last(p)
  BY <1>1, PathsAre, FrontIs DEF Named
<1>3. \A i \in DOMAIN p : p[i] \notin Dotted
  <2> TAKE i \in DOMAIN p
  <2>1. i \in 1..Len(dir) \/ i = Len(dir) + 1
    BY <1>2
  <2> QED
    BY <1>1, <1>2, <2>1 DEF Walkable
<1>4. Last(p) = name
  BY <1>1, <1>2
<1> QED
  BY <1>3, <1>4 DEF Walkable, p

(* A Directory takes the name of a sibling, both in the walk.                *)
LEMMA MovedWalks ==
    ASSUME NEW old, NEW new, Siblings(old, new), Walkable(old), Walkable(new), NEW p \in Paths, IsPrefix(old, p)
    PROVE  /\ Walkable(Moved(p, old, new)) <=> Walkable(p)
           /\ Under(old, p) => Last(Moved(p, old, new)) = Last(p)
<1> DEFINE q == Moved(p, old, new)
           l == Len(old)
<1>1. /\ old \in Named /\ new \in Named /\ old \in Paths /\ new \in Paths /\ Len(old) = Len(new) /\ l \in Nat
      /\ Len(p) \in Nat /\ DOMAIN old = 1..l /\ DOMAIN new = 1..l /\ DOMAIN p = 1..Len(p) /\ l > 0
  BY PathsAre DEF Siblings, Named
<1>2. l <= Len(p) /\ \A i \in 1..l : old[i] = p[i]
  BY <1>1, PrefixMeans
<1>3. /\ q \in Named /\ Len(q) = Len(p) /\ \A i \in 1..l : q[i] = new[i]
      /\ \A i \in (l + 1)..Len(p) : q[i] = p[i]
  BY <1>1, MovedIs
<1> HIDE DEF q
<1>4. DOMAIN q = 1..Len(p)
  BY <1>3, PathsAre DEF Named
<1>5. Walkable(q) <=> \A i \in (l + 1)..Len(p) : q[i] \notin Dotted
  <2>1. \A i \in DOMAIN q : i \in 1..l \/ i \in (l + 1)..Len(p)
    BY <1>1, <1>4
  <2>2. \A i \in 1..l : i \in DOMAIN q /\ q[i] = new[i] /\ new[i] \notin Dotted /\ (i = 1 => new[i] \notin Linked)
    BY <1>1, <1>2, <1>3, <1>4 DEF Walkable, Contained
  <2>3. \A i \in (l + 1)..Len(p) : i \in DOMAIN q /\ i # 1
    BY <1>1, <1>4
  <2> QED
    BY <2>1, <2>2, <2>3 DEF Walkable, Contained
<1>6. Walkable(p) <=> \A i \in (l + 1)..Len(p) : p[i] \notin Dotted
  <2>1. \A i \in DOMAIN p : i \in 1..l \/ i \in (l + 1)..Len(p)
    BY <1>1
  <2>2. \A i \in 1..l : i \in DOMAIN p /\ p[i] = old[i] /\ old[i] \notin Dotted /\ (i = 1 => old[i] \notin Linked)
    BY <1>1, <1>2 DEF Walkable, Contained
  <2>3. \A i \in (l + 1)..Len(p) : i \in DOMAIN p /\ i # 1
    BY <1>1
  <2> QED
    BY <2>1, <2>2, <2>3 DEF Walkable, Contained
<1>7. ASSUME Under(old, p) PROVE Last(q) = Last(p)
  <2>1. Len(p) # l
    BY <1>1, <1>2, <1>7, SamePath DEF Under, IsStrictPrefix
  <2>2. p \in Named /\ Len(p) \in (l + 1)..Len(p)
    <3>1. l \in Nat /\ l > 0 /\ Len(p) \in Nat /\ l <= Len(p) /\ Len(p) # l
      BY <1>1, <1>2, <2>1
    <3> HIDE DEF l
    <3>2. Len(p) > 0 /\ l + 1 <= Len(p)
      BY <3>1
    <3> QED
      BY <3>1, <3>2, PathsAre DEF Named
  <2>3. Last(q) = q[Len(p)] /\ Last(p) = p[Len(p)]
    BY <1>3, <2>2, FrontIs
  <2> QED
    BY <1>3, <2>2, <2>3
<1> QED
  BY <1>3, <1>5, <1>6, <1>7 DEF q

LEMMA WalkAdded ==
    ASSUME NEW dirs, NEW dir \in Paths, Walkable(dir)
    PROVE  WalkDirectories(dirs \cup Ancestors(dir)) = WalkDirectories(dirs) \cup Ancestors(dir)
<1>1. \A a \in Ancestors(dir) : Walkable(a)
  BY AncestorsAre, WalkableAbove DEF Named
<1> QED
  BY <1>1 DEF WalkDirectories

LEMMA WalkShifted ==
    ASSUME NEW dirs \in SUBSET Named, NEW old, NEW new, Siblings(old, new), Walkable(old), Walkable(new)
    PROVE  WalkDirectories(Shifted(dirs, old, new)) = Shifted(WalkDirectories(dirs), old, new)
<1> DEFINE shift(d) == IF IsPrefix(old, d) THEN Moved(d, old, new) ELSE d
<1>1. \A d \in dirs : Walkable(shift(d)) <=> Walkable(d)
  BY MovedWalks DEF Named
<1> HIDE DEF shift
<1>2. \A D : Shifted(D, old, new) = {shift(d) : d \in D}
  BY DEF Shifted, shift
<1> QED
  BY <1>1, <1>2 DEF WalkDirectories

-----------------------------------------------------------------------------
(* Renames and moves: the texts and the rows.                                *)

LEMMA ReidentifyWrites ==
    ASSUME NEW plan, ApplyReidentify(plan), Apart(plan, DOMAIN files)
    PROVE  /\ DOMAIN files' = {Lands(plan, p) : p \in DOMAIN files}
           /\ \E final : /\ DOMAIN final \subseteq Candidates(plan) \cap DOMAIN files
                         /\ DOMAIN plan.remap \subseteq DOMAIN final
                         /\ db' = RewriteIndex(db, plan, final)
                         /\ \A p \in DOMAIN files : files'[Lands(plan, p)]
                                                      = IF p \in DOMAIN final THEN final[p] ELSE files[p]
                         /\ \A p \in (Candidates(plan) \cap DOMAIN files) \ DOMAIN final :
                              Rewritten(plan, p) # Refused /\ ~Rewritten(plan, p).changed
<1> DEFINE held == Candidates(plan) \cap DOMAIN files
           rewritten == [id \in held |-> Rewritten(plan, id)]
           final == FinalTexts(plan, rewritten)
<1>1. /\ DOMAIN plan.remap \subseteq DOMAIN files /\ Install(plan, final)
      /\ \A id \in DOMAIN rewritten : rewritten[id] # Refused
  BY DEF ApplyReidentify, Carry
<1>2. DOMAIN rewritten = held /\ \A id \in held : rewritten[id] = Rewritten(plan, id)
  OBVIOUS
<1>3. DOMAIN plan.remap \subseteq held
  BY <1>1 DEF Candidates, Targets
<1> HIDE DEF rewritten, held
<1>4. DOMAIN final = {c \in held : rewritten[c].changed \/ c \in DOMAIN plan.remap}
  BY <1>2 DEF FinalTexts
<1> HIDE DEF final
<1>5. /\ DOMAIN final \subseteq held /\ DOMAIN plan.remap \subseteq DOMAIN final
      /\ \A p \in held \ DOMAIN final : Rewritten(plan, p) # Refused /\ ~Rewritten(plan, p).changed
  BY <1>1, <1>2, <1>3, <1>4
<1> DEFINE lands == {Lands(plan, p) : p \in DOMAIN files}
           from(q) == CHOOSE o \in DOMAIN files : Lands(plan, o) = q
           text(p) == IF p \in DOMAIN final THEN final[p] ELSE files[p]
<1>6. files' = [q \in lands |-> text(from(q))] /\ db' = RewriteIndex(db, plan, final)
  BY <1>1 DEF Install
<1>7. ASSUME NEW p \in DOMAIN files PROVE files'[Lands(plan, p)] = text(p)
  <2>1. Lands(plan, p) \in lands
    OBVIOUS
  <2>2. from(Lands(plan, p)) \in DOMAIN files /\ Lands(plan, from(Lands(plan, p))) = Lands(plan, p)
    OBVIOUS
  <2>3. from(Lands(plan, p)) = p
    BY <2>2 DEF Apart
  <2> HIDE DEF lands, from, text
  <2> QED
    BY <1>6, <2>1, <2>3
<1>8. DOMAIN files' = lands
  BY <1>6
<1> QED
  BY <1>5, <1>6, <1>7, <1>8 DEF held

(* What a plan that keeps to the Notes of the rows must do.                  *)
Orderly(plan) ==
    /\ Targets(plan) \subseteq WalkNotes(files) /\ plan.absolutize \subseteq DOMAIN plan.remap
    /\ Apart(plan, DOMAIN files) /\ \A p \in DOMAIN files : Lands(plan, p) \in Named
    /\ \A p \in WalkNotes(files) : p \in DOMAIN plan.remap \/ Lands(plan, p) = p
    /\ \A p \in DOMAIN files : Lands(plan, p) \in WalkNotes(files') <=> p \in WalkNotes(files)

LEMMA RowsFollow ==
    ASSUME Fine(db), Housed(files, folders), Matched, writer.pc = "idle",
           NEW plan, Orderly(plan), ApplyReidentify(plan)
    PROVE  \E t : /\ db' = IF plan.directory = NoteOnly THEN t
                           ELSE RekeyDirectories(t, Here, plan.directory.old, plan.directory.new)
                  /\ Fine(t) /\ RowIds(t) = WalkNotes(files')
                  /\ \A id \in WalkNotes(files') : Right(t, id, files'[id])
                  /\ \E moved : /\ DOMAIN plan.remap \subseteq moved /\ moved \subseteq WalkNotes(files)
                                /\ DirsOf(t) = DirsOf(db)
                                              \cup UNION {Ancestors(ContainingDir(Lands(plan, p))) : p \in moved}
<1>1. PICK final : /\ DOMAIN final \subseteq Candidates(plan) \cap DOMAIN files
                   /\ DOMAIN plan.remap \subseteq DOMAIN final
                   /\ db' = RewriteIndex(db, plan, final)
                   /\ \A p \in DOMAIN files : files'[Lands(plan, p)]
                                                = IF p \in DOMAIN final THEN final[p] ELSE files[p]
                   /\ \A p \in (Candidates(plan) \cap DOMAIN files) \ DOMAIN final :
                        Rewritten(plan, p) # Refused /\ ~Rewritten(plan, p).changed
  BY ReidentifyWrites DEF Orderly
<1>2. DOMAIN files' = {Lands(plan, p) : p \in DOMAIN files}
  BY ReidentifyWrites DEF Orderly
<1>3. /\ RowIds(db) = WalkNotes(files) /\ \A id \in WalkNotes(files) : Right(db, id, files[id])
      /\ WalkNotes(files) \subseteq DOMAIN files
  BY DEF Matched, RowText, WalkNotes
<1>4. DOMAIN final \subseteq WalkNotes(files)
  <2>1. ASSUME NEW old, NEW source \in LinkSources(db, Here, old) PROVE source \in RowIds(db)
    <3>1. PICK l \in db.links : l.ws = Here /\ l.source = source
      BY DEF LinkSources
    <3>2. <<Here, source>> \in DOMAIN db.notes /\ Paired(DOMAIN db.notes) /\ Paired(db.dirs)
      BY <3>1 DEF Fine, Sound, Sourced, Placed
    <3> QED
      BY <3>2, RowsAre
  <2> QED
    BY <1>1, <1>3, <2>1 DEF Candidates, Orderly
<1> DEFINE ids == SetToSeq(DOMAIN final)
           indexed == [i \in DOMAIN ids |-> DeriveNote(Lands(plan, ids[i]), final[ids[i]])]
           leaving == {p \in DOMAIN final : Lands(plan, p) # p}
           kept == Retarget(db, Here, plan.remap)
           left == RemoveNoteRows(kept, Here, leaving)
           t == WriteNoteRows(left, Here, indexed)
<1>5. db' = IF plan.directory = NoteOnly THEN t
            ELSE RekeyDirectories(t, Here, plan.directory.old, plan.directory.new)
  BY <1>1 DEF RewriteIndex
<1>6. IsFiniteSet(DOMAIN final) /\ Apart(plan, DOMAIN final) /\ \A p \in DOMAIN final : Lands(plan, p) \in Named
  <2>1. IsFiniteSet(DOMAIN final)
    BY <1>1, FS_Subset DEF Housed
  <2> QED
    BY <1>1, <2>1 DEF Orderly, Apart
<1>7. /\ DOMAIN ids = 1..Cardinality(DOMAIN final) /\ Cardinality(DOMAIN final) \in Nat
      /\ \A i \in DOMAIN ids : ids[i] \in DOMAIN final
      /\ \A i, j \in DOMAIN ids : ids[i] = ids[j] => i = j
      /\ \A x \in DOMAIN final : \E i \in DOMAIN ids : ids[i] = x
  BY <1>6, OrderFacts
<1>8. Fine(t) /\ RowIds(t) = (RowIds(db) \ leaving) \cup {Lands(plan, p) : p \in DOMAIN final}
  <2>1. /\ ids = SetToSeq(DOMAIN final)
        /\ indexed = [i \in DOMAIN ids |-> DeriveNote(Lands(plan, ids[i]), final[ids[i]])]
        /\ left = RemoveNoteRows(Retarget(db, Here, plan.remap), Here,
                                 {id \in DOMAIN final : Lands(plan, id) # id})
        /\ t = WriteNoteRows(left, Here, indexed)
        /\ leaving = {id \in DOMAIN final : Lands(plan, id) # id}
    OBVIOUS
  <2> HIDE DEF ids, indexed, left, t, leaving
  <2>2. /\ Fine(t) /\ RowIds(t) = (RowIds(db) \ {id \in DOMAIN final : Lands(plan, id) # id})
                                  \cup {Lands(plan, id) : id \in DOMAIN final}
    BY <1>6, <2>1, RowsLand
  <2> QED
    BY <2>1, <2>2
<1> HIDE DEF ids
<1>9. /\ DOMAIN indexed = DOMAIN ids
      /\ \A i \in DOMAIN ids : /\ indexed[i].id = Lands(plan, ids[i])
                               /\ indexed[i] = DeriveNote(indexed[i].id, final[ids[i]])
  BY DEF DeriveNote
<1> HIDE DEF indexed
<1>10. Listed(indexed) /\ IdsOf(indexed) = {Lands(plan, p) : p \in DOMAIN final}
  <2>1. ASSUME NEW i \in DOMAIN indexed, NEW j \in DOMAIN indexed, indexed[i].id = indexed[j].id PROVE i = j
    BY <1>6, <1>7, <1>9, <2>1 DEF Apart
  <2>2. \E n \in Nat : DOMAIN indexed = 1..n
    BY <1>7, <1>9
  <2>3. IdsOf(indexed) = {Lands(plan, p) : p \in DOMAIN final}
    BY <1>7, <1>9 DEF IdsOf
  <2> QED
    BY <2>1, <2>2, <2>3 DEF Listed
<1>11. Fine(kept) /\ RowIds(kept) = RowIds(db) /\ DirsOf(kept) = DirsOf(db)
  BY RetargetFine
<1> HIDE DEF kept, leaving
<1>12. Fine(left) /\ RowIds(left) = RowIds(db) \ leaving /\ DirsOf(left) = DirsOf(db)
  BY <1>11, RemoveFine
<1> HIDE DEF left
<1>13. /\ \A i \in DOMAIN indexed : \A text : indexed[i] = DeriveNote(indexed[i].id, text)
                                                => Right(t, indexed[i].id, text)
       /\ \A id \in RowIds(left) \ IdsOf(indexed) : \A text : Right(left, id, text) => Right(t, id, text)
       /\ DirsOf(t) = DirsOf(left) \cup UNION {Ancestors(ContainingDir(id)) : id \in IdsOf(indexed)}
  <2>1. IdsOf(indexed) \subseteq Named
    BY <1>6, <1>10
  <2> QED
    BY <1>10, <1>12, <2>1, WriteRight, WriteFine
<1> HIDE DEF t
<1>14. ASSUME NEW p \in DOMAIN final PROVE Right(t, Lands(plan, p), files'[Lands(plan, p)])
  <2>1. PICK i \in DOMAIN ids : ids[i] = p
    BY <1>7
  <2>2. indexed[i].id = Lands(plan, p) /\ indexed[i] = DeriveNote(indexed[i].id, final[p])
    BY <1>9, <2>1
  <2> QED
    BY <1>1, <1>9, <1>13, <2>2
<1>15. ASSUME NEW p \in WalkNotes(files) \ DOMAIN final PROVE Right(t, p, files'[p]) /\ Lands(plan, p) = p
  <2>1. p \in DOMAIN files /\ p \in RowIds(db) /\ Lands(plan, p) = p /\ p \notin DOMAIN plan.remap
    BY <1>1, <1>3 DEF Orderly
  <2>2. files'[p] = files[p]
    BY <1>1, <2>1
  <2>3. Edges(p, files[p]) \cap DOMAIN plan.remap = {}
    <3>1. CASE p \in Candidates(plan)
      BY <1>1, <2>1, <3>1, EdgesFollowed DEF Orderly
    <3>2. CASE p \notin Candidates(plan)
      <4>1. ASSUME NEW e \in Edges(p, files[p]), e \in DOMAIN plan.remap PROVE FALSE
        <5>1. LinkRow(p, e) \in db.links
          BY <1>3 DEF Right
        <5>2. LinkRow(p, e).ws = Here /\ LinkRow(p, e).source = p /\ LinkRow(p, e).target = e
          BY DEF LinkRow
        <5>3. p \in LinkSources(db, Here, e)
          BY <5>1, <5>2 DEF LinkSources
        <5> QED
          BY <3>2, <4>1, <5>3 DEF Candidates
      <4> QED
        BY <4>1
    <3> QED
      BY <3>1, <3>2
  <2>4. Right(kept, p, files[p])
    BY <1>3, <2>3, RetargetRight DEF kept
  <2>5. p \notin leaving
    BY DEF leaving
  <2>6. Right(left, p, files[p])
    BY <1>11, <2>1, <2>4, <2>5, RemoveKeeps DEF left
  <2>7. p \notin IdsOf(indexed)
    <3>1. ASSUME NEW o \in DOMAIN final, Lands(plan, o) = p PROVE FALSE
      BY <1>1, <2>1, <3>1 DEF Orderly, Apart
    <3> QED
      BY <1>10, <3>1
  <2> QED
    BY <1>12, <1>13, <2>1, <2>2, <2>5, <2>6, <2>7
<1>16. WalkNotes(files') = {Lands(plan, p) : p \in WalkNotes(files)}
  <2>1. ASSUME NEW q \in WalkNotes(files') PROVE \E p \in WalkNotes(files) : q = Lands(plan, p)
    <3>1. PICK p \in DOMAIN files : q = Lands(plan, p)
      BY <1>2 DEF WalkNotes
    <3> QED
      BY <3>1 DEF Orderly
  <2>2. \A p \in WalkNotes(files) : Lands(plan, p) \in WalkNotes(files')
    BY <1>3 DEF Orderly
  <2> QED
    BY <2>1, <2>2
<1>17. \A id \in WalkNotes(files') : Right(t, id, files'[id])
  BY <1>14, <1>15, <1>16
<1>18. RowIds(t) = WalkNotes(files')
  <2>1. ASSUME NEW q \in RowIds(t) PROVE q \in WalkNotes(files')
    <3>1. CASE q \in RowIds(db) \ leaving
      <4>1. q \in WalkNotes(files) /\ Lands(plan, q) = q
        BY <1>3, <1>15, <3>1 DEF leaving
      <4> QED
        BY <1>16, <4>1
    <3>2. CASE q \in {Lands(plan, p) : p \in DOMAIN final}
      BY <1>4, <1>16, <3>2
    <3> QED
      BY <1>8, <3>1, <3>2
  <2>2. ASSUME NEW p \in WalkNotes(files) PROVE Lands(plan, p) \in RowIds(t)
    <3>1. CASE p \in DOMAIN final
      BY <1>8, <3>1
    <3>2. CASE p \notin DOMAIN final
      BY <1>3, <1>8, <1>15, <3>2 DEF leaving
    <3> QED
      BY <3>1, <3>2
  <2> QED
    BY <1>16, <2>1, <2>2
<1>19. DirsOf(t) = DirsOf(db) \cup UNION {Ancestors(ContainingDir(Lands(plan, p))) : p \in DOMAIN final}
  <2>1. UNION {Ancestors(ContainingDir(id)) : id \in IdsOf(indexed)}
          = UNION {Ancestors(ContainingDir(Lands(plan, p))) : p \in DOMAIN final}
    BY <1>10
  <2> QED
    BY <1>12, <1>13, <2>1
<1> QED
  BY <1>1, <1>4, <1>5, <1>8, <1>17, <1>18, <1>19

-----------------------------------------------------------------------------
(* The steps of the idle write, of the scan and of other programs.           *)

LEMMA RightText ==
    ASSUME NEW t, NEW id, NEW text, Right(t, id, text)
    PROVE  t.notes[<<Here, id>>].hash = text
BY DEF Right, DeriveNote

(* The rows of a Note that are right for a text are right for what they say. *)
LEMMA RightItself ==
    ASSUME NEW t, NEW id, NEW text, Right(t, id, text)
    PROVE  Right(t, id, t.notes[<<Here, id>>].hash)
BY RightText

LEMMA MatchedRows ==
    ASSUME Fine(db), Matched, NEW id \in WalkNotes(files)
    PROVE  /\ <<Here, id>> \in DOMAIN db.notes /\ id \in RowIds(db) /\ id \in Named
           /\ Ancestors(ContainingDir(id)) \subseteq DirsOf(db)
<1>1. id \in RowIds(db)
  BY DEF Matched
<1> QED
  BY <1>1, RowsAre DEF Fine, Placed, Homes

LEMMA MatchInit == Init => MatchInv
<1> SUFFICES ASSUME Init PROVE MatchInv
  OBVIOUS
<1> DEFINE ids == WalkNotes(StartFiles)
           s == SetToSeq(ids)
           notes == [i \in DOMAIN s |-> DeriveNote(s[i], StartFiles[s[i]])]
           dirs == WalkDirectories(StartFolders)
<1>1. /\ files = StartFiles /\ folders = StartFolders /\ scan.pc = "idle" /\ writer.pc = "idle"
      /\ db = WriteScannedBundle(Elsewhere, Here, dirs, notes)
  BY DEF Init, ScanBundle, SortedIds, Still, Rest
<1>2. IsFiniteSet(ids) /\ Rooted(dirs) /\ Homes(dirs, ids)
  BY StartBundle, WalkFits
<1> HIDE DEF ids
<1>3. /\ \A x \in ids : \E i \in DOMAIN s : s[i] = x
      /\ \A i \in DOMAIN s : s[i] \in ids
  BY <1>2, OrderFacts
<1>4. /\ DOMAIN notes = DOMAIN s
      /\ \A i \in DOMAIN notes : /\ notes[i].id = s[i]
                                 /\ notes[i] = DeriveNote(notes[i].id, StartFiles[notes[i].id])
  BY DEF DeriveNote
<1> HIDE DEF notes
<1>5. Listed(notes) /\ IdsOf(notes) = ids
  BY <1>2, <1>4, ListIs
<1> HIDE DEF s, dirs
<1>6. /\ \A i \in DOMAIN notes : \A text : notes[i] = DeriveNote(notes[i].id, text) => Right(db, notes[i].id, text)
      /\ RowIds(db) = ids /\ DirsOf(db) = dirs
  BY <1>1, <1>2, <1>5, ElsewhereFine, ScanRight, ScanFine
<1>7. ASSUME NEW id \in ids PROVE Right(db, id, StartFiles[id])
  <2>1. PICK i \in DOMAIN notes : notes[i].id = id
    BY <1>5 DEF IdsOf
  <2> QED
    BY <1>4, <1>6, <2>1
<1> QED
  BY <1>1, <1>6, <1>7 DEF MatchInv, Matched, RowText, WriterKnows, ids, dirs

LEMMA MatchWriteFile ==
    ASSUME ~RescanRaces, IndexInv, MatchInv, NEW id \in Noted, NEW body \in Bodies, WriteFile(id, body)
    PROVE  MatchInv'
<1> DEFINE text == [files[id] EXCEPT !.body = body]
<1>1. /\ id \in WalkNotes(files) /\ UNCHANGED <<folders, db, scan, tidy>> /\ writer.pc = "idle"
      /\ scan.pc = "idle"
      /\ files' = [files EXCEPT ![id] = text] /\ writer' = [pc |-> "written", id |-> id, text |-> text]
  <2>1. scan.pc = "idle"
    BY DEF WriteFile, IndexInv, ScanFits
  <2> QED
    BY <2>1 DEF WriteFile
<1> HIDE DEF text
<1>2. /\ DOMAIN files' = DOMAIN files /\ files'[id] = text /\ \A p \in DOMAIN files : p # id => files'[p] = files[p]
      /\ writer'.pc = "written" /\ writer'.id = id /\ writer'.text = text /\ id \in DOMAIN files
  BY <1>1 DEF WalkNotes
<1>3. WalkNotes(files') = WalkNotes(files) /\ WalkNotes(files) \subseteq DOMAIN files
  BY <1>2 DEF WalkNotes
<1>4. ASSUME tidy PROVE Matched'
  <2>1. Matched
    BY <1>4 DEF MatchInv
  <2>2. \A p \in WalkNotes(files) : Right(db, p, files[p])
    BY <1>1, <2>1 DEF Matched, RowText
  <2>3. ASSUME NEW p \in WalkNotes(files) PROVE Right(db, p, RowText(p)')
    <3>1. CASE p = id
      BY <1>1, <1>2, <2>2, <3>1, RightItself DEF RowText
    <3>2. CASE p # id
      BY <1>2, <1>3, <2>2, <3>2 DEF RowText
    <3> QED
      BY <3>1, <3>2
  <2> QED
    BY <1>1, <1>3, <2>1, <2>3 DEF Matched
<1>5. WriterKnows'
  BY <1>1, <1>2, <1>3 DEF WriterKnows
<1> QED
  BY <1>1, <1>4, <1>5 DEF MatchInv

LEMMA MatchCompareHash == ASSUME IndexInv, MatchInv, CompareHash PROVE MatchInv'
<1>1. writer.pc = "written" /\ UNCHANGED <<files, folders, db, scan, tidy>>
  BY DEF CompareHash
<1>2. scan.pc # "read"
  BY <1>1 DEF MatchInv
<1>3. ASSUME tidy PROVE WriterKnows' /\ Matched'
  <2>1. Matched /\ writer.id \in WalkNotes(files) /\ files[writer.id] = writer.text
    BY <1>1, <1>3 DEF MatchInv, WriterKnows
  <2>2. Fine(db) /\ writer = [pc |-> writer.pc, id |-> writer.id, text |-> writer.text]
    BY DEF IndexInv, WriterFits
  <2>3. <<Here, writer.id>> \in DOMAIN db.notes
    BY <2>1, <2>2, MatchedRows
  <2>4. /\ \A p \in WalkNotes(files) : p # writer.id => Right(db, p, files[p])
        /\ Right(db, writer.id, db.notes[<<Here, writer.id>>].hash)
    BY <1>1, <2>1 DEF Matched, RowText
  <2>5. CASE StoredContentHash(db, Here, writer.id) = writer.text
    <3>1. writer'.pc = "idle"
      BY <2>5 DEF CompareHash, Rest
    <3>2. db.notes[<<Here, writer.id>>].hash = files[writer.id]
      BY <2>1, <2>3, <2>5 DEF StoredContentHash, NoteExists
    <3>3. \A p \in WalkNotes(files) : Right(db, p, files[p])
      BY <2>4, <3>2
    <3> QED
      BY <1>1, <2>1, <3>1, <3>3 DEF WriterKnows, Matched, RowText
  <2>6. CASE StoredContentHash(db, Here, writer.id) # writer.text
    <3>1. writer' = [writer EXCEPT !.pc = "stale"]
      BY <2>6 DEF CompareHash
    <3>2. writer'.pc = "stale" /\ writer'.id = writer.id /\ writer'.text = writer.text
      BY <2>2, <3>1
    <3>3. \A p \in WalkNotes(files) : RowText(p)' = RowText(p)
      BY <1>1, <3>2 DEF RowText
    <3> QED
      BY <1>1, <2>1, <3>2, <3>3 DEF WriterKnows, Matched
  <2> QED
    BY <2>5, <2>6
<1> QED
  BY <1>1, <1>2, <1>3 DEF MatchInv

LEMMA MatchIndexWrittenSource == ASSUME IndexInv, MatchInv, IndexWrittenSource PROVE MatchInv'
<1> DEFINE notes == <<DeriveNote(writer.id, writer.text)>>
<1>1. /\ writer.pc = "stale" /\ UNCHANGED <<files, folders, scan, tidy>> /\ writer'.pc = "idle"
      /\ db' = WriteNoteRows(db, Here, notes)
  BY DEF IndexWrittenSource, Rest
<1>2. scan.pc # "read"
  BY <1>1 DEF MatchInv
<1>3. ASSUME tidy PROVE Matched'
  <2>1. /\ Fine(db) /\ Matched /\ writer.id \in WalkNotes(files) /\ files[writer.id] = writer.text
    BY <1>1, <1>3 DEF IndexInv, MatchInv, WriterKnows
  <2>2. writer.id \in RowIds(db) /\ writer.id \in Named /\ Ancestors(ContainingDir(writer.id)) \subseteq DirsOf(db)
    BY <2>1, MatchedRows
  <2>3. /\ Listed(notes) /\ IdsOf(notes) = {writer.id} /\ DOMAIN notes = {1}
        /\ notes[1].id = writer.id /\ notes[1] = DeriveNote(notes[1].id, writer.text)
    BY OneNote DEF DeriveNote
  <2> HIDE DEF notes
  <2>4. /\ \A i \in DOMAIN notes : \A text : notes[i] = DeriveNote(notes[i].id, text) => Right(db', notes[i].id, text)
        /\ \A id \in RowIds(db) \ IdsOf(notes) : \A text : Right(db, id, text) => Right(db', id, text)
        /\ DirsOf(db') = DirsOf(db) \cup UNION {Ancestors(ContainingDir(id)) : id \in IdsOf(notes)}
        /\ RowIds(db') = RowIds(db) \cup IdsOf(notes)
    BY <1>1, <2>1, <2>2, <2>3, WriteRight, WriteFine
  <2>5. DirsOf(db') = DirsOf(db) /\ RowIds(db') = RowIds(db)
    BY <2>2, <2>3, <2>4
  <2>6. ASSUME NEW p \in WalkNotes(files) PROVE Right(db', p, files[p])
    <3>1. CASE p = writer.id
      BY <2>1, <2>3, <2>4, <3>1
    <3>2. CASE p # writer.id
      BY <2>1, <2>3, <2>4, <3>2 DEF Matched, RowText
    <3> QED
      BY <3>1, <3>2
  <2>7. \A p \in WalkNotes(files) : RowText(p)' = files[p]
    BY <1>1 DEF RowText
  <2> QED
    BY <1>1, <2>1, <2>5, <2>6, <2>7 DEF Matched
<1> QED
  BY <1>1, <1>2, <1>3 DEF MatchInv, WriterKnows

LEMMA MatchScanWalk == ASSUME ~RescanRaces, IndexInv, ScanWalk PROVE MatchInv'
<1> DEFINE ids == WalkNotes(files)
           s == SetToSeq(ids)
<1>1. /\ UNCHANGED <<files, folders, db, writer, tidy>> /\ writer.pc = "idle" /\ tidy = FALSE
      /\ scan' = [pc |-> "read", todo |-> s, found |-> <<>>, dirs |-> WalkDirectories(folders), clean |-> TRUE]
  BY DEF ScanWalk, SortedIds, IndexInv
<1>2. IsFiniteSet(ids)
  BY WalkFits DEF IndexInv
<1> HIDE DEF ids
<1>3. (\A x \in ids : \E i \in DOMAIN s : s[i] = x) /\ (\A i \in DOMAIN s : s[i] \in ids)
  BY <1>2, OrderFacts
<1> HIDE DEF s
<1>4. scan'.todo = s /\ scan'.found = <<>> /\ scan'.dirs = WalkDirectories(folders)
  BY <1>1
<1>5. TodoIds' = ids
  BY <1>3, <1>4 DEF TodoIds
<1>6. DOMAIN scan'.found = {} /\ IdsOf(scan'.found) = {}
  BY <1>4 DEF IdsOf
<1>7. ScanKnows'
  BY <1>1, <1>4, <1>5, <1>6 DEF ScanKnows, ids
<1> QED
  BY <1>1, <1>7 DEF MatchInv

LEMMA MatchScanRead == ASSUME IndexInv, MatchInv, ScanRead PROVE MatchInv'
<1> DEFINE id == Head(scan.todo)
           note == DeriveNote(id, files[id])
<1>1. /\ UNCHANGED <<files, folders, db, writer, tidy>> /\ scan.todo # <<>> /\ scan.pc = "read"
      /\ scan' = [scan EXCEPT !.todo = Tail(@), !.found = IF id \in DOMAIN files THEN Append(@, note) ELSE @]
  BY DEF ScanRead
<1>2. /\ scan = [pc |-> scan.pc, todo |-> scan.todo, found |-> scan.found, dirs |-> scan.dirs, clean |-> scan.clean]
      /\ \E S : scan.todo \in Seq(S)
      /\ \E S : scan.found \in Seq(S)
      /\ \A i, j \in DOMAIN scan.todo : scan.todo[i] = scan.todo[j] => i = j
      /\ Listed(scan.found) /\ TodoIds \cap IdsOf(scan.found) = {}
  BY DEF IndexInv, ScanFits
<1>3. ~tidy /\ writer.pc = "idle"
  BY <1>1 DEF MatchInv
<1> HIDE DEF note
<1>4. /\ scan'.pc = scan.pc /\ scan'.todo = Tail(scan.todo) /\ scan'.dirs = scan.dirs /\ scan'.clean = scan.clean
      /\ scan'.found = IF id \in DOMAIN files THEN Append(scan.found, note) ELSE scan.found
  BY <1>1, <1>2
<1>5. ASSUME scan.clean PROVE ScanKnows'
  <2>1. ScanKnows
    BY <1>1, <1>5 DEF MatchInv
  <2>2. /\ \E i \in DOMAIN scan.todo : scan.todo[i] = id
        /\ \A i \in DOMAIN Tail(scan.todo) : \E j \in DOMAIN scan.todo : Tail(scan.todo)[i] = scan.todo[j]
    BY <1>1, <1>2, HeadIsRead
  <2>3. \A j \in DOMAIN scan.todo :
            scan.todo[j] = id \/ \E i \in DOMAIN Tail(scan.todo) : Tail(scan.todo)[i] = scan.todo[j]
    <3> TAKE j \in DOMAIN scan.todo
    <3>1. PICK S : scan.todo \in Seq(S)
      BY <1>2
    <3> DEFINE q == scan.todo
    <3>2. q \in Seq(S) /\ q # <<>>
      BY <1>1, <3>1
    <3> HIDE DEF q
    <3>3. /\ Len(q) \in Nat /\ DOMAIN q = 1..Len(q) /\ DOMAIN Tail(q) = 1..(Len(q) - 1) /\ Head(q) = q[1]
          /\ \A i \in 1..(Len(q) - 1) : Tail(q)[i] = q[i + 1]
      BY <3>2
    <3>4. ASSUME NEW k \in DOMAIN q PROVE q[k] = Head(q) \/ \E i \in DOMAIN Tail(q) : Tail(q)[i] = q[k]
      <4>1. CASE k = 1
        BY <3>3, <4>1
      <4>2. CASE k # 1
        <5>1. k - 1 \in DOMAIN Tail(q) /\ k - 1 + 1 = k /\ k - 1 \in 1..(Len(q) - 1)
          BY <3>3, <4>2
        <5> QED
          BY <3>3, <5>1
      <4> QED
        BY <4>1, <4>2
    <3> QED
      BY <3>4 DEF q
  <2> HIDE DEF id
  <2>4. TodoIds = TodoIds' \cup {id}
    BY <1>4, <2>2, <2>3 DEF TodoIds
  <2>5. id \in TodoIds /\ id \in WalkNotes(files) /\ id \in DOMAIN files
    BY <2>1, <2>4 DEF ScanKnows, WalkNotes
  <2>6. scan'.found = Append(scan.found, note) /\ note.id = id /\ note = DeriveNote(note.id, files[note.id])
    BY <1>4, <2>5 DEF note, DeriveNote
  <2>7. id \notin IdsOf(scan.found)
    BY <1>2, <2>5
  <2>8. IdsOf(scan'.found) = IdsOf(scan.found) \cup {id}
    BY <1>2, <2>6, <2>7, AppendListed
  <2>9. \A i \in DOMAIN scan'.found :
            scan'.found[i] = note \/ \E j \in DOMAIN scan.found : scan'.found[i] = scan.found[j]
    <3>1. PICK S : scan.found \in Seq(S)
      BY <1>2
    <3> DEFINE q == scan.found
    <3>2. q \in Seq(S \cup {note})
      BY <3>1
    <3> HIDE DEF q
    <3>3. /\ Len(q) \in Nat /\ DOMAIN q = 1..Len(q) /\ DOMAIN Append(q, note) = 1..(Len(q) + 1)
          /\ \A i \in 1..Len(q) : Append(q, note)[i] = q[i]
          /\ Append(q, note)[Len(q) + 1] = note
      BY <3>2
    <3>4. ASSUME NEW i \in DOMAIN Append(q, note)
          PROVE  Append(q, note)[i] = note \/ \E j \in DOMAIN q : Append(q, note)[i] = q[j]
      <4>1. i \in 1..Len(q) \/ i = Len(q) + 1
        BY <3>3
      <4> QED
        BY <3>3, <4>1
    <3> QED
      BY <2>6, <3>4 DEF q
  <2>10. \A i \in DOMAIN scan'.found : scan'.found[i] = DeriveNote(scan'.found[i].id, files[scan'.found[i].id])
    BY <2>1, <2>6, <2>9 DEF ScanKnows
  <2> QED
    BY <1>1, <1>4, <2>1, <2>4, <2>8, <2>10 DEF ScanKnows
<1> QED
  BY <1>1, <1>3, <1>4, <1>5 DEF MatchInv

LEMMA MatchScanWrite == ASSUME IndexInv, MatchInv, ScanWrite PROVE MatchInv'
<1>1. /\ scan.pc = "read" /\ scan.todo = <<>> /\ UNCHANGED <<files, folders, writer>> /\ tidy' = scan.clean
      /\ db' = WriteScannedBundle(db, Here, scan.dirs, scan.found) /\ scan'.pc = "idle"
  BY DEF ScanWrite, Still
<1>2. /\ writer.pc = "idle" /\ Fine(db) /\ Listed(scan.found)
      /\ Rooted(scan.dirs) /\ Homes(scan.dirs, IdsOf(scan.found))
  BY <1>1 DEF MatchInv, IndexInv, ScanFits, Homes
<1>3. ASSUME scan.clean PROVE Matched'
  <2>1. ScanKnows
    BY <1>1, <1>3 DEF MatchInv
  <2>2. TodoIds = {}
    BY <1>1 DEF TodoIds
  <2>3. IdsOf(scan.found) = WalkNotes(files)
    BY <2>1, <2>2 DEF ScanKnows
  <2>4. /\ \A i \in DOMAIN scan.found : \A text : scan.found[i] = DeriveNote(scan.found[i].id, text)
                                                     => Right(db', scan.found[i].id, text)
        /\ RowIds(db') = WalkNotes(files) /\ DirsOf(db') = scan.dirs
    <3>1. db' = WriteScannedBundle(db, Here, scan.dirs, scan.found)
      BY <1>1
    <3>2. RowIds(db') = IdsOf(scan.found) /\ DirsOf(db') = scan.dirs
      BY <1>2, <3>1, ScanFine
    <3>3. \A i \in DOMAIN scan.found : \A text : scan.found[i] = DeriveNote(scan.found[i].id, text)
                                                   => Right(db', scan.found[i].id, text)
      BY <1>2, <3>1, ScanRight
    <3> QED
      BY <2>3, <3>2, <3>3
  <2>5. ASSUME NEW id \in WalkNotes(files) PROVE Right(db', id, files[id])
    <3>1. PICK i \in DOMAIN scan.found : scan.found[i].id = id
      BY <2>3 DEF IdsOf
    <3> QED
      BY <2>1, <2>4, <3>1 DEF ScanKnows
  <2>6. \A id \in WalkNotes(files) : RowText(id)' = files[id]
    BY <1>1, <1>2 DEF RowText
  <2> QED
    BY <1>1, <2>1, <2>4, <2>5, <2>6 DEF Matched, ScanKnows
<1> QED
  BY <1>1, <1>2, <1>3 DEF MatchInv, WriterKnows

LEMMA MatchForeign == ASSUME IndexInv, MatchInv, Foreign PROVE MatchInv'
<1>1. UNCHANGED writer /\ scan' = [scan EXCEPT !.clean = FALSE] /\ tidy' = FALSE
  BY DEF Foreign
<1>2. scan = [pc |-> scan.pc, todo |-> scan.todo, found |-> scan.found, dirs |-> scan.dirs, clean |-> scan.clean]
  BY DEF IndexInv, ScanFits
<1>3. scan'.pc = scan.pc /\ scan'.clean = FALSE
  BY <1>1, <1>2
<1> QED
  BY <1>1, <1>3 DEF MatchInv

-----------------------------------------------------------------------------
(* The lifecycle operations.                                                 *)

LEMMA MatchOperated ==
    ASSUME MatchInv, Serialized, Operated, tidy => WriterKnows' /\ Matched'
    PROVE  MatchInv'
<1>1. scan.pc = "idle" /\ UNCHANGED <<writer, scan, tidy>>
  BY DEF Serialized, Operated
<1> QED
  BY <1>1 DEF MatchInv

(* A Note that is new, in a Directory a walk goes into.                      *)
LEMMA MatchPublish ==
    ASSUME IndexInv, MatchInv, NEW id \in Named, Walkable(id), Last(id) \notin Reserved,
           EnsurePathAvailable(id, {}), Publish(id), Serialized, Operated
    PROVE  MatchInv'
<1> DEFINE text == ConformantNote(Last(id))
           notes == <<DeriveNote(id, text)>>
<1>1. /\ files' = Updated(files, [p \in {id} |-> text]) /\ folders' = folders \cup Ancestors(ContainingDir(id))
      /\ db' = WriteNoteRows(db, Here, notes)
  BY DEF Publish
<1>2. UNCHANGED writer /\ id \notin DOMAIN files
  BY DEF Operated, EnsurePathAvailable
<1> HIDE DEF text
<1>3. /\ DOMAIN files' = DOMAIN files \cup {id} /\ files'[id] = text /\ \A p \in DOMAIN files : files'[p] = files[p]
  BY <1>1, <1>2 DEF Updated
<1>4. WalkNotes(files') = WalkNotes(files) \cup {id} /\ WalkNotes(files) \subseteq DOMAIN files
  BY <1>3 DEF WalkNotes
<1>5. WalkDirectories(folders') = WalkDirectories(folders) \cup Ancestors(ContainingDir(id))
  BY <1>1, FrontIs, WalkableHome, WalkAdded
<1>6. /\ Listed(notes) /\ IdsOf(notes) = {id} /\ DOMAIN notes = {1}
      /\ notes[1].id = id /\ notes[1] = DeriveNote(notes[1].id, text)
  BY OneNote DEF DeriveNote
<1> HIDE DEF notes
<1>7. ASSUME tidy PROVE WriterKnows' /\ Matched'
  <2>1. Fine(db) /\ Matched /\ WriterKnows
    BY <1>7 DEF IndexInv, MatchInv
  <2>2. /\ \A i \in DOMAIN notes : \A t : notes[i] = DeriveNote(notes[i].id, t) => Right(db', notes[i].id, t)
        /\ \A p \in RowIds(db) \ IdsOf(notes) : \A t : Right(db, p, t) => Right(db', p, t)
        /\ DirsOf(db') = DirsOf(db) \cup UNION {Ancestors(ContainingDir(p)) : p \in IdsOf(notes)}
        /\ RowIds(db') = RowIds(db) \cup IdsOf(notes)
    BY <1>1, <1>6, <2>1, WriteRight, WriteFine
  <2>3. DirsOf(db') = WalkDirectories(folders') /\ RowIds(db') = WalkNotes(files')
    BY <1>4, <1>5, <1>6, <2>1, <2>2 DEF Matched
  <2>4. Right(db', id, RowText(id)')
    BY <1>2, <1>3, <1>4, <1>6, <2>1, <2>2 DEF RowText, WriterKnows
  <2>5. ASSUME NEW p \in WalkNotes(files) PROVE Right(db', p, RowText(p)')
    <3>1. p \in RowIds(db) \ IdsOf(notes) /\ p \in DOMAIN files
      BY <1>2, <1>4, <1>6, <2>1 DEF Matched
    <3>2. Right(db, p, RowText(p))
      BY <2>1 DEF Matched
    <3>3. Right(db', p, RowText(p))
      BY <2>2, <3>1, <3>2
    <3>4. CASE writer.pc # "idle" /\ p = writer.id
      BY <1>2, <3>3, <3>4, RightItself DEF RowText
    <3>5. CASE ~(writer.pc # "idle" /\ p = writer.id)
      BY <1>2, <1>3, <3>1, <3>3, <3>5 DEF RowText
    <3> QED
      BY <3>4, <3>5
  <2>6. Matched'
    BY <1>4, <2>3, <2>4, <2>5 DEF Matched
  <2>7. WriterKnows'
    BY <1>2, <1>3, <1>4, <2>1 DEF WriterKnows
  <2> QED
    BY <2>6, <2>7
<1> QED
  BY <1>7, MatchOperated

LEMMA MatchCreateNote ==
    ASSUME IndexInv, MatchInv, NEW dir \in Folders, NEW title \in Titles, CreateNote(dir, title)
    PROVE  MatchInv'
<1> DEFINE new == Append(dir, title)
<1>1. /\ Serialized /\ Operated /\ Publish(new) /\ EnsurePathAvailable(new, {})
      /\ title \in Names \ Dotted /\ title \notin Reserved /\ NormalDirectory(dir) /\ Contained(dir)
  BY DEF CreateNote, ValidTitle, ValidSegment, EnsureDirectoryExists
<1>2. dir \in Paths /\ new \in Named /\ Contained(new)
  BY <1>1, BundleIsATree, AppendIs DEF EnsurePathAvailable
<1>3. Walkable(new) /\ Last(new) = title
  BY <1>1, <1>2, WalkableNormal, WalkableIn
<1> HIDE DEF new
<1> QED
  BY <1>1, <1>2, <1>3, MatchPublish

LEMMA MatchCreateLinkTarget ==
    ASSUME NamesShown, IndexInv, MatchInv, NEW id \in Noted, CreateLinkTarget(id)
    PROVE  MatchInv'
<1>1. Serialized /\ Operated /\ Publish(id) /\ EnsurePathAvailable(id, {})
  BY DEF CreateLinkTarget
<1>2. id \in Named /\ Walkable(id) /\ Last(id) \notin Reserved
  BY BundleIsATree DEF NamesShown, Named
<1> QED
  BY <1>1, <1>2, MatchPublish

LEMMA MatchCreateDirectory ==
    ASSUME IndexInv, MatchInv, NEW dir \in Folders, CreateDirectory(dir)
    PROVE  MatchInv'
<1>1. /\ Serialized /\ Operated /\ UNCHANGED <<files, writer>>
      /\ folders' = folders \cup Ancestors(dir) /\ db' = RecordDirectories(db, Here, {dir})
  BY DEF CreateDirectory, Operated
<1>2. dir \in Paths /\ Walkable(dir)
  BY BundleIsATree, WalkableNormal DEF CreateDirectory, CanMaterialize
<1>3. /\ db'.notes = db.notes /\ db'.links = db.links /\ DirsOf(db') = DirsOf(db) \cup Ancestors(dir)
  BY <1>1, <1>2, RecordFine DEF IndexInv
<1>4. ASSUME tidy PROVE WriterKnows' /\ Matched'
  <2>1. Matched /\ WriterKnows
    BY <1>4 DEF MatchInv
  <2>2. RowIds(db') = RowIds(db) /\ \A id : RowText(id)' = RowText(id)
    BY <1>1, <1>3 DEF RowIds, KeysOf, RowText
  <2>3. \A id, text : Right(db, id, text) <=> Right(db', id, text)
    BY <1>3, SameRight
  <2>4. DirsOf(db') = WalkDirectories(folders')
    BY <1>1, <1>2, <1>3, <2>1, WalkAdded DEF Matched
  <2> QED
    BY <1>1, <2>1, <2>2, <2>3, <2>4 DEF Matched, WriterKnows
<1> QED
  BY <1>1, <1>4, MatchOperated

(* With no write under way, the rows are those of the files.                 *)
LEMMA MatchedFiles ==
    ASSUME writer.pc = "idle"
    PROVE  Matched <=> /\ RowIds(db) = WalkNotes(files) /\ DirsOf(db) = WalkDirectories(folders)
                       /\ \A id \in WalkNotes(files) : Right(db, id, files[id])
BY DEF Matched, RowText

LEMMA MatchIdle ==
    ASSUME MatchInv, writer.pc = "idle", Serialized, Operated,
           Matched => /\ RowIds(db') = WalkNotes(files') /\ DirsOf(db') = WalkDirectories(folders')
                      /\ \A id \in WalkNotes(files') : Right(db', id, files'[id])
    PROVE  MatchInv'
<1>1. writer' = writer
  BY DEF Operated
<1>2. ASSUME tidy PROVE WriterKnows' /\ Matched'
  <2>1. Matched
    BY <1>2 DEF MatchInv
  <2> QED
    BY <1>1, <2>1 DEF WriterKnows, Matched, RowText
<1> QED
  BY <1>2, MatchOperated

LEMMA WalkedGone ==
    ASSUME NEW held, NEW gone, NEW now, now = Without(held, gone)
    PROVE  /\ WalkNotes(now) = WalkNotes(held) \ gone
           /\ \A id \in WalkNotes(now) : now[id] = held[id]
BY DEF Without, WalkNotes

LEMMA MatchDeleteNote ==
    ASSUME IndexInv, MatchInv, NEW id \in Noted, DeleteNote(id)
    PROVE  MatchInv'
<1>1. /\ Serialized /\ Operated /\ writer.pc = "idle" /\ folders' = folders
      /\ files' = Without(files, {id}) /\ db' = RemoveNoteRows(db, Here, {id})
  BY DEF DeleteNote, WritersOut
<1>2. /\ WalkNotes(files') = WalkNotes(files) \ {id}
      /\ \A p \in WalkNotes(files') : files'[p] = files[p]
  BY <1>1, WalkedGone
<1>3. /\ RowIds(db') = RowIds(db) \ {id} /\ DirsOf(db') = DirsOf(db)
      /\ \A p \in RowIds(db) \ {id} : \A text : Right(db, p, text) => Right(db', p, text)
  BY <1>1, RemoveFine, RemoveKeeps DEF IndexInv
<1> QED
  BY <1>1, <1>2, <1>3, MatchedFiles, MatchIdle

LEMMA MatchDeleteDirectory ==
    ASSUME IndexInv, MatchInv, NEW dir \in Folders, DeleteDirectory(dir)
    PROVE  MatchInv'
<1>1. PICK rows, left : rows = IdsWithPrefix(db, Here, dir) /\ left = RemoveNoteRows(db, Here, rows)
  OBVIOUS
<1>2. /\ Serialized /\ Operated /\ writer.pc = "idle" /\ dir \in Named
      /\ files' = Without(files, {id \in DOMAIN files : Under(dir, id)})
      /\ folders' = {f \in folders : ~IsPrefix(dir, f)}
      /\ db' = [left EXCEPT !.dirs = {d \in @ : d[1] # Here \/ ~IsPrefix(dir, d[2])}]
  BY <1>1, BundleIsATree DEF DeleteDirectory, WritersOut, Named
<1>3. /\ WalkNotes(files') = {id \in WalkNotes(files) : ~Under(dir, id)}
      /\ \A p \in WalkNotes(files') : files'[p] = files[p]
  BY <1>2, WalkedGone DEF WalkNotes
<1>4. WalkDirectories(folders') = Dropped(WalkDirectories(folders), dir)
  BY <1>2 DEF WalkDirectories, Dropped
<1>5. rows = {id \in RowIds(db) : Under(dir, id)}
  BY <1>1, RowsUnder
<1>6. /\ Fine(left) /\ RowIds(left) = RowIds(db) \ rows /\ DirsOf(left) = DirsOf(db)
      /\ \A p \in RowIds(db) \ rows : \A text : Right(db, p, text) => Right(left, p, text)
  BY <1>1, RemoveFine, RemoveKeeps DEF IndexInv
<1>7. /\ db'.notes = left.notes /\ db'.links = left.links /\ DirsOf(db') = Dropped(DirsOf(left), dir)
  BY <1>2, <1>5, <1>6, DropFine
<1>8. /\ RowIds(db') = RowIds(left)
      /\ \A p, text : Right(left, p, text) <=> Right(db', p, text)
  BY <1>7, SameRight DEF RowIds, KeysOf
<1> QED
  BY <1>2, <1>3, <1>4, <1>5, <1>6, <1>7, <1>8, MatchedFiles, MatchIdle

LEMMA MatchNoteReidentified ==
    ASSUME IndexInv, MatchInv, NEW id \in WalkNotes(files), NEW new \in Named,
           Walkable(new), Last(new) \notin Reserved, EnsurePathAvailable(new, {id}),
           NEW plan, NotePlan(plan, id, new), Targets(plan) \subseteq {id},
           plan.absolutize \subseteq DOMAIN plan.remap,
           ApplyReidentify(plan), folders' = folders \cup Ancestors(ContainingDir(new))
    PROVE  MatchInv'
<1>1. Serialized /\ Operated /\ writer.pc = "idle"
  BY DEF ApplyReidentify, WritersOut
<1>2. \A p : Lands(plan, p) = IF p = id THEN new ELSE p
  BY NoteLands
<1>3. plan.directory = NoteOnly /\ DOMAIN plan.remap = {id} \ {new}
  BY DEF NotePlan, Renamed
<1>4. new \in DOMAIN files => new = id
  BY DEF EnsurePathAvailable
<1>5. Apart(plan, DOMAIN files)
  BY <1>2, <1>4 DEF Apart
<1>6. DOMAIN files' = {Lands(plan, p) : p \in DOMAIN files}
  BY ReidentifyIs
<1>7. \A p \in DOMAIN files : Lands(plan, p) \in WalkNotes(files') <=> p \in WalkNotes(files)
  BY <1>2, <1>6 DEF WalkNotes
<1>8. DOMAIN files \subseteq Named
  BY DEF IndexInv, Housed, Homes
<1>9. Orderly(plan)
  BY <1>2, <1>3, <1>5, <1>7, <1>8 DEF Orderly
<1>10. ASSUME Matched
       PROVE  /\ RowIds(db') = WalkNotes(files') /\ DirsOf(db') = WalkDirectories(folders')
              /\ \A p \in WalkNotes(files') : Right(db', p, files'[p])
  <2>1. Fine(db) /\ Housed(files, folders)
    BY DEF IndexInv
  <2>2. PICK t : /\ db' = IF plan.directory = NoteOnly THEN t
                          ELSE RekeyDirectories(t, Here, plan.directory.old, plan.directory.new)
                 /\ Fine(t) /\ RowIds(t) = WalkNotes(files')
                 /\ \A p \in WalkNotes(files') : Right(t, p, files'[p])
                 /\ \E moved : /\ DOMAIN plan.remap \subseteq moved /\ moved \subseteq WalkNotes(files)
                               /\ DirsOf(t) = DirsOf(db)
                                             \cup UNION {Ancestors(ContainingDir(Lands(plan, p))) : p \in moved}
    BY <1>1, <1>9, <1>10, <2>1, RowsFollow
  <2>3. PICK moved : /\ DOMAIN plan.remap \subseteq moved /\ moved \subseteq WalkNotes(files)
                     /\ DirsOf(t) = DirsOf(db)
                                   \cup UNION {Ancestors(ContainingDir(Lands(plan, p))) : p \in moved}
    BY <2>2
  <2>4. \A p \in WalkNotes(files) : Ancestors(ContainingDir(p)) \subseteq DirsOf(db)
    BY <1>10, <2>1, MatchedRows
  <2>5. DirsOf(t) = DirsOf(db) \cup Ancestors(ContainingDir(new))
    <3>1. CASE new = id
      BY <1>2, <2>3, <2>4, <3>1
    <3>2. CASE new # id
      <4>1. id \in moved /\ Lands(plan, id) = new
        BY <1>2, <1>3, <2>3, <3>2
      <4>2. \A p \in moved : p # id => Ancestors(ContainingDir(Lands(plan, p))) \subseteq DirsOf(db)
        BY <1>2, <2>3, <2>4
      <4> QED
        BY <2>3, <4>1, <4>2
    <3> QED
      BY <3>1, <3>2
  <2>6. WalkDirectories(folders') = WalkDirectories(folders) \cup Ancestors(ContainingDir(new))
    BY FrontIs, WalkableHome, WalkAdded
  <2> QED
    BY <1>3, <1>10, <2>2, <2>5, <2>6 DEF Matched
<1> QED
  BY <1>1, <1>10, MatchIdle

LEMMA MatchRenameNote ==
    ASSUME NamesShown, IndexInv, MatchInv, NEW id \in Noted, NEW title \in Titles, RenameNote(id, title)
    PROVE  MatchInv'
<1> DEFINE new == Append(ContainingDir(id), title)
           plan == Plan(Renamed(id, new), id, title, {}, NoteOnly)
<1>1. /\ id \in DOMAIN files /\ EnsurePathAvailable(new, {id}) /\ ApplyReidentify(plan) /\ folders' = folders
      /\ title \in Names \ Dotted /\ title \notin Reserved
  BY DEF RenameNote, ValidTitle, ValidSegment
<1>2. id \in Named /\ ContainingDir(id) \in Paths /\ Walkable(id) /\ id \in WalkNotes(files)
  BY <1>1, BundleIsATree, FrontIs DEF Named, NamesShown, WalkNotes
<1>3. new \in Named /\ ContainingDir(new) = ContainingDir(id) /\ Contained(new)
  BY <1>1, <1>2, AppendIs DEF EnsurePathAvailable
<1>4. Walkable(new) /\ Last(new) = title
  BY <1>1, <1>2, <1>3, WalkableHome, WalkableIn
<1>5. NotePlan(plan, id, new) /\ plan.retitled = id /\ plan.absolutize = {} /\ DOMAIN plan.remap \subseteq {id}
  BY DEF NotePlan, Plan, Renamed
<1> HIDE DEF new, plan
<1>6. folders' = folders \cup Ancestors(ContainingDir(new))
  BY <1>1, <1>3 DEF IndexInv, Housed, Homes
<1>7. Targets(plan) \subseteq {id}
  BY <1>5 DEF Targets
<1> QED
  BY <1>1, <1>2, <1>3, <1>4, <1>5, <1>6, <1>7, MatchNoteReidentified

LEMMA MatchMoveNote ==
    ASSUME NamesShown, IndexInv, MatchInv, NEW id \in Noted, NEW dir \in Folders, MoveNote(id, dir)
    PROVE  MatchInv'
<1> DEFINE new == Append(dir, Last(id))
           plan == Plan(Renamed(id, new), None, None, IF ContainingDir(id) # dir THEN {id} ELSE {}, NoteOnly)
<1>1. /\ id \in DOMAIN files /\ EnsurePathAvailable(new, {id}) /\ ApplyReidentify(plan)
      /\ folders' = folders \cup Ancestors(dir) /\ NormalDirectory(dir) /\ Contained(dir)
  BY DEF MoveNote, EnsureDirectoryExists
<1>2. id \in Named /\ Last(id) \in Names /\ dir \in Paths /\ Walkable(id) /\ id \in WalkNotes(files)
      /\ Last(id) \notin Reserved /\ Last(id) \notin Dotted
  <2>1. id \in Named /\ dir \in Paths /\ Walkable(id) /\ Last(id) \notin Reserved
    BY BundleIsATree DEF Named, NamesShown
  <2>2. Last(id) \in Names /\ id[Len(id)] = Last(id) /\ Len(id) \in DOMAIN id
    BY <2>1, FrontIs, PathsAre DEF Named
  <2>3. Last(id) \notin Dotted
    BY <2>1, <2>2 DEF Walkable
  <2> QED
    BY <1>1, <2>1, <2>2, <2>3 DEF WalkNotes
<1>3. new \in Named /\ ContainingDir(new) = dir /\ Contained(new)
  BY <1>1, <1>2, AppendIs DEF EnsurePathAvailable
<1>4. Walkable(new) /\ Last(new) = Last(id)
  BY <1>1, <1>2, <1>3, WalkableNormal, WalkableIn
<1>5. /\ NotePlan(plan, id, new) /\ plan.retitled = None /\ DOMAIN plan.remap = {id} \ {new}
      /\ plan.absolutize = IF ContainingDir(id) # dir THEN {id} ELSE {}
  BY DEF NotePlan, Plan, Renamed
<1> HIDE DEF new, plan
<1>6. Targets(plan) \subseteq {id} /\ plan.absolutize \subseteq DOMAIN plan.remap
  BY <1>3, <1>5 DEF Targets
<1> QED
  BY <1>1, <1>2, <1>3, <1>4, <1>5, <1>6, MatchNoteReidentified

(* The Directories of what moved are those of the tree, after the shift.     *)
ShiftedHomes(ids, old, new) == UNION {Ancestors(ContainingDir(ShiftedNote(p, old, new))) : p \in ids}

LEMMA ShiftedDirectories ==
    ASSUME NEW D, Rooted(D), NEW old \in D, NEW new, Siblings(old, new), NEW moved, Homes(D, moved),
           NEW A, A = ShiftedHomes(moved, old, new)
    PROVE  Shifted(D \cup A, old, new) \cup Ancestors(new) = Shifted(D, old, new)
<1> DEFINE E == Shifted(D, old, new) \cup Ancestors(new)
<1>1. E = Shifted(D, old, new)
  BY ShiftAbove
<1>2. ASSUME NEW a \in A PROVE a \in E /\ ~IsPrefix(old, a)
  <2>1. PICK p \in moved : a \in Ancestors(ContainingDir(ShiftedNote(p, old, new)))
    BY <1>2 DEF ShiftedHomes
  <2>2. Homes(D, {p})
    BY <2>1 DEF Homes
  <2>3. /\ Homes(E, {ShiftedNote(p, old, new)})
        /\ ~Under(old, ShiftedNote(p, old, new))
    BY <2>2, ShiftHome
  <2>4. old \in Paths
    BY DEF Siblings, Named
  <2>5. ShiftedNote(p, old, new) \in Named /\ a \in E
    BY <2>1, <2>3 DEF Homes
  <2> QED
    BY <2>1, <2>3, <2>4, <2>5, HomeUnder
<1> HIDE DEF E
<1>3. Shifted(D \cup A, old, new) = Shifted(D, old, new) \cup Shifted(A, old, new)
  BY DEF Shifted
<1>4. Shifted(A, old, new) = A
  BY <1>2 DEF Shifted
<1> QED
  BY <1>1, <1>2, <1>3, <1>4 DEF E

LEMMA MatchRenameDirectory ==
    ASSUME IndexInv, MatchInv, NEW dir \in Folders, NEW name \in Titles, RenameDirectory(dir, name)
    PROVE  MatchInv'
<1>1. PICK new, plan : Renaming(plan, dir, name, new)
  BY DEF Renaming, ShiftPlan
<1>2. /\ dir \in folders /\ Siblings(dir, new) /\ folders' = Shifted(folders, dir, new)
      /\ plan.directory # NoteOnly /\ plan.directory.old = dir /\ plan.directory.new = new
      /\ plan.retitled = None /\ plan.absolutize = {}
      /\ DOMAIN plan.remap = {id \in RowIds(db) : Under(dir, id)}
      /\ ApplyReidentify(plan) /\ Apart(plan, DOMAIN files)
      /\ \A p : Lands(plan, p) = ShiftedNote(p, dir, new)
      /\ \A p \in DOMAIN files : Homes(folders', {Lands(plan, p)}) /\ ~Under(dir, Lands(plan, p))
  BY <1>1, RenameDirectoryIs
<1>3. Serialized /\ Operated /\ writer.pc = "idle"
  BY <1>2 DEF ApplyReidentify, WritersOut
<1>4. Walkable(dir) /\ Walkable(new)
  <2>1. /\ NormalDirectory(dir) /\ Contained(dir) /\ new = Append(ContainingDir(dir), name)
        /\ name \in Names \ Dotted /\ Contained(new)
    BY <1>1 DEF RenameDirectory, Renaming, ValidSegment, ContainingDir
  <2>2. Walkable(dir) /\ dir \in Named
    BY <1>2, <2>1, WalkableNormal DEF Siblings
  <2> QED
    BY <2>1, <2>2, FrontIs, WalkableHome, WalkableIn
<1>5. Fine(db) /\ Housed(files, folders) /\ DOMAIN files \subseteq Named /\ Rooted(folders)
  BY DEF IndexInv, Housed, Homes
<1>6. DOMAIN files' = {Lands(plan, p) : p \in DOMAIN files}
  BY <1>2, ReidentifyIs
<1>7. \A p \in DOMAIN files : Lands(plan, p) \in WalkNotes(files') <=> p \in WalkNotes(files)
  <2> TAKE p \in DOMAIN files
  <2>1. CASE Under(dir, p)
    <3>1. p \in Paths /\ IsPrefix(dir, p) /\ Lands(plan, p) = Moved(p, dir, new)
      BY <1>2, <1>5, <2>1 DEF ShiftedNote, Under, IsStrictPrefix, Named
    <3>2. (Walkable(Lands(plan, p)) <=> Walkable(p)) /\ Last(Lands(plan, p)) = Last(p)
      BY <1>2, <1>4, <2>1, <3>1, MovedWalks
    <3> QED
      BY <1>6, <3>2 DEF WalkNotes
  <2>2. CASE ~Under(dir, p)
    BY <1>2, <1>6, <2>2 DEF ShiftedNote, WalkNotes
  <2> QED
    BY <2>1, <2>2
<1>8. ASSUME Matched
      PROVE  /\ RowIds(db') = WalkNotes(files') /\ DirsOf(db') = WalkDirectories(folders')
             /\ \A p \in WalkNotes(files') : Right(db', p, files'[p])
  <2>1. RowIds(db) = WalkNotes(files) /\ DirsOf(db) = WalkDirectories(folders)
    BY <1>8 DEF Matched
  <2>2. Orderly(plan)
    <3>1. Targets(plan) \subseteq WalkNotes(files)
      BY <1>2, <2>1 DEF Targets
    <3>2. \A p \in DOMAIN files : Lands(plan, p) \in Named
      BY <1>2 DEF Homes
    <3>3. \A p \in WalkNotes(files) : p \in DOMAIN plan.remap \/ Lands(plan, p) = p
      BY <1>2, <2>1 DEF ShiftedNote
    <3> QED
      BY <1>2, <1>7, <3>1, <3>2, <3>3 DEF Orderly
  <2>3. PICK t : /\ db' = IF plan.directory = NoteOnly THEN t
                          ELSE RekeyDirectories(t, Here, plan.directory.old, plan.directory.new)
                 /\ Fine(t) /\ RowIds(t) = WalkNotes(files')
                 /\ \A p \in WalkNotes(files') : Right(t, p, files'[p])
                 /\ \E moved : /\ DOMAIN plan.remap \subseteq moved /\ moved \subseteq WalkNotes(files)
                               /\ DirsOf(t) = DirsOf(db)
                                             \cup UNION {Ancestors(ContainingDir(Lands(plan, p))) : p \in moved}
    BY <1>2, <1>3, <1>5, <1>8, <2>2, RowsFollow
  <2>4. PICK moved : /\ moved \subseteq WalkNotes(files)
                     /\ DirsOf(t) = DirsOf(db)
                                   \cup UNION {Ancestors(ContainingDir(Lands(plan, p))) : p \in moved}
    BY <2>3
  <2>5. \A id \in RowIds(t) : ~Under(dir, id)
    <3>1. \A p \in DOMAIN files : ~Under(dir, Lands(plan, p))
      BY <1>2
    <3>2. \A id \in DOMAIN files' : ~Under(dir, id)
      BY <1>6, <3>1
    <3>3. RowIds(t) \subseteq DOMAIN files'
      BY <2>3 DEF WalkNotes
    <3> QED
      BY <3>2, <3>3
  <2>6. /\ db' = RekeyDirectories(t, Here, dir, new)
    BY <1>2, <2>3
  <2>7. /\ db'.notes = t.notes /\ db'.links = t.links
        /\ DirsOf(db') = Shifted(DirsOf(t), dir, new) \cup Ancestors(new)
    <3>1. Fine(t) /\ Siblings(dir, new)
      BY <1>2, <2>3
    <3> QED
      BY <2>5, <2>6, <3>1, RekeyFine
  <2>8. RowIds(db') = RowIds(t) /\ \A p, text : Right(t, p, text) <=> Right(db', p, text)
    BY <2>7, SameRight DEF RowIds, KeysOf
  <2>9. DirsOf(db') = Shifted(DirsOf(db), dir, new)
    <3>1. PICK A : A = ShiftedHomes(moved, dir, new)
      OBVIOUS
    <3>2. DirsOf(t) = DirsOf(db) \cup A
      BY <1>2, <2>4, <3>1 DEF ShiftedHomes
    <3>3. Rooted(DirsOf(db)) /\ dir \in DirsOf(db)
      BY <1>2, <1>4, <1>5, <2>1 DEF Fine, Placed, WalkDirectories
    <3>4. Homes(DirsOf(db), moved)
      BY <1>5, <1>8, <2>4, MatchedRows DEF Homes
    <3>5. Shifted(DirsOf(db) \cup A, dir, new) \cup Ancestors(new) = Shifted(DirsOf(db), dir, new)
      <4>1. Siblings(dir, new)
        BY <1>2
      <4> QED
        BY <3>1, <3>3, <3>4, <4>1, ShiftedDirectories
    <3> QED
      BY <2>7, <3>2, <3>5
  <2>10. WalkDirectories(folders') = Shifted(WalkDirectories(folders), dir, new)
    <3>1. folders \in SUBSET Named
      BY <1>5 DEF Rooted
    <3> QED
      BY <1>2, <1>4, <3>1, WalkShifted
  <2> QED
    BY <2>1, <2>3, <2>8, <2>9, <2>10
<1> QED
  BY <1>3, <1>8, MatchIdle

-----------------------------------------------------------------------------
LEMMA MatchInvStays ==
    ASSUME ~RescanRaces, NamesShown, IndexInv, MatchInv, [Next]_vars
    PROVE  MatchInv'
<1>1. CASE Lifecycle
  BY <1>1, MatchCreateNote, MatchCreateLinkTarget, MatchCreateDirectory, MatchDeleteNote, MatchDeleteDirectory,
     MatchRenameNote, MatchMoveNote, MatchRenameDirectory DEF Lifecycle
<1>2. CASE Indexing
  BY <1>2, MatchWriteFile, MatchCompareHash, MatchIndexWrittenSource, MatchScanWalk, MatchScanRead, MatchScanWrite
  DEF Indexing
<1>3. CASE Guests
  BY <1>3, MatchForeign DEF Guests, GuestWrites, GuestRemoves, GuestRemovesFolder
<1>4. CASE UNCHANGED vars
  <2>1. UNCHANGED <<files, folders, db, writer, scan, tidy>>
    BY <1>4 DEF vars
  <2> QED
    BY <2>1 DEF MatchInv, ScanKnows, TodoIds, WriterKnows, Matched, RowText
<1> QED
  BY <1>1, <1>2, <1>3, <1>4 DEF Next

(* Rows that are right for the same texts are the same rows.                 *)
LEMMA RowsDetermined ==
    ASSUME NEW t, Fine(t), NEW u, Fine(u), NEW held, DirsOf(t) = DirsOf(u), RowIds(t) = RowIds(u),
           \A id \in RowIds(t) : Right(t, id, held[id]) /\ Right(u, id, held[id])
    PROVE  Rows(t) = Rows(u)
<1>1. /\ Paired(DOMAIN t.notes) /\ Paired(t.dirs) /\ Paired(DOMAIN u.notes) /\ Paired(u.dirs)
      /\ Sourced(t) /\ Sourced(u)
  BY DEF Fine, Placed, Sound
<1>2. /\ \A d : <<Here, d>> \in t.dirs <=> <<Here, d>> \in u.dirs
      /\ \A id : <<Here, id>> \in DOMAIN t.notes <=> id \in RowIds(t)
      /\ \A id : <<Here, id>> \in DOMAIN u.notes <=> id \in RowIds(t)
  BY <1>1, RowsAre
<1>3. {d \in t.dirs : d[1] = Here} = {d \in u.dirs : d[1] = Here}
  BY <1>1, <1>2 DEF Paired
<1>4. KeysOf(t, Here) = KeysOf(u, Here)
  BY <1>1, <1>2 DEF Paired, KeysOf
<1>5. ASSUME NEW k \in KeysOf(t, Here) PROVE t.notes[k] = u.notes[k]
  <2>1. k = <<Here, k[2]>> /\ k[2] \in RowIds(t)
    BY <1>1, <1>2 DEF Paired, KeysOf
  <2>2. t.notes[<<Here, k[2]>>] = u.notes[<<Here, k[2]>>]
    BY <2>1 DEF Right
  <2> QED
    BY <2>1, <2>2
<1>6. ASSUME NEW l, l.ws = Here PROVE l \in t.links <=> l \in u.links
  <2>1. ASSUME l \in t.links \/ l \in u.links PROVE l = LinkRow(l.source, l.target) /\ l.source \in RowIds(t)
    BY <1>1, <1>2, <1>6, <2>1 DEF Sourced, LinkRow
  <2>2. \A id \in RowIds(t) : \A e : LinkRow(id, e) \in t.links <=> LinkRow(id, e) \in u.links
    BY DEF Right
  <2> QED
    BY <2>1, <2>2
<1>7. {l \in t.links : l.ws = Here} = {l \in u.links : l.ws = Here}
  BY <1>6
<1> QED
  BY <1>3, <1>4, <1>5, <1>7 DEF Rows

LEMMA MatchedBundle ==
    ASSUME IndexInv, Matched, writer.pc = "idle",
           NEW u, u = WriteScannedBundle(db, Here, ScanBundle(files, folders).dirs, ScanBundle(files, folders).notes)
    PROVE  Rows(db) = Rows(u)
<1> DEFINE ids == WalkNotes(files)
           s == SetToSeq(ids)
           notes == [i \in DOMAIN s |-> DeriveNote(s[i], files[s[i]])]
           dirs == WalkDirectories(folders)
<1>1. u = WriteScannedBundle(db, Here, dirs, notes)
  BY DEF ScanBundle, SortedIds
<1>2. IsFiniteSet(ids) /\ Rooted(dirs) /\ Homes(dirs, ids) /\ Fine(db)
  BY WalkFits DEF IndexInv
<1>3. RowIds(db) = ids /\ DirsOf(db) = dirs /\ \A id \in ids : Right(db, id, files[id])
  BY MatchedFiles
<1> HIDE DEF ids
<1>4. /\ \A x \in ids : \E i \in DOMAIN s : s[i] = x
      /\ \A i \in DOMAIN s : s[i] \in ids
  BY <1>2, OrderFacts
<1>5. /\ DOMAIN notes = DOMAIN s
      /\ \A i \in DOMAIN notes : /\ notes[i].id = s[i]
                                 /\ notes[i] = DeriveNote(notes[i].id, files[notes[i].id])
  BY DEF DeriveNote
<1> HIDE DEF notes
<1>6. Listed(notes) /\ IdsOf(notes) = ids
  BY <1>2, <1>5, ListIs
<1> HIDE DEF s, dirs
<1>7. /\ \A i \in DOMAIN notes : \A text : notes[i] = DeriveNote(notes[i].id, text) => Right(u, notes[i].id, text)
      /\ RowIds(u) = ids /\ DirsOf(u) = dirs /\ Fine(u)
  BY <1>1, <1>2, <1>6, ScanRight, ScanFine
<1>8. ASSUME NEW id \in ids PROVE Right(u, id, files[id])
  <2>1. PICK i \in DOMAIN notes : notes[i].id = id
    BY <1>6 DEF IdsOf
  <2> QED
    BY <1>5, <1>7, <2>1
<1> QED
  BY <1>2, <1>3, <1>7, <1>8, RowsDetermined

(* Incremental indexing is a scan done in pieces: while nothing is in flight *)
(* and no other program has changed the bundle since a scan, the rows that   *)
(* operations and idle writes leave are those a scan of it would write.  No  *)
(* lock keeps an idle write out of a scan, and one that lands there has its  *)
(* rows replaced by older ones (README, life_rescan): ~RescanRaces leaves    *)
(* that out.                                                                 *)
THEOREM RowsAreTheBundles == ~RescanRaces /\ NamesShown => (Spec => []RowsMatchBundle)
<1> SUFFICES ASSUME ~RescanRaces /\ NamesShown PROVE Spec => []RowsMatchBundle
  OBVIOUS
<1>1. IndexInv /\ MatchInv /\ [Next]_vars => MatchInv'
  BY MatchInvStays
<1>2. IndexInv /\ MatchInv => RowsMatchBundle
  <2> SUFFICES ASSUME IndexInv, MatchInv, tidy, writer.pc = "idle"
               PROVE  Rows(db) = Rows(WriteScannedBundle(db, Here, ScanBundle(files, folders).dirs,
                                                         ScanBundle(files, folders).notes))
    BY DEF RowsMatchBundle
  <2>1. Matched
    BY DEF MatchInv
  <2> QED
    BY <2>1, MatchedBundle
<1> QED
  BY <1>1, <1>2, MatchInit, RowsFitBundle, PTL DEF Spec

=============================================================================
