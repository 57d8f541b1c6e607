------------------------- MODULE Lifecycle_proofs -------------------------
(***************************************************************************)
(* What the lifecycle operations leave behind, for every bundle, every set *)
(* of Notes and Directories and every number of failures: a refused one    *)
(* changes nothing (AllOrNothing), an applied one is committed             *)
(* (ChangesCommitted), between operations the index describes the files    *)
(* (Settled), a rename or move carries every Link (LinksFollow), and no    *)
(* step takes the last copy of a user's work (WorkKept).                   *)
(*                                                                         *)
(* Three theorems leave out a step that breaks what they say, each with a  *)
(* configuration that shows it:                                            *)
(*   ~AnswersFail   a renamed Note can be read back (MCLifecycle_answer);  *)
(*   ~RescanRaces   no write lands inside a reindex (MCLifecycle_rescan).  *)
(***************************************************************************)
EXTENDS Lifecycle, SequenceTheorems, TLAPS

-----------------------------------------------------------------------------
(* Types: what a call holds in each phase, what the plan and the journal may *)
(* name.                                                                     *)
Kinds == {"none", "renameNote", "moveNote", "renameDir", "deleteNote", "deleteDir",
          "createNote", "createTarget"}

CallType ==
    [kind : Kinds, id : Ids \cup {None}, dir : Dirs \cup {None}, newDir : Dirs \cup {None},
     move : [Ids -> Ids], ids : SUBSET Ids, retitled : BOOLEAN, absolutize : BOOLEAN,
     rows : SUBSET Dirs, made : BOOLEAN]

PlanEntry ==
    [file : Text \cup {None}, buf : Text \cup {None}, draft : Text \cup {None},
     had : BOOLEAN, rev : Text \cup {None}]

JournalEntry ==
    [step : {"wrote", "moved", "movedDir", "parked"}, id : Ids \cup {None},
     prev : Text \cup {None}]

StoresType ==
    [file : Maybe(Text), index : Maybe(Ids \cup {Unlinked}), draft : Maybe(Text),
     session : Maybe(SessionState), head : Maybe(Text), dirs : SUBSET Dirs,
     dirRow : SUBSET Dirs]

(* The arguments of the operation in progress: a rename or move of one Note  *)
(* moves that Note only, one of a Directory moves ids of that Directory and  *)
(* keeps their titles.                                                       *)
CallFits ==
    /\ call \in CallType
    /\ call.kind \in {"renameNote", "moveNote"} =>
          /\ call.id \in Ids /\ call.dir = None /\ call.ids = {}
          /\ \A i \in Ids : Moved(i) => i = call.id
    /\ call.kind = "renameDir" =>
          /\ {call.dir, call.newDir} \subseteq Dirs \ {Root} /\ call.dir # call.newDir
          /\ \A i \in Ids : Moved(i) => i[1] = call.dir /\ call.move[i] = <<call.newDir, i[2]>>
    /\ call.kind = "deleteNote" => call.id \in Ids /\ call.ids = {call.id} /\ call.dir = None
    /\ call.kind = "deleteDir" =>
          call.id = None /\ call.dir \in Dirs \ {Root} /\ call.ids \subseteq In(call.dir)
    /\ Creating =>
          /\ call.id \in Ids /\ call.ids = {call.id}
          /\ call.rows \subseteq {call.id[1]} \ {Root}
    /\ ~Reidentifying => \A i \in Ids : ~Moved(i)
    /\ call.retitled => call.kind = "renameNote"
    /\ call.absolutize => call.kind = "moveNote"

(* Which phases each kind of operation has.                                  *)
PcFits ==
    /\ pc \in {"idle", "rescan"} <=> call.kind = "none"
    /\ pc \in {"idle", "rescan", "begun", "write", "move", "park", "publish", "record", "open",
               "commit", "settle", "answer", "undo", "takeback", "done"}
    /\ pc \in {"begun", "write", "move", "answer"} => Reidentifying
    /\ pc = "park" => Deleting
    /\ pc \in {"publish", "open", "takeback"} => Creating
    /\ pc \in {"undo", "settle"} => ~Creating

IdleFits ==
    pc \in {"idle", "rescan"} =>
        call = NoCall /\ plan = NoPlan /\ todo = {} /\ journal = <<>> /\ outcome = Pending

(* plan_affected plans ids only, and a file is written only if it has a      *)
(* planned text.                                                             *)
PlanFits ==
    /\ plan \in [DOMAIN plan -> PlanEntry]
    /\ DOMAIN plan \subseteq Ids
    /\ pc = "write" => \A i \in todo : i \in DOMAIN plan /\ plan[i].file # None

(* The journal holds steps of the operation's own kind, and is empty before  *)
(* the first and after the last.                                             *)
JournalFits ==
    /\ journal \in Seq(JournalEntry)
    /\ \A n \in 1..Len(journal) :
          /\ journal[n].step \in {"wrote", "moved"} => Reidentifying /\ journal[n].id \in Ids
          /\ journal[n].step = "movedDir" => call.kind = "renameDir"
          /\ journal[n].step = "parked" => Deleting
    /\ pc \in {"idle", "rescan", "begun", "park", "answer", "done"} => journal = <<>>
    /\ Creating => journal = <<>>

TypeInv ==
    /\ TypeOK /\ CallFits /\ PcFits /\ IdleFits /\ PlanFits /\ JournalFits
    /\ before \in StoresType
    /\ outcome \in [result : {"none", "applied", "refused"}, warned : BOOLEAN, torn : BOOLEAN]
    /\ tidy \in BOOLEAN

-----------------------------------------------------------------------------
(* Operators: ids, Links, rewritten texts and plans are of their types.      *)
LEMMA IdParts ==
    /\ \A i \in Ids : i[1] \in Dirs /\ i[2] \in Titles /\ i = <<i[1], i[2]>>
    /\ \A d \in Dirs, t \in Titles : <<d, t>> \in Ids /\ <<d, t>>[1] = d /\ <<d, t>>[2] = t
    /\ \A d : In(d) \subseteq Ids
BY DEF Ids, In

LEMMA TargetType ==
    ASSUME NEW t \in Text, NEW d \in Dirs
    PROVE  /\ Target(t, d) \in Ids \cup {None}
           /\ t.link # None => Target(t, d) \in Ids
<1>1. t.link # None => t.link \in Link
  BY DEF Text
<1>2. t.link # None => Resolve(t.link, d) \in Ids
  BY <1>1 DEF Resolve, Link, Ids
<1> QED
  BY <1>2 DEF Target

LEMMA EntryType ==
    ASSUME NEW t \in Text \cup {None}, NEW i \in Ids
    PROVE  /\ Entry(t, i) \in Ids \cup {Unlinked, None}
           /\ Entry(t, i) = None <=> t = None
<1>1. t # None => t \in Text
  OBVIOUS
<1> QED
  BY <1>1, TargetType, IdParts, NoneAssumption DEF Entry

LEMMA IndexType ==
    ASSUME NEW f \in Maybe(Text)
    PROVE  IndexOf(f) \in Maybe(Ids \cup {Unlinked})
<1>1. \A i \in Ids : Entry(f[i], i) \in Ids \cup {Unlinked, None}
  BY EntryType DEF Maybe
<1> QED
  BY <1>1 DEF IndexOf, Maybe

LEMMA LinkToType == \A i \in Ids : LinkTo(i) \in Link
BY IdParts DEF LinkTo, Link

LEMMA RewriteType ==
    ASSUME NEW t \in Text, NEW i \in Ids, NEW move \in [Ids -> Ids], NEW absolutize \in BOOLEAN
    PROVE  Rewrite(t, i, move, absolutize) \in Text
<1>1. \A d \in Dirs : AbsolutizeLinks(t, d) \in Text
  <2> TAKE d \in Dirs
  <2>1. t.link # None => Resolve(t.link, d) \in Ids
    BY TargetType, NoneAssumption DEF Target
  <2> QED
    BY <2>1, LinkToType DEF AbsolutizeLinks, Text
<1>2. \A u \in Text, d \in Dirs : RewriteTargets(u, d, move) \in Text
  <2> TAKE u \in Text, d \in Dirs
  <2>1. Target(u, d) # None => LinkTo(move[Target(u, d)]) \in Link
    BY TargetType, LinkToType
  <2> QED
    BY <2>1 DEF RewriteTargets, Text
<1> QED
  BY <1>1, <1>2, IdParts DEF Rewrite

LEMMA NewTextType ==
    ASSUME call \in CallType, NEW t \in Text \cup {None}, NEW i \in Ids
    PROVE  NewText(t, i) \in Text \cup {None}
<1>1. t # None => t \in Text
  OBVIOUS
<1>2. call.move \in [Ids -> Ids] /\ (call.absolutize /\ i = call.id) \in BOOLEAN
  BY DEF CallType
<1>3. t # None => Rewritten(t, i) \in Text
  BY <1>1, <1>2, RewriteType DEF Rewritten
<1> QED
  BY <1>3 DEF NewText

LEMMA PlanForType ==
    ASSUME TypeOK, call \in CallType, NEW i \in Ids
    PROVE  PlanFor(i) \in PlanEntry
<1>1. file[i] \in Text \cup {None} /\ draft[i] \in Text \cup {None}
  BY DEF TypeOK, Maybe
<1>2. session[i] # None => session[i].buf \in Text
  BY DEF TypeOK, Maybe, SessionState
<1>3. NewText(file[i], i) \in Text \cup {None} /\ NewText(draft[i], i) \in Text \cup {None}
  BY <1>1, NewTextType
<1>4. session[i] # None => NewText(session[i].buf, i) \in Text \cup {None}
  BY <1>2, NewTextType
<1> QED
  BY <1>1, <1>3, <1>4 DEF PlanFor, PlanEntry

-----------------------------------------------------------------------------
(* The type invariant holds at first, and every step keeps it.               *)
LEMMA NoCallType == NoCall \in CallType /\ NoStores \in StoresType /\ Pending.result = "none"
BY DEF NoCall, CallType, Kinds, Same, NoStores, StoresType, Nothing, Maybe, Pending

LEMMA TypeInit == Init => TypeInv
<1> SUFFICES ASSUME Init PROVE TypeInv
  OBVIOUS
<1>1. PICK b \in Bundles :
         /\ file = b.file /\ draft = b.draft /\ dirs = b.dirs \cup {Root}
         /\ dirRow = b.dirs \ {Root} /\ index = IndexOf(b.file) /\ head = b.file
  BY DEF Init
<1>2. b.file \in Maybe(Text) /\ b.draft \in Maybe(Text) /\ b.dirs \subseteq Dirs
  BY BundlesAssumption DEF Maybe
<1>3. TypeOK
  BY <1>1, <1>2, IndexType, NoCallType, RootAssumption
     DEF Init, TypeOK, Maybe, Nothing, NoCall, Same, Pending
<1>4. CallFits
  BY NoCallType DEF Init, CallFits, NoCall, Creating, Reidentifying, Moved, Same
<1>5. PcFits
  BY DEF Init, PcFits, NoCall
<1>6. PlanFits /\ IdleFits
  BY DEF Init, PlanFits, IdleFits, NoPlan
<1>7. JournalFits
  BY DEF Init, JournalFits
<1>8. outcome \in [result : {"none", "applied", "refused"}, warned : BOOLEAN, torn : BOOLEAN] /\ tidy \in BOOLEAN
  BY DEF Init, Pending
<1> QED
  BY <1>3, <1>4, <1>5, <1>6, <1>7, <1>8, NoCallType DEF Init, TypeInv

(* The step leaves the operation where it is.                                *)
LEMMA TypeStays ==
    ASSUME TypeInv, TypeOK', UNCHANGED <<pc, call, plan, todo, journal, outcome, before>>, tidy' \in BOOLEAN
    PROVE  TypeInv'
BY DEF TypeInv, CallFits, PcFits, PlanFits, JournalFits, IdleFits, Moved, Creating, Reidentifying, Deleting

LEMMA StoresTyped == TypeOK => Stores \in StoresType
BY DEF TypeOK, Stores, StoresType

LEMMA TypeSessions == TypeInv /\ (Sessions \/ Guests) => TypeInv'
<1> SUFFICES ASSUME TypeInv, Sessions \/ Guests PROVE TypeInv'
  OBVIOUS
<1>0. TypeOK /\ tidy \in BOOLEAN
  BY DEF TypeInv
<1>1. ASSUME NEW i \in Ids, Open(i) PROVE TypeInv'
  <2>1. [buf |-> IF draft[i] # None THEN draft[i] ELSE file[i],
         rev |-> file[i], recreate |-> file[i] = None,
         dirty |-> draft[i] # None] \in SessionState
    BY <1>0, <1>1 DEF Open, TypeOK, Maybe, SessionState
  <2>2. TypeOK'
    BY <1>0, <1>1, <2>1 DEF Open, TypeOK, Maybe
  <2> QED
    BY <1>0, <1>1, <2>2, TypeStays DEF Open
<1>2. ASSUME NEW i \in Ids, Flush(i) PROVE TypeInv'
  <2>1. session[i] \in SessionState
    BY <1>0, <1>2 DEF Flush, TypeOK, Maybe
  <2>2. /\ session[i].buf \in Text
        /\ [session[i] EXCEPT !.rev = session[i].buf, !.recreate = FALSE, !.dirty = FALSE] \in SessionState
    BY <2>1 DEF SessionState
  <2>3. session' \in Maybe(SessionState)
    BY <1>0, <1>2, <2>2 DEF Flush, TypeOK, Maybe
  <2>4. Entry(session[i].buf, i) \in Ids \cup {Unlinked, None}
    BY <2>2, EntryType
  <2>5. i[1] \in Dirs
    BY IdParts
  <2>6. TypeOK'
    BY <1>0, <1>2, <2>2, <2>3, <2>4, <2>5 DEF Flush, TypeOK, Maybe
  <2> QED
    BY <1>0, <1>2, <2>6, TypeStays DEF Flush
<1>3. ASSUME NEW i \in Ids, Close(i) PROVE TypeInv'
  <2>1. TypeOK'
    BY <1>0, <1>3 DEF Close, TypeOK, Maybe
  <2> QED
    BY <1>0, <1>3, <2>1, TypeStays DEF Close
<1>4. ASSUME NEW i \in GuestIds, NEW t \in GuestTexts \cup {None}, GuestWrites(i, t) PROVE TypeInv'
  <2>1. TypeOK'
    BY <1>0, <1>4, TextsAssumption DEF GuestWrites, Guest, TypeOK, Maybe
  <2> QED
    BY <1>0, <1>4, <2>1, TypeStays DEF GuestWrites, Guest
<1>5. ASSUME NEW d \in Dirs, GuestRemoves(d) PROVE TypeInv'
  <2>1. TypeOK'
    BY <1>0, <1>5 DEF GuestRemoves, Guest, TypeOK, Maybe
  <2> QED
    BY <1>0, <1>5, <2>1, TypeStays DEF GuestRemoves, Guest
<1> QED
  BY <1>1, <1>2, <1>3, <1>4, <1>5 DEF Sessions, Guests

LEMMA TypeRests ==
    ASSUME TypeOK', pc' \in {"idle", "rescan"}, call' = NoCall, plan' = NoPlan, todo' = {},
           journal' = <<>>, outcome' = Pending, before' \in StoresType,
           tidy' \in BOOLEAN
    PROVE  TypeInv'
<1>1. CallFits'
  BY NoCallType DEF CallFits, NoCall, Creating, Reidentifying, Moved, Same
<1>2. PcFits'
  BY DEF PcFits, NoCall
<1>3. PlanFits' /\ JournalFits'
  BY DEF PlanFits, JournalFits, NoPlan, Creating, NoCall
<1>4. outcome' \in [result : {"none", "applied", "refused"}, warned : BOOLEAN, torn : BOOLEAN]
  BY DEF Pending
<1> QED
  BY <1>1, <1>2, <1>3, <1>4 DEF TypeInv, IdleFits

LEMMA TypeRescans == TypeInv /\ (Crash \/ Rescan \/ Reindex \/ Return) => TypeInv'
<1> SUFFICES ASSUME TypeInv, Crash \/ Rescan \/ Reindex \/ Return PROVE TypeInv'
  OBVIOUS
<1>0. TypeOK /\ tidy \in BOOLEAN /\ before \in StoresType
  BY DEF TypeInv
<1>1. CASE Crash
  <2>1. IndexOf(file) \in Maybe(Ids \cup {Unlinked})
    BY <1>0, IndexType DEF TypeOK
  <2>2. TypeOK'
    BY <1>0, <1>1, <2>1, NoCallType DEF Crash, TypeOK, Maybe, Nothing, NoCall, Same
  <2> QED
    BY <1>1, <2>2, NoCallType, TypeRests DEF Crash
<1>2. CASE Rescan
  <2>1. TypeOK'
    BY <1>0, <1>2 DEF Rescan, TypeOK, stores
  <2> QED
    BY <1>0, <1>2, <2>1, StoresTyped, TypeRests DEF Rescan, TypeInv, IdleFits
<1>3. CASE Reindex
  <2>1. IndexOf(before.file) \in Maybe(Ids \cup {Unlinked}) /\ before.dirs \subseteq Dirs
    BY <1>0, IndexType DEF StoresType
  <2>2. TypeOK'
    BY <1>0, <1>3, <2>1 DEF Reindex, TypeOK
  <2> QED
    BY <1>0, <1>3, <2>2, NoCallType, TypeRests DEF Reindex, TypeInv, IdleFits
<1>4. CASE Return
  <2>1. TypeOK'
    BY <1>0, <1>4, NoCallType DEF Return, TypeOK, stores, NoCall, Same, Pending
  <2> QED
    BY <1>0, <1>4, <2>1, NoCallType, TypeRests DEF Return
<1> QED
  BY <1>1, <1>2, <1>3, <1>4

(* An operation begins.                                                      *)
LEMMA TypeBegins ==
    ASSUME TypeInv, NEW newCall, NEW at, Begin(newCall, at), newCall \in CallType,
           dirs' \subseteq Dirs, before' \in StoresType, CallFits',
           \/ at = "begun" /\ newCall.kind \in {"renameNote", "moveNote", "renameDir"}
           \/ at = "park" /\ newCall.kind \in {"deleteNote", "deleteDir"}
           \/ at = "publish" /\ newCall.kind \in {"createNote", "createTarget"}
    PROVE  TypeInv'
<1>1. /\ pc = "idle" /\ pc' = at /\ call' = newCall
      /\ UNCHANGED <<file, trash, index, dirRow, draft, session, head, plan, todo, journal,
                     outcome, tidy, foreign>>
  BY DEF Begin
<1>2. TypeOK'
  BY <1>1 DEF TypeInv, TypeOK, CallType
<1>3. PcFits'
  BY <1>1 DEF PcFits, Reidentifying, Deleting, Creating
<1>4. journal = <<>>
  BY <1>1 DEF TypeInv, IdleFits
<1>5. PlanFits' /\ JournalFits' /\ IdleFits'
  BY <1>1, <1>4 DEF TypeInv, PlanFits, JournalFits, IdleFits
<1> QED
  BY <1>1, <1>2, <1>3, <1>5 DEF TypeInv

LEMMA MoveOneType ==
    ASSUME NEW i \in Ids, NEW j \in Ids
    PROVE  /\ MoveOne(i, j) \in [Ids -> Ids]
           /\ \A k \in Ids : MoveOne(i, j)[k] = IF k = i THEN j ELSE k
BY DEF MoveOne, Same

LEMMA MoveAllType ==
    ASSUME NEW d \in Dirs, NEW e \in Dirs, NEW ids
    PROVE  /\ MoveAll(d, e, ids) \in [Ids -> Ids]
           /\ \A k \in Ids : MoveAll(d, e, ids)[k] = IF k \in ids THEN <<e, k[2]>> ELSE k
BY IdParts DEF MoveAll

LEMMA TypeStarts == TypeInv /\ Starts => TypeInv'
<1> SUFFICES ASSUME TypeInv, Starts PROVE TypeInv'
  OBVIOUS
<1>0. TypeOK /\ before \in StoresType /\ Stores \in StoresType /\ tidy \in BOOLEAN
  BY StoresTyped DEF TypeInv
<1> USE DEF NoCall
<1>1. ASSUME NEW i \in Ids, NEW title \in Titles, RenameNote(i, title) PROVE TypeInv'
  <2>1. <<i[1], title>> \in Ids
    BY IdParts
  <2>2. PICK retitled \in BOOLEAN :
          Begin([NoCall EXCEPT !.kind = "renameNote", !.id = i,
                               !.move = MoveOne(i, <<i[1], title>>), !.retitled = retitled], "begun")
    BY <1>1, Zenon DEF RenameNote
  <2> DEFINE c == [NoCall EXCEPT !.kind = "renameNote", !.id = i,
                               !.move = MoveOne(i, <<i[1], title>>), !.retitled = retitled]
  <2>3. c \in CallType
    BY <2>1, MoveOneType DEF CallType, Kinds
  <2>4. call' = c
    BY <2>2 DEF Begin
  <2>5. CallFits'
    BY <2>1, <2>3, <2>4, MoveOneType DEF CallFits, Creating, Reidentifying, Moved
  <2>6. UNCHANGED <<dirs, before>>
    BY <1>1 DEF RenameNote
  <2> QED
    BY <1>0, <2>2, <2>3, <2>5, <2>6, TypeBegins DEF TypeOK
<1>2. ASSUME NEW i \in Ids, NEW d \in Dirs, MoveNote(i, d) PROVE TypeInv'
  <2>1. <<d, i[2]>> \in Ids
    BY IdParts
  <2> DEFINE c == [NoCall EXCEPT !.kind = "moveNote", !.id = i, !.move = MoveOne(i, <<d, i[2]>>),
                                 !.absolutize = i[1] # d]
  <2>2. Begin(c, "begun") /\ dirs' = dirs \cup {d} /\ before' = before
    BY <1>2 DEF MoveNote
  <2>3. c \in CallType
    <3>1. (i[1] # d) \in BOOLEAN /\ MoveOne(i, <<d, i[2]>>) \in [Ids -> Ids]
      BY <2>1, MoveOneType
    <3> QED
      BY <3>1 DEF CallType, Kinds
  <2>4. call' = c
    BY <2>2 DEF Begin
  <2>5. CallFits'
    BY <2>1, <2>3, <2>4, MoveOneType DEF CallFits, Creating, Reidentifying, Moved
  <2> QED
    BY <1>0, <2>2, <2>3, <2>5, TypeBegins DEF TypeOK
<1>3. ASSUME NEW d \in Dirs, NEW e \in Dirs, RenameDirectory(d, e) PROVE TypeInv'
  <2> DEFINE ids == Contained(d) \cup Orphans(d)
             c == [NoCall EXCEPT !.kind = "renameDir", !.dir = d, !.newDir = e,
                                 !.move = MoveAll(d, e, ids), !.ids = Orphans(d)]
  <2>1. Begin(c, "begun") /\ UNCHANGED <<dirs, before>> /\ Root \notin {d, e} /\ d # e
    BY <1>3 DEF RenameDirectory
  <2>2. ids \subseteq In(d) /\ Orphans(d) \subseteq Ids
    BY IdParts DEF Contained, Orphans
  <2>3. c \in CallType
    BY <2>2, MoveAllType DEF CallType, Kinds
  <2>4. call' = c
    BY <2>1 DEF Begin
  <2>5. \A i \in Ids : Moved(i)' => i[1] = d /\ c.move[i] = <<e, i[2]>>
    <3>1. call'.move = MoveAll(d, e, ids) /\ c.move = MoveAll(d, e, ids)
      BY <2>4
    <3> HIDE DEF ids, c
    <3>2. \A i \in ids : i[1] = d
      BY <2>2 DEF In
    <3>3. \A k \in Ids : MoveAll(d, e, ids)[k] = IF k \in ids THEN <<e, k[2]>> ELSE k
      BY MoveAllType
    <3> QED
      BY <3>1, <3>2, <3>3 DEF Moved
  <2>6. CallFits'
    BY <2>1, <2>3, <2>4, <2>5 DEF CallFits, Creating, Reidentifying
  <2> QED
    BY <1>0, <2>1, <2>3, <2>6, TypeBegins DEF TypeOK
<1>4. ASSUME NEW i \in Ids, DeleteNote(i) PROVE TypeInv'
  <2> DEFINE c == [NoCall EXCEPT !.kind = "deleteNote", !.id = i, !.ids = {i}]
  <2>1. Begin(c, "park") /\ before' = Stores /\ dirs' = dirs
    BY <1>4 DEF DeleteNote
  <2>2. c \in CallType
    BY Zenon DEF CallType, Kinds, Same
  <2>3. call' = c
    BY <2>1 DEF Begin
  <2>4. CallFits'
    BY <2>2, <2>3 DEF CallFits, Creating, Reidentifying, Moved, Same
  <2> QED
    BY <1>0, <2>1, <2>2, <2>4, TypeBegins DEF TypeOK
<1>5. ASSUME NEW i \in Ids, DeleteDraft(i) PROVE TypeInv'
  <2>1. TypeOK'
    BY <1>0, <1>5 DEF DeleteDraft, TypeOK, Maybe
  <2> QED
    BY <1>0, <1>5, <2>1, TypeStays DEF DeleteDraft
<1>6. ASSUME NEW d \in Dirs, DeleteDirectory(d) PROVE TypeInv'
  <2> DEFINE c == [NoCall EXCEPT !.kind = "deleteDir", !.dir = d, !.ids = Contained(d) \cup Orphans(d)]
  <2>1. Begin(c, "park") /\ before' = Stores /\ dirs' = dirs /\ d # Root
    BY <1>6 DEF DeleteDirectory
  <2>2. Contained(d) \cup Orphans(d) \subseteq In(d) /\ In(d) \subseteq Ids
    BY IdParts DEF Contained, Orphans
  <2>3. c \in CallType
    BY <2>2, Zenon DEF CallType, Kinds, Same
  <2>4. call' = c
    BY <2>1 DEF Begin
  <2>5. CallFits'
    BY <2>1, <2>2, <2>3, <2>4 DEF CallFits, Creating, Reidentifying, Moved, Same
  <2> QED
    BY <1>0, <2>1, <2>3, <2>5, TypeBegins DEF TypeOK
<1>7. ASSUME NEW d \in Dirs, NEW title \in Titles, CreateNote(d, title) PROVE TypeInv'
  <2>1. <<d, title>> \in Ids
    BY IdParts
  <2> DEFINE c == [NoCall EXCEPT !.kind = "createNote", !.id = <<d, title>>, !.ids = {<<d, title>>}]
  <2>2. Begin(c, "publish") /\ dirs' = dirs \cup {d} /\ before' = before
    BY <1>7 DEF CreateNote
  <2>3. c \in CallType
    BY <2>1, Zenon DEF CallType, Kinds, Same
  <2>4. call' = c
    BY <2>2 DEF Begin
  <2>5. CallFits'
    BY <2>1, <2>3, <2>4 DEF CallFits, Creating, Reidentifying, Moved, Same
  <2> QED
    BY <1>0, <2>2, <2>3, <2>5, TypeBegins DEF TypeOK
<1>8. ASSUME NEW i \in Ids, CreateTarget(i) PROVE TypeInv'
  <2> DEFINE c == [NoCall EXCEPT !.kind = "createTarget", !.id = i, !.ids = {i},
                                 !.rows = {i[1]} \ (dirRow \cup {Root}), !.made = i[1] \notin dirs]
  <2>1. i[1] \in Dirs
    BY IdParts
  <2>2. Begin(c, "publish") /\ dirs' = dirs \cup {i[1]} /\ before' = before
    BY <1>8 DEF CreateTarget
  <2>3. c \in CallType
    BY <2>1, Zenon DEF CallType, Kinds, Same
  <2>4. call' = c
    BY <2>2 DEF Begin
  <2>5. CallFits'
    BY <2>1, <2>3, <2>4 DEF CallFits, Creating, Reidentifying, Moved, Same
  <2> QED
    BY <1>0, <2>1, <2>2, <2>3, <2>5, TypeBegins DEF TypeOK
<1>9. ASSUME NEW d \in Dirs, CreateDirectory(d) PROVE TypeInv'
  <2>1. TypeOK'
    BY <1>0, <1>9 DEF CreateDirectory, TypeOK
  <2> QED
    BY <1>0, <1>9, <2>1, TypeStays DEF CreateDirectory
<1> QED
  BY <1>1, <1>2, <1>3, <1>4, <1>5, <1>6, <1>7, <1>8, <1>9 DEF Starts

Outcomes == [result : {"none", "applied", "refused"}, warned : BOOLEAN, torn : BOOLEAN]

(* An operation goes on.                                                     *)
LEMMA TypeGoesOn ==
    ASSUME TypeInv, pc \notin {"idle", "rescan"}, call' = call, TypeOK', before' \in StoresType,
           outcome' \in Outcomes, tidy' \in BOOLEAN, PlanFits', JournalFits',
           \/ pc' = pc
           \/ pc' \in {"write", "move", "answer"} /\ Reidentifying
           \/ pc' \in {"open", "takeback"} /\ Creating
           \/ pc' \in {"undo", "settle"} /\ ~Creating
           \/ pc' \in {"record", "commit", "done"}
    PROVE  TypeInv'
<1>1. CallFits'
  BY DEF TypeInv, CallFits, Creating, Reidentifying, Moved
<1>2. PcFits'
  BY DEF TypeInv, PcFits, Creating, Reidentifying, Deleting
<1> QED
  BY <1>1, <1>2 DEF TypeInv, IdleFits, Outcomes

(* The journal stays, or grows by a step of the operation's kind, or shrinks. *)
LEMMA JournalStays ==
    ASSUME TypeInv, call' = call, journal' = journal,
           pc' \in {"idle", "rescan", "begun", "park", "answer", "done"} => journal = <<>>
    PROVE  JournalFits'
BY DEF TypeInv, JournalFits, Reidentifying, Deleting, Creating

LEMMA JournalGrows ==
    ASSUME TypeInv, call' = call, NEW e \in JournalEntry, journal' = Append(journal, e),
           e.step \in {"wrote", "moved"} => Reidentifying /\ e.id \in Ids,
           e.step = "movedDir" => call.kind = "renameDir",
           e.step = "parked" => Deleting,
           pc' \notin {"idle", "rescan", "begun", "park", "answer", "done"}
    PROVE  JournalFits'
<1>1. journal \in Seq(JournalEntry)
  BY DEF TypeInv, JournalFits
<1>2. /\ journal' \in Seq(JournalEntry) /\ Len(journal') = Len(journal) + 1
      /\ \A n \in 1..Len(journal) : journal'[n] = journal[n]
      /\ journal'[Len(journal) + 1] = e
  BY <1>1, AppendProperties
<1>3. ~Creating
  BY DEF JournalEntry, Reidentifying, Deleting, Creating
<1>4. Len(journal) \in Nat
  BY <1>1
<1>5. \A n \in 1..Len(journal') : n \in 1..Len(journal) \/ n = Len(journal) + 1
  BY <1>2, <1>4
<1> QED
  BY <1>2, <1>3, <1>5 DEF TypeInv, JournalFits, Reidentifying, Deleting, Creating

LEMMA LastType ==
    ASSUME TypeInv, journal # <<>>
    PROVE  /\ Last \in JournalEntry
           /\ Last.step \in {"wrote", "moved"} => Reidentifying /\ Last.id \in Ids
           /\ Last.step = "movedDir" => call.kind = "renameDir"
           /\ Last.step = "parked" => Deleting
<1>1. journal \in Seq(JournalEntry)
  BY DEF TypeInv, JournalFits
<1>2. Len(journal) \in 1..Len(journal) /\ Last \in JournalEntry
  BY <1>1 DEF Last
<1> QED
  BY <1>2 DEF TypeInv, JournalFits, Last

LEMMA JournalShrinks ==
    ASSUME TypeInv, call' = call, journal # <<>>, journal' = SubSeq(journal, 1, Len(journal) - 1),
           pc' = "undo"
    PROVE  /\ JournalFits'
           /\ Len(journal') = Len(journal) - 1 /\ Len(journal) \in Nat \ {0}
           /\ \A n \in 1..Len(journal') : journal'[n] = journal[n]
<1>1. journal \in Seq(JournalEntry) /\ Len(journal) \in Nat \ {0}
  BY DEF TypeInv, JournalFits
<1>2. /\ journal' \in Seq(JournalEntry) /\ Len(journal') = Len(journal) - 1
      /\ \A n \in 1..Len(journal') : journal'[n] = journal[n]
  <2> DEFINE m == Len(journal) - 1
  <2>1. 1 \in Int /\ m \in Int /\ m \in Nat /\ m - 1 + 1 = m /\ \A n \in 1..m : 1 + n - 1 = n
    BY <1>1
  <2>2. \A n \in 1..m : journal[n] \in JournalEntry
    BY <1>1
  <2>3. journal' = SubSeq(journal, 1, m)
    OBVIOUS
  <2> HIDE DEF m
  <2>4. /\ SubSeq(journal, 1, m) \in Seq(JournalEntry)
        /\ Len(SubSeq(journal, 1, m)) = IF 1 <= m THEN m - 1 + 1 ELSE 0
        /\ \A n \in 1..(m - 1 + 1) : SubSeq(journal, 1, m)[n] = journal[1 + n - 1]
    BY <2>1, <2>2, SubSeqProperties
  <2>5. Len(journal') = m
    BY <2>1, <2>3, <2>4
  <2>6. \A n \in 1..m : journal'[n] = journal[n]
    BY <2>1, <2>3, <2>4
  <2> QED
    BY <2>3, <2>4, <2>5, <2>6 DEF m
<1>3. ~Creating
  BY <1>1 DEF TypeInv, JournalFits
<1>4. \A n \in 1..Len(journal') : n \in 1..Len(journal)
  BY <1>1, <1>2
<1>5. JournalFits'
  BY <1>2, <1>3, <1>4 DEF TypeInv, JournalFits, Reidentifying, Deleting, Creating
<1> QED
  BY <1>1, <1>2, <1>5

(* A step that leaves the stores alone.                                      *)
LEMMA StoresStay ==
    ASSUME TypeInv, UNCHANGED <<stores, call, foreign>>, todo' \subseteq Ids, outcome' \in Outcomes
    PROVE  TypeOK'
BY DEF TypeInv, TypeOK, stores, Outcomes

LEMMA PlanType ==
    ASSUME TypeInv, pc = "begun"
    PROVE  /\ Candidates \subseteq Ids
           /\ [i \in {k \in Candidates : Touched(k)} |-> PlanFor(i)]
                 \in [{k \in Candidates : Touched(k)} -> PlanEntry]
<1>1. call.retitled => call.id \in Ids
  BY DEF TypeInv, CallFits
<1>2. Candidates \subseteq Ids
  BY <1>1 DEF Candidates, MovedIds
<1>3. \A i \in Ids : PlanFor(i) \in PlanEntry
  BY PlanForType DEF TypeInv, CallFits
<1> QED
  BY <1>2, <1>3

(* The rows, draft rows and sessions a rename or move leaves.                *)
LEMMA ArrivedIds ==
    ASSUME PlanFits, NEW k
    PROVE  /\ Arrived(k) \subseteq DOMAIN plan /\ Arrived(k) \subseteq Ids
           /\ \A i \in Arrived(k) : plan[i] \in PlanEntry /\ call.move[i] = k
BY DEF PlanFits, Arrived

LEMMA FinalTextType ==
    ASSUME TypeOK, PlanFits, call \in CallType, NEW i \in DOMAIN plan
    PROVE  FinalText(i) \in Text \cup {None}
<1>1. plan[i] \in PlanEntry /\ call.move[i] \in Ids
  BY DEF PlanFits, CallType
<1> QED
  BY <1>1 DEF FinalText, TypeOK, Maybe, PlanEntry

LEMMA RecordedIndexType ==
    ASSUME TypeOK, PlanFits, call \in CallType
    PROVE  RecordedIndex \in Maybe(Ids \cup {Unlinked})
<1> DEFINE row(k) == IF \E i \in Arrived(k) : plan[i].had
                     THEN Entry(FinalText(CHOOSE i \in Arrived(k) : plan[i].had), k)
                     ELSE IF k \in DOMAIN plan /\ Moved(k) THEN None
                     ELSE Retargeted(index[k])
<1>1. ASSUME NEW k \in Ids PROVE row(k) \in Ids \cup {Unlinked, None}
  <2>1. CASE \E i \in Arrived(k) : plan[i].had
    <3> DEFINE i == CHOOSE i \in Arrived(k) : plan[i].had
    <3>1. i \in Arrived(k)
      BY <2>1
    <3> HIDE DEF i
    <3>2. FinalText(i) \in Text \cup {None}
      BY <3>1, ArrivedIds, FinalTextType
    <3>3. Entry(FinalText(i), k) \in Ids \cup {Unlinked, None}
      BY <3>2, EntryType
    <3> QED
      BY <2>1, <3>3 DEF i
  <2>2. Retargeted(index[k]) \in Ids \cup {Unlinked, None}
    BY DEF Retargeted, MovedIds, TypeOK, Maybe, CallType
  <2> QED
    BY <2>1, <2>2
<1> QED
  BY <1>1 DEF RecordedIndex, Maybe

LEMMA RecordedDraftType ==
    ASSUME TypeOK, PlanFits
    PROVE  RecordedDraft \in Maybe(Text)
<1> DEFINE row(k) == IF \E i \in Arrived(k) : draft[i] # None
                     THEN DraftAfter(CHOOSE i \in Arrived(k) : draft[i] # None)
                     ELSE IF k \in DOMAIN plan /\ Moved(k) THEN None
                     ELSE draft[k]
<1>1. ASSUME NEW k \in Ids PROVE row(k) \in Text \cup {None}
  <2>1. CASE \E i \in Arrived(k) : draft[i] # None
    <3> DEFINE i == CHOOSE i \in Arrived(k) : draft[i] # None
    <3>1. i \in Arrived(k)
      BY <2>1
    <3> HIDE DEF i
    <3>2. i \in Ids /\ plan[i] \in PlanEntry
      BY <3>1, ArrivedIds
    <3>3. DraftAfter(i) \in Text \cup {None}
      BY <3>2 DEF DraftAfter, PlanEntry, TypeOK, Maybe
    <3> QED
      BY <2>1, <3>3 DEF i
  <2>2. draft[k] \in Text \cup {None}
    BY DEF TypeOK, Maybe
  <2> QED
    BY <2>1, <2>2
<1> QED
  BY <1>1 DEF RecordedDraft, Maybe

LEMMA CarriedType ==
    ASSUME TypeOK, NEW i \in Ids, session[i] # None, plan[i] \in PlanEntry
    PROVE  /\ Carried(i) \in SessionState
           /\ Carried(i).dirty = session[i].dirty
           /\ Carried(i).recreate = session[i].recreate
           /\ Carried(i).rev = plan[i].rev
           /\ Carried(i).buf = IF plan[i].buf # None THEN plan[i].buf ELSE session[i].buf
<1>1. session[i] \in SessionState
  BY DEF TypeOK, Maybe
<1> QED
  BY <1>1 DEF Carried, SessionState, PlanEntry

LEMMA CarriedSessionsType ==
    ASSUME TypeOK, PlanFits
    PROVE  CarriedSessions \in Maybe(SessionState)
<1> DEFINE row(k) == IF \E i \in Arrived(k) : session[i] # None
                     THEN Carried(CHOOSE i \in Arrived(k) : session[i] # None)
                     ELSE IF k \in DOMAIN plan /\ Moved(k) THEN None
                     ELSE session[k]
<1>1. ASSUME NEW k \in Ids PROVE row(k) \in SessionState \cup {None}
  <2>1. CASE \E i \in Arrived(k) : session[i] # None
    <3> DEFINE i == CHOOSE i \in Arrived(k) : session[i] # None
    <3>1. i \in Arrived(k) /\ session[i] # None
      BY <2>1
    <3> HIDE DEF i
    <3>2. i \in Ids /\ plan[i] \in PlanEntry
      BY <3>1, ArrivedIds
    <3>3. Carried(i) \in SessionState
      BY <3>1, <3>2, CarriedType
    <3> QED
      BY <2>1, <3>3 DEF i
  <2>2. session[k] \in SessionState \cup {None}
    BY DEF TypeOK, Maybe
  <2> QED
    BY <2>1, <2>2
<1> QED
  BY <1>1 DEF CarriedSessions, Maybe

LEMMA TypeReidentifies == TypeInv /\ Reidentifies => TypeInv'
<1> SUFFICES ASSUME TypeInv, Reidentifies PROVE TypeInv'
  OBVIOUS
<1>0. /\ TypeOK /\ tidy \in BOOLEAN /\ before \in StoresType /\ Stores \in StoresType
      /\ outcome \in Outcomes /\ PlanFits /\ JournalFits /\ call \in CallType
  BY StoresTyped DEF TypeInv, Outcomes, CallFits
<1>1. \A t \in BOOLEAN : [outcome EXCEPT !.result = "refused", !.torn = @ \/ t] \in Outcomes
  BY <1>0 DEF Outcomes
<1>2. Applied \in Outcomes
  BY <1>0 DEF Outcomes, Applied
<1>3. CASE Plan
  <2>1. pc = "begun" /\ before' = Stores /\ UNCHANGED <<stores, call, journal, tidy, foreign>> /\ journal = <<>>
    BY <1>3 DEF Plan, TypeInv, JournalFits
  <2>2. Reidentifying
    BY <2>1 DEF TypeInv, PcFits
  <2>3. CASE \E i \in MovedIds \ call.ids : file[i] = None
    <3>1. pc' = "done" /\ outcome' \in Outcomes /\ UNCHANGED <<plan, todo>>
      BY <1>1, <1>3, <2>3, Zenon DEF Plan, Refuse
    <3>2. TypeOK'
      BY <1>0, <2>1, <3>1, StoresStay DEF TypeOK
    <3> QED
      BY <1>0, <2>1, <3>1, <3>2, JournalStays, TypeGoesOn DEF PlanFits
  <2>4. CASE ~\E i \in MovedIds \ call.ids : file[i] = None
    <3>1. /\ plan' = [i \in {k \in Candidates : Touched(k)} |-> PlanFor(i)]
          /\ todo' = {i \in DOMAIN plan' : plan'[i].file # None}
          /\ pc' = "write" /\ outcome' = outcome
      BY <1>3, <2>4 DEF Plan
    <3>2. PlanFits' /\ todo' \subseteq Ids
      BY <2>1, <3>1, PlanType DEF PlanFits
    <3>3. TypeOK'
      BY <1>0, <2>1, <3>1, <3>2, StoresStay
    <3> QED
      BY <1>0, <2>1, <2>2, <3>1, <3>2, <3>3, JournalStays, TypeGoesOn
  <2> QED
    BY <2>3, <2>4
<1>4. CASE PlanFails
  <2>1. /\ pc = "begun" /\ before' = Stores /\ UNCHANGED <<stores, call, plan, todo, journal, tidy, foreign>>
        /\ journal = <<>> /\ pc' = "done" /\ outcome' \in Outcomes
    BY <1>1, <1>4, Zenon DEF PlanFails, Refuse, TypeInv, JournalFits
  <2>2. TypeOK'
    BY <1>0, <2>1, StoresStay DEF TypeOK
  <2> QED
    BY <1>0, <2>1, <2>2, JournalStays, TypeGoesOn DEF PlanFits
<1>5. ASSUME NEW i \in Ids, WriteFile(i) PROVE TypeInv'
  <2>1. pc = "write" /\ pc' = "write" /\ Reidentifying
    BY <1>5 DEF WriteFile, TypeInv, PcFits
  <2>2. file[i] \in Text \cup {None} /\ Wrote(i, file[i]) \in JournalEntry
    BY <1>0 DEF TypeOK, Maybe, Wrote, JournalEntry
  <2>3. JournalFits'
    BY <1>5, <2>1, <2>2, JournalGrows DEF WriteFile, Wrote
  <2>4. plan[i].file \in Text \cup {None}
    BY <1>0, <1>5, <2>1 DEF PlanFits, PlanEntry, WriteFile
  <2>5. TypeOK'
    BY <1>0, <1>5, <2>4 DEF TypeOK, Maybe, WriteFile
  <2>6. PlanFits'
    BY <1>0, <1>5 DEF PlanFits, WriteFile
  <2> QED
    BY <1>0, <1>5, <2>1, <2>3, <2>5, <2>6, TypeGoesOn DEF WriteFile
<1>6. CASE FilesWritten
  <2>1. pc = "write" /\ pc' = "move" /\ Reidentifying /\ UNCHANGED <<stores, call, plan, journal, outcome, before, tidy, foreign>>
    BY <1>6 DEF FilesWritten, TypeInv, PcFits
  <2>2. todo' \subseteq Ids
    BY <1>6 DEF FilesWritten, MovedIds
  <2>3. TypeOK'
    BY <1>0, <2>1, <2>2, StoresStay
  <2>4. PlanFits'
    BY <1>0, <2>1 DEF PlanFits
  <2> QED
    BY <1>0, <2>1, <2>3, <2>4, JournalStays, TypeGoesOn
<1>7. ASSUME NEW i \in Ids, MoveFile(i) PROVE TypeInv'
  <2>1. pc = "move" /\ pc' = "move" /\ Reidentifying
    BY <1>7 DEF MoveFile, TypeInv, PcFits
  <2>2. MovedFile(i) \in JournalEntry
    BY DEF MovedFile, JournalEntry
  <2>3. JournalFits'
    BY <1>7, <2>1, <2>2, JournalGrows DEF MoveFile, MovedFile
  <2>4. call.move[i] \in Ids /\ call.move[i][1] \in Dirs
    BY <1>0, IdParts DEF CallType
  <2>5. Renamed(i) \in Maybe(Text)
    BY <1>0 DEF TypeOK, Maybe, Renamed
  <2>6. TypeOK'
    BY <1>0, <1>7, <2>4, <2>5 DEF TypeOK, MoveFile
  <2>7. PlanFits'
    BY <1>0, <1>7 DEF PlanFits, MoveFile
  <2> QED
    BY <1>0, <1>7, <2>1, <2>3, <2>6, <2>7, TypeGoesOn DEF MoveFile
<1>8. CASE MoveDir
  <2>1. pc = "move" /\ pc' = "record" /\ call.kind = "renameDir" /\ call.dir \in Dirs /\ call.newDir \in Dirs
    BY <1>8 DEF MoveDir, TypeInv, CallFits
  <2>2. MovedDir \in JournalEntry
    BY DEF MovedDir, JournalEntry
  <2>3. JournalFits'
    BY <1>8, <2>1, <2>2, JournalGrows DEF MoveDir, MovedDir
  <2>4. ShiftDir(file, call.dir, call.newDir) \in Maybe(Text)
    <3>1. \A i \in Ids : <<call.dir, i[2]>> \in Ids
      BY <2>1, IdParts
    <3> QED
      BY <1>0, <3>1 DEF TypeOK, Maybe, ShiftDir
  <2>5. ShiftSet(foreign, call.dir, call.newDir) \subseteq Ids
    <3>1. \A i \in Ids : <<call.newDir, i[2]>> \in Ids
      BY <2>1, IdParts
    <3> QED
      BY <1>0, <3>1 DEF TypeOK, ShiftSet
  <2>6. TypeOK'
    BY <1>0, <1>8, <2>1, <2>4, <2>5 DEF TypeOK, MoveDir
  <2>7. PlanFits'
    BY <1>0, <1>8 DEF PlanFits, MoveDir
  <2> QED
    BY <1>0, <1>8, <2>1, <2>3, <2>6, <2>7, TypeGoesOn DEF MoveDir
<1>9. CASE FilesMoved
  <2>1. pc = "move" /\ pc' = "record" /\ UNCHANGED <<stores, call, plan, todo, journal, outcome, before, tidy, foreign>>
    BY <1>9 DEF FilesMoved
  <2>2. TypeOK'
    BY <1>0, <2>1, StoresStay DEF TypeOK
  <2>3. PlanFits'
    BY <1>0, <2>1 DEF PlanFits
  <2> QED
    BY <1>0, <2>1, <2>2, <2>3, JournalStays, TypeGoesOn
<1>10. CASE RecordMove
  <2>1. pc = "record" /\ pc' = "commit" /\ call' = call /\ journal' = journal /\ UNCHANGED <<plan, todo, before, outcome, tidy>>
    BY <1>10 DEF RecordMove
  <2>2. RecordedIndex \in Maybe(Ids \cup {Unlinked})
    BY <1>0, RecordedIndexType
  <2>3. RecordedDraft \in Maybe(Text)
    BY <1>0, RecordedDraftType
  <2>4. RecordedDirs \subseteq Dirs
    <3>1. call.kind = "renameDir" => call.newDir \in Dirs
      BY DEF TypeInv, CallFits
    <3>2. \A i \in DOMAIN plan : call.move[i][1] \in Dirs
      BY <1>0, IdParts DEF PlanFits, CallType
    <3> QED
      BY <1>0, <3>1, <3>2 DEF RecordedDirs, TypeOK
  <2>5. TypeOK'
    BY <1>0, <1>10, <2>2, <2>3, <2>4 DEF TypeOK, RecordMove
  <2>6. PlanFits'
    BY <1>0, <2>1 DEF PlanFits
  <2> QED
    BY <1>0, <2>1, <2>5, <2>6, JournalStays, TypeGoesOn
<1>11. CASE SettleMove
  <2>1. /\ pc = "settle" /\ pc' \in {"done", "answer"} /\ call' = call /\ journal' = <<>>
        /\ UNCHANGED <<plan, todo, before, tidy>> /\ outcome' = Applied /\ Reidentifying
    BY <1>11 DEF SettleMove
  <2>2. CarriedSessions \in Maybe(SessionState)
    BY <1>0, CarriedSessionsType
  <2>3. TypeOK'
    BY <1>0, <1>2, <1>11, <2>2 DEF TypeOK, SettleMove, Outcomes
  <2>4. PlanFits'
    BY <1>0, <2>1 DEF PlanFits
  <2>5. JournalFits'
    BY <2>1 DEF JournalFits
  <2> QED
    BY <1>0, <1>2, <2>1, <2>3, <2>4, <2>5, TypeGoesOn
<1>12. CASE Answer \/ AnswerFails
  <2>1. /\ pc = "answer" /\ pc' = "done" /\ UNCHANGED <<stores, call, plan, todo, journal, before, tidy, foreign>>
        /\ outcome' \in Outcomes /\ journal = <<>>
    BY <1>0, <1>1, <1>12, Zenon DEF Answer, AnswerFails, Refuse, TypeInv, JournalFits
  <2>2. TypeOK'
    BY <1>0, <2>1, StoresStay DEF TypeOK
  <2>3. PlanFits'
    BY <1>0, <2>1 DEF PlanFits
  <2> QED
    BY <1>0, <2>1, <2>2, <2>3, JournalStays, TypeGoesOn
<1> QED
  BY <1>3, <1>4, <1>5, <1>6, <1>7, <1>8, <1>9, <1>10, <1>11, <1>12 DEF Reidentifies

LEMMA TypeDeletes == TypeInv /\ Deletes => TypeInv'
<1> SUFFICES ASSUME TypeInv, Deletes PROVE TypeInv'
  OBVIOUS
<1>0. /\ TypeOK /\ tidy \in BOOLEAN /\ before \in StoresType
      /\ outcome \in Outcomes /\ PlanFits /\ JournalFits /\ call \in CallType
  BY DEF TypeInv, Outcomes, CallFits
<1>1. [Applied EXCEPT !.warned = TRUE] \in Outcomes /\ Applied \in Outcomes
  BY <1>0 DEF Outcomes, Applied
<1>2. CASE Park
  <2>1. /\ pc = "park" /\ pc' = "record" /\ Deleting
        /\ UNCHANGED <<call, plan, todo, before, outcome, tidy>>
    BY <1>2 DEF Park, TypeInv, PcFits
  <2>2. Parked \in JournalEntry
    BY DEF Parked, JournalEntry
  <2>3. JournalFits'
    <3>1. CASE journal' = journal
      BY <2>1, <3>1, JournalStays
    <3>2. CASE journal' = Append(journal, Parked)
      BY <2>1, <2>2, <3>2, JournalGrows DEF Parked
    <3> QED
      BY <1>2, <3>1, <3>2 DEF Park
  <2>4. TypeOK'
    BY <1>0, <1>2 DEF TypeOK, Maybe, Park
  <2>5. PlanFits'
    BY <1>0, <2>1 DEF PlanFits
  <2> QED
    BY <1>0, <2>1, <2>3, <2>4, <2>5, TypeGoesOn
<1>3. CASE RecordDeletion
  <2>1. /\ pc = "record" /\ pc' = "commit"
        /\ UNCHANGED <<call, plan, todo, journal, before, outcome, tidy>>
    BY <1>3 DEF RecordDeletion
  <2>2. TypeOK'
    BY <1>0, <1>3 DEF TypeOK, Maybe, RecordDeletion
  <2>3. PlanFits'
    BY <1>0, <2>1 DEF PlanFits
  <2> QED
    BY <1>0, <2>1, <2>2, <2>3, JournalStays, TypeGoesOn
<1>4. CASE SettleDeletion
  <2>1. /\ pc = "settle" /\ pc' = "done" /\ journal' = <<>> /\ outcome' \in Outcomes
        /\ UNCHANGED <<call, plan, todo, before>> /\ tidy' \in BOOLEAN
    BY <1>0, <1>1, <1>4 DEF SettleDeletion
  <2>2. TypeOK'
    BY <1>0, <1>4, <2>1 DEF TypeOK, Maybe, SettleDeletion, Outcomes
  <2>3. PlanFits' /\ JournalFits'
    BY <1>0, <2>1 DEF PlanFits, JournalFits
  <2> QED
    BY <1>0, <2>1, <2>2, <2>3, TypeGoesOn
<1> QED
  BY <1>2, <1>3, <1>4 DEF Deletes

LEMMA TypeCreates == TypeInv /\ Creates => TypeInv'
<1> SUFFICES ASSUME TypeInv, Creates PROVE TypeInv'
  OBVIOUS
<1>0. /\ TypeOK /\ tidy \in BOOLEAN /\ before \in StoresType
      /\ outcome \in Outcomes /\ PlanFits /\ JournalFits /\ call \in CallType
  BY DEF TypeInv, Outcomes, CallFits
<1>1. \A t \in BOOLEAN : [outcome EXCEPT !.result = "refused", !.torn = @ \/ t] \in Outcomes
  BY <1>0 DEF Outcomes
<1>2. /\ Creating /\ call.id \in Ids /\ call.id[1] \in Dirs /\ journal = <<>>
      /\ pc \in {"publish", "record", "open", "takeback"}
  <2>1. Creating
    BY DEF Creates, Publish, PublishFails, RecordCreation, RecordCreationFails, OpenCreated,
           OpenCreatedFails, TakeBack, TakeBackFails, TypeInv, PcFits
  <2> QED
    BY <2>1, IdParts DEF Creates, Publish, PublishFails, RecordCreation, RecordCreationFails, OpenCreated,
           OpenCreatedFails, TakeBack, TakeBackFails, TypeInv, CallFits, JournalFits
<1>3. /\ UNCHANGED <<call, plan, todo, journal, before>> /\ tidy' \in BOOLEAN
      /\ pc' \in {"record", "done", "open", "takeback", "commit"}
  BY <1>0 DEF Creates, Publish, PublishFails, RecordCreation, RecordCreationFails, OpenCreated,
         OpenCreatedFails, TakeBack, TakeBackFails, Refuse
<1>4. PlanFits' /\ JournalFits'
  BY <1>0, <1>2, <1>3 DEF PlanFits, JournalFits, Creating, Reidentifying, Deleting
<1>5. outcome' \in Outcomes
  <2>1. CASE outcome' = outcome
    BY <1>0, <2>1
  <2>2. CASE Refuse(FALSE)
    BY <1>1, <2>2, Zenon DEF Refuse
  <2>3. CASE Refuse(call.kind = "createTarget" \/ index[call.id] # None)
    BY <1>1, <2>3, Zenon DEF Refuse
  <2> QED
    BY <2>1, <2>2, <2>3 DEF Creates, Publish, PublishFails, RecordCreation, RecordCreationFails,
         OpenCreated, OpenCreatedFails, TakeBack, TakeBackFails
<1>6. Entry(FreshText, call.id) \in Ids \cup {Unlinked, None}
  BY <1>2, EntryType, TextsAssumption
<1>7. TypeOK'
  <2>1. CASE Publish
    BY <1>0, <2>1, TextsAssumption DEF Publish, TypeOK, Maybe
  <2>2. CASE PublishFails
    BY <1>0, <1>5, <2>2 DEF PublishFails, TypeOK, Maybe, Cleaned, Outcomes
  <2>3. CASE RecordCreation
    BY <1>0, <1>2, <1>6, <2>3 DEF RecordCreation, TypeOK, Maybe
  <2>4. CASE RecordCreationFails \/ OpenCreatedFails
    BY <1>0, <1>3, <1>5, <2>4, StoresStay DEF RecordCreationFails, OpenCreatedFails, TypeOK
  <2>5. CASE OpenCreated
    <3>1. [buf |-> file[call.id], rev |-> file[call.id], recreate |-> FALSE, dirty |-> FALSE]
             \in SessionState
      BY <1>0, <1>2, <2>5 DEF OpenCreated, TypeOK, Maybe, SessionState
    <3> QED
      BY <1>0, <2>5, <3>1 DEF OpenCreated, TypeOK, Maybe
  <2>6. CASE TakeBack
    BY <1>0, <1>5, <2>6 DEF TakeBack, TypeOK, Maybe, Cleaned, Outcomes
  <2>7. CASE TakeBackFails
    BY <1>0, <1>5, <2>7 DEF TakeBackFails, TypeOK, Maybe, Outcomes
  <2> QED
    BY <2>1, <2>2, <2>3, <2>4, <2>5, <2>6, <2>7 DEF Creates
<1> QED
  BY <1>0, <1>2, <1>3, <1>4, <1>5, <1>7, TypeGoesOn

LEMMA TypeUnwinds == TypeInv /\ (Unwinds \/ Commit) => TypeInv'
<1> SUFFICES ASSUME TypeInv, Unwinds \/ Commit PROVE TypeInv'
  OBVIOUS
<1>0. /\ TypeOK /\ tidy \in BOOLEAN /\ before \in StoresType
      /\ outcome \in Outcomes /\ PlanFits /\ JournalFits /\ call \in CallType
  BY DEF TypeInv, Outcomes, CallFits
<1>1. \A t \in BOOLEAN : [outcome EXCEPT !.result = "refused", !.torn = @ \/ t] \in Outcomes
  BY <1>0 DEF Outcomes
<1>2. CASE StepFails
  <2>1. /\ pc \in {"write", "move", "record", "park"} /\ pc' = "undo" /\ ~Creating
        /\ UNCHANGED <<stores, call, plan, todo, journal, outcome, before, tidy, foreign>>
    BY <1>2 DEF StepFails
  <2>2. TypeOK'
    BY <1>0, <2>1, StoresStay DEF TypeOK
  <2>3. PlanFits'
    BY <1>0, <2>1 DEF PlanFits
  <2> QED
    BY <1>0, <2>1, <2>2, <2>3, JournalStays, TypeGoesOn
<1>3. CASE Undo
  <2>1. /\ pc = "undo" /\ pc' = "undo" /\ journal # <<>>
        /\ journal' = SubSeq(journal, 1, Len(journal) - 1)
        /\ UNCHANGED <<call, plan, todo, outcome, before, tidy>>
    BY <1>3 DEF Undo
  <2>2. JournalFits'
    BY <2>1, JournalShrinks
  <2>3. /\ Last \in JournalEntry
        /\ Last.step \in {"wrote", "moved"} => Reidentifying /\ Last.id \in Ids
        /\ Last.step = "movedDir" => call.kind = "renameDir"
        /\ Last.step = "parked" => Deleting
    BY <2>1, LastType
  <2>4. call.kind = "renameDir" => call.dir \in Dirs /\ call.newDir \in Dirs
    BY DEF TypeInv, CallFits
  <2>5. call.move \in [Ids -> Ids]
    BY <1>0 DEF CallType
  <2>6. UndoFile \in Maybe(Text)
    <3>1. CASE Last.step = "wrote"
      BY <1>0, <2>3, <3>1 DEF UndoFile, TypeOK, Maybe, JournalEntry
    <3>2. CASE Last.step = "moved"
      BY <1>0, <2>3, <2>5, <3>2 DEF UndoFile, TypeOK, Maybe
    <3>3. CASE Last.step = "movedDir"
      <4>1. \A i \in Ids : <<call.newDir, i[2]>> \in Ids
        BY <2>3, <2>4, <3>3, IdParts
      <4> QED
        BY <1>0, <3>3, <4>1 DEF UndoFile, TypeOK, Maybe, ShiftDir
    <3>4. CASE Last.step = "parked"
      BY <1>0, <3>4 DEF UndoFile, TypeOK, Maybe
    <3> QED
      BY <2>3, <3>1, <3>2, <3>3, <3>4 DEF JournalEntry
  <2>7. UndoForeign \subseteq Ids
    <3>1. CASE Last.step = "moved"
      BY <1>0, <2>3, <3>1 DEF UndoForeign, TypeOK
    <3>2. CASE Last.step = "movedDir"
      <4>1. \A i \in Ids : <<call.dir, i[2]>> \in Ids
        BY <2>3, <2>4, <3>2, IdParts
      <4> QED
        BY <1>0, <3>2, <4>1 DEF UndoForeign, TypeOK, ShiftSet
    <3>3. CASE Last.step \notin {"moved", "movedDir"}
      BY <1>0, <3>3 DEF UndoForeign, TypeOK
    <3> QED
      BY <3>1, <3>2, <3>3
  <2>8. UndoDirs \subseteq Dirs
    <3>1. CASE Last.step = "movedDir"
      BY <1>0, <2>3, <2>4, <3>1 DEF UndoDirs, TypeOK
    <3>2. CASE Last.step = "parked"
      BY <1>0, <3>2 DEF UndoDirs, TypeOK, StoresType
    <3>3. CASE Last.step \notin {"parked", "movedDir"}
      BY <1>0, <3>3 DEF UndoDirs, TypeOK
    <3> QED
      BY <3>1, <3>2, <3>3
  <2>9. TypeOK'
    BY <1>0, <1>3, <2>6, <2>7, <2>8 DEF Undo, TypeOK, Maybe
  <2>10. PlanFits'
    BY <1>0, <2>1 DEF PlanFits
  <2> QED
    BY <1>0, <2>1, <2>2, <2>9, <2>10, TypeGoesOn
<1>4. CASE UndoFails
  <2>1. /\ pc = "undo" /\ pc' = "undo" /\ journal # <<>>
        /\ journal' = SubSeq(journal, 1, Len(journal) - 1)
        /\ UNCHANGED <<stores, call, plan, todo, before, foreign>>
        /\ outcome' \in Outcomes /\ tidy' \in BOOLEAN
    BY <1>0, <1>4 DEF UndoFails, Outcomes
  <2>2. JournalFits'
    BY <2>1, JournalShrinks
  <2>3. TypeOK'
    BY <1>0, <2>1, StoresStay DEF TypeOK
  <2>4. PlanFits'
    BY <1>0, <2>1 DEF PlanFits
  <2> QED
    BY <1>0, <2>1, <2>2, <2>3, <2>4, TypeGoesOn
<1>5. CASE Undone
  <2>1. /\ pc = "undo" /\ pc' = "done" /\ journal = <<>> /\ outcome' \in Outcomes
        /\ UNCHANGED <<stores, call, plan, todo, journal, before, tidy, foreign>>
    BY <1>1, <1>5, Zenon DEF Undone, Refuse
  <2>2. TypeOK'
    BY <1>0, <2>1, StoresStay DEF TypeOK
  <2>3. PlanFits'
    BY <1>0, <2>1 DEF PlanFits
  <2> QED
    BY <1>0, <2>1, <2>2, <2>3, JournalStays, TypeGoesOn
<1>6. CASE Commit
  <2>1. /\ pc = "commit" /\ pc' \in {"done", "settle"} /\ (Creating <=> pc' = "done")
        /\ UNCHANGED <<call, plan, todo, journal, before, tidy>>
    BY <1>6 DEF Commit
  <2>2. outcome' \in Outcomes
    BY <1>0, <1>6 DEF Commit, Outcomes, Applied
  <2>3. TypeOK'
    BY <1>0, <1>6, <2>2 DEF Commit, TypeOK, Maybe, Committed, Outcomes
  <2>4. PlanFits'
    BY <1>0, <2>1 DEF PlanFits
  <2>5. pc' = "done" => journal = <<>>
    BY <1>0, <2>1 DEF JournalFits
  <2> QED
    BY <1>0, <2>1, <2>2, <2>3, <2>4, <2>5, JournalStays, TypeGoesOn
<1> QED
  BY <1>2, <1>3, <1>4, <1>5, <1>6 DEF Unwinds

LEMMA TypeNext == TypeInv /\ [Next]_vars => TypeInv'
<1> SUFFICES ASSUME TypeInv, [Next]_vars PROVE TypeInv'
  OBVIOUS
<1>1. CASE UNCHANGED vars
  <2>1. UNCHANGED <<pc, call, plan, todo, journal, outcome, before>> /\ tidy' = tidy
    BY <1>1 DEF vars
  <2>2. TypeOK' /\ tidy' \in BOOLEAN
    BY <1>1 DEF vars, TypeInv, TypeOK
  <2> QED
    BY <2>1, <2>2, TypeStays
<1> QED
  BY <1>1, TypeSessions, TypeRescans, TypeStarts, TypeReidentifies, TypeDeletes, TypeCreates,
     TypeUnwinds DEF Next, Operates

(* Stores, call, plan and journal keep their types through every operation   *)
(* of lifecycle.rs, every rollback, session, kill and reindex.               *)
THEOREM TypesHold == Spec => []TypeInv
<1>1. Spec => []TypeInv
  BY TypeInit, TypeNext, PTL DEF Spec
<1> QED
  BY <1>1

-----------------------------------------------------------------------------
(* Folders. A file is in a folder that exists, whatever is created, renamed, *)
(* removed or rolled back.                                                   *)
FilesInDirs ==
    /\ Root \in dirs
    /\ \A i \in Ids : file[i] # None => i[1] \in dirs

(* What that needs: an operation that parks a Directory found it or found    *)
(* nothing in it, and a creation never removes the root.                     *)
FoldersInv ==
    /\ FilesInDirs
    /\ pc = "park" => dirs \subseteq before.dirs
    /\ call.kind = "deleteDir" /\ journal # <<>> =>
          call.dir \in before.dirs \/ \A i \in In(call.dir) : trash[i] = None
    /\ call.made => call.id[1] # Root

LEMMA FoldersInit == Init => FoldersInv
<1> SUFFICES ASSUME Init PROVE FoldersInv
  OBVIOUS
<1>1. PICK b \in Bundles : file = b.file /\ dirs = b.dirs \cup {Root}
  BY DEF Init
<1>2. FilesInDirs
  BY <1>1, FoldersAssumption DEF FilesInDirs
<1> QED
  BY <1>2 DEF Init, FoldersInv, NoCall

(* Steps that keep files in their folders, and the operation where it is.    *)
LEMMA FoldersStay ==
    ASSUME FoldersInv, FilesInDirs', UNCHANGED <<call, journal, trash, before>>,
           pc' = "park" => pc = "park" /\ dirs' \subseteq dirs
    PROVE  FoldersInv'
BY DEF FoldersInv

LEMMA FoldersGoOn ==
    ASSUME FoldersInv, FilesInDirs', call' = call, pc' # "park",
           call.kind = "deleteDir" => UNCHANGED <<journal, trash, before>> \/ journal' = <<>>
    PROVE  FoldersInv'
BY DEF FoldersInv

LEMMA FoldersRest ==
    ASSUME FilesInDirs', call' = NoCall, pc' # "park"
    PROVE  FoldersInv'
BY DEF FoldersInv, NoCall

LEMMA FoldersSessions == TypeInv /\ FoldersInv /\ (Sessions \/ Guests) => FoldersInv'
<1> SUFFICES ASSUME TypeInv, FoldersInv, Sessions \/ Guests PROVE FoldersInv'
  OBVIOUS
<1>0. TypeOK /\ FilesInDirs /\ (pc = "park" => ~Creating)
  BY DEF TypeInv, FoldersInv, PcFits, Deleting, Creating
<1>1. ASSUME NEW i \in Ids, Open(i) \/ Close(i) PROVE FoldersInv'
  BY <1>0, <1>1, FoldersStay DEF Open, Close, FilesInDirs
<1>2. ASSUME NEW i \in Ids, Flush(i) PROVE FoldersInv'
  <2>1. FilesInDirs'
    BY <1>0, <1>2 DEF Flush, FilesInDirs, TypeOK, Maybe
  <2>2. pc # "park" /\ pc' = pc
    BY <1>0, <1>2 DEF Flush, SessionsFree, WritesLocked
  <2> QED
    BY <1>2, <2>1, <2>2, FoldersStay DEF Flush
<1>3. ASSUME NEW i \in GuestIds, NEW t \in GuestTexts \cup {None}, GuestWrites(i, t) PROVE FoldersInv'
  <2>1. FilesInDirs'
    BY <1>0, <1>3 DEF GuestWrites, FilesInDirs, TypeOK, Maybe
  <2> QED
    BY <1>3, <2>1, FoldersStay DEF GuestWrites, Guest
<1>4. ASSUME NEW d \in Dirs, GuestRemoves(d) PROVE FoldersInv'
  <2>1. FilesInDirs'
    BY <1>0, <1>4 DEF GuestRemoves, FilesInDirs, In
  <2> QED
    BY <1>4, <2>1, FoldersStay DEF GuestRemoves, Guest
<1> QED
  BY <1>1, <1>2, <1>3, <1>4 DEF Sessions, Guests

LEMMA FoldersRescans == TypeInv /\ FoldersInv /\ (Crash \/ Rescan \/ Reindex \/ Return) => FoldersInv'
<1> SUFFICES ASSUME TypeInv, FoldersInv, Crash \/ Rescan \/ Reindex \/ Return PROVE FoldersInv'
  OBVIOUS
<1>1. FilesInDirs' /\ pc' # "park"
  BY DEF FoldersInv, FilesInDirs, Crash, Rescan, Reindex, Return, stores
<1>2. call' = NoCall
  BY DEF TypeInv, IdleFits, Crash, Rescan, Reindex, Return
<1> QED
  BY <1>1, <1>2, FoldersRest

LEMMA FoldersStarts == TypeInv /\ FoldersInv /\ Starts => FoldersInv'
<1> SUFFICES ASSUME TypeInv, FoldersInv, Starts PROVE FoldersInv'
  OBVIOUS
<1>1. FilesInDirs' /\ pc = "idle" /\ journal = <<>> /\ journal' = journal /\ call = NoCall
  BY ZenonT(60) DEF FoldersInv, FilesInDirs, Starts, RenameNote, MoveNote, RenameDirectory, DeleteNote,
         DeleteDraft, DeleteDirectory, CreateNote, CreateTarget, CreateDirectory, Begin, TypeInv,
         IdleFits
<1>2. ASSUME NEW i \in Ids, DeleteNote(i) PROVE FoldersInv'
  BY <1>1, <1>2 DEF DeleteNote, Begin, Stores, NoCall, FoldersInv
<1>3. ASSUME NEW d \in Dirs, DeleteDirectory(d) PROVE FoldersInv'
  BY <1>1, <1>3 DEF DeleteDirectory, Begin, Stores, NoCall, FoldersInv
<1>4. ASSUME NEW i \in Ids, CreateTarget(i) PROVE FoldersInv'
  <2>1. i[1] \notin dirs => i[1] # Root
    BY DEF FoldersInv, FilesInDirs
  <2> QED
    BY <1>1, <1>4, <2>1 DEF CreateTarget, Begin, NoCall, FoldersInv
<1>5. ASSUME NEW i \in Ids, NEW title \in Titles, RenameNote(i, title) PROVE FoldersInv'
  BY <1>1, <1>5 DEF RenameNote, Begin, NoCall, FoldersInv
<1>6. ASSUME NEW i \in Ids, NEW d \in Dirs, MoveNote(i, d) PROVE FoldersInv'
  BY <1>1, <1>6 DEF MoveNote, Begin, NoCall, FoldersInv
<1>7. ASSUME NEW d \in Dirs, NEW e \in Dirs, RenameDirectory(d, e) PROVE FoldersInv'
  BY <1>1, <1>7 DEF RenameDirectory, Begin, NoCall, FoldersInv
<1>8. ASSUME NEW d \in Dirs, NEW title \in Titles, CreateNote(d, title) PROVE FoldersInv'
  BY <1>1, <1>8 DEF CreateNote, Begin, NoCall, FoldersInv
<1>9. ASSUME NEW i \in Ids, DeleteDraft(i) PROVE FoldersInv'
  BY <1>1, <1>9 DEF DeleteDraft, NoCall, FoldersInv
<1>10. ASSUME NEW d \in Dirs, CreateDirectory(d) PROVE FoldersInv'
  BY <1>1, <1>10 DEF CreateDirectory, NoCall, FoldersInv
<1> QED
  BY <1>2, <1>3, <1>4, <1>5, <1>6, <1>7, <1>8, <1>9, <1>10 DEF Starts

LEMMA FoldersReidentifies == TypeInv /\ FoldersInv /\ Reidentifies => FoldersInv'
<1> SUFFICES ASSUME TypeInv, FoldersInv, Reidentifies PROVE FoldersInv'
  OBVIOUS
<1>0. TypeOK /\ FilesInDirs /\ CallFits /\ call.move \in [Ids -> Ids]
  BY DEF TypeInv, FoldersInv, CallFits, CallType
<1>1. Reidentifying
  BY DEF Reidentifies, Plan, PlanFails, FilesWritten, MoveDir, FilesMoved, RecordMove, SettleMove,
         Answer, AnswerFails, WriteFile, MoveFile, TypeInv, PcFits
<1>2. call' = call /\ pc' # "park"
  BY DEF Reidentifies, Plan, PlanFails, FilesWritten, MoveDir, FilesMoved, RecordMove, SettleMove,
         Answer, AnswerFails, WriteFile, MoveFile, Refuse
<1>3. FilesInDirs'
  <2>1. ASSUME NEW i \in Ids, WriteFile(i) PROVE FilesInDirs'
    BY <1>0, <2>1 DEF WriteFile, FilesInDirs, TypeOK, Maybe
  <2>2. ASSUME NEW i \in Ids, MoveFile(i) PROVE FilesInDirs'
    BY <1>0, <2>2 DEF MoveFile, FilesInDirs, Renamed
  <2>3. CASE MoveDir
    <3>1. Root # call.dir /\ call.dir # call.newDir /\ call.dir \in Dirs /\ call.newDir \in Dirs
      BY <1>0, <2>3 DEF CallFits, MoveDir
    <3> QED
      BY <1>0, <2>3, <3>1 DEF MoveDir, FilesInDirs, ShiftDir
  <2>4. CASE UNCHANGED <<file, dirs>>
    BY <1>0, <2>4 DEF FilesInDirs
  <2> QED
    BY <2>1, <2>2, <2>3, <2>4 DEF Reidentifies, Plan, PlanFails, FilesWritten, FilesMoved, RecordMove,
         SettleMove, Answer, AnswerFails, stores
<1> QED
  BY <1>1, <1>2, <1>3, FoldersGoOn DEF Reidentifying

LEMMA FoldersDeletes == TypeInv /\ FoldersInv /\ Deletes => FoldersInv'
<1> SUFFICES ASSUME TypeInv, FoldersInv, Deletes PROVE FoldersInv'
  OBVIOUS
<1>0. TypeOK /\ FilesInDirs /\ CallFits
  BY DEF TypeInv, FoldersInv
<1>1. CASE Park
  <2>1. Deleting /\ journal = <<>>
    BY <1>1 DEF Park, TypeInv, PcFits, JournalFits
  <2>2. call.kind = "deleteNote" => call.dir = None /\ call.dir \notin Dirs
    BY <1>0, NoneAssumption DEF CallFits
  <2>3. call.kind = "deleteDir" => call.dir # Root /\ Scope = In(call.dir)
    BY <1>0 DEF CallFits, Scope
  <2>4. FilesInDirs'
    BY <1>0, <1>1, <2>1, <2>2, <2>3, RootAssumption, IdParts DEF Park, FilesInDirs, Deleting, In
  <2>5. call.kind = "deleteDir" => call.dir \in before.dirs \/ \A i \in In(call.dir) : trash'[i] = None
    <3>1. dirs \subseteq before.dirs
      BY <1>1 DEF Park, FoldersInv
    <3>2. call.kind = "deleteDir" /\ call.dir \notin dirs => \A i \in In(call.dir) : file[i] = None
      BY <1>0, IdParts DEF FilesInDirs, In
    <3>3. \A i \in Scope : i \in Ids => trash'[i] = file[i]
      BY <1>1 DEF Park
    <3> QED
      BY <2>3, <3>1, <3>2, <3>3, IdParts
  <2> QED
    BY <1>1, <2>4, <2>5 DEF Park, FoldersInv
<1>2. CASE RecordDeletion
  BY <1>0, <1>2, FoldersGoOn DEF RecordDeletion, FilesInDirs
<1>3. CASE SettleDeletion
  BY <1>0, <1>3, FoldersGoOn DEF SettleDeletion, FilesInDirs
<1> QED
  BY <1>1, <1>2, <1>3 DEF Deletes

LEMMA CleanedKeepsFiles ==
    ASSUME TypeInv, FoldersInv, Creating, NEW f \in Maybe(Text), dirs' = Cleaned(f),
           \A i \in Ids : f[i] # None => i[1] \in dirs, file' = f
    PROVE  FilesInDirs'
<1>1. call.id \in Ids
  BY DEF TypeInv, CallFits
<1> QED
  BY <1>1, IdParts DEF Cleaned, FilesInDirs, FoldersInv, In

LEMMA FoldersCreates == TypeInv /\ FoldersInv /\ Creates => FoldersInv'
<1> SUFFICES ASSUME TypeInv, FoldersInv, Creates PROVE FoldersInv'
  OBVIOUS
<1>0. TypeOK /\ FilesInDirs
  BY DEF TypeInv, FoldersInv
<1>1. Creating
  BY DEF Creates, Publish, PublishFails, RecordCreation, RecordCreationFails, OpenCreated,
         OpenCreatedFails, TakeBack, TakeBackFails, TypeInv, PcFits
<1>2. call' = call /\ pc' # "park"
  BY DEF Creates, Publish, PublishFails, RecordCreation, RecordCreationFails, OpenCreated,
         OpenCreatedFails, TakeBack, TakeBackFails, Refuse
<1>3. FilesInDirs'
  <2>1. CASE Publish
    BY <1>0, <2>1 DEF Publish, FilesInDirs, TypeOK, Maybe
  <2>2. CASE PublishFails
    BY <1>0, <1>1, <2>2, CleanedKeepsFiles DEF PublishFails, FilesInDirs, TypeOK
  <2>3. CASE TakeBack
    <3>1. file' \in Maybe(Text) /\ \A i \in Ids : file'[i] # None => file[i] # None
      BY <1>0, <2>3 DEF TakeBack, TypeOK, Maybe
    <3> QED
      BY <1>0, <1>1, <2>3, <3>1, CleanedKeepsFiles DEF TakeBack, FilesInDirs
  <2>4. CASE UNCHANGED <<file, dirs>>
    BY <1>0, <2>4 DEF FilesInDirs
  <2> QED
    BY <2>1, <2>2, <2>3, <2>4 DEF Creates, RecordCreation, RecordCreationFails, OpenCreated,
         OpenCreatedFails, TakeBackFails, stores
<1> QED
  BY <1>1, <1>2, <1>3, FoldersGoOn DEF Creating

LEMMA FoldersUnwinds == TypeInv /\ FoldersInv /\ (Unwinds \/ Commit) => FoldersInv'
<1> SUFFICES ASSUME TypeInv, FoldersInv, Unwinds \/ Commit PROVE FoldersInv'
  OBVIOUS
<1>0. TypeOK /\ FilesInDirs /\ CallFits /\ before \in StoresType
  BY DEF TypeInv, FoldersInv
<1>1. CASE Undo
  <2>1. /\ pc = "undo" /\ pc' = "undo" /\ journal # <<>> /\ Undoable /\ call' = call /\ before' = before
        /\ file' = UndoFile /\ dirs' = UndoDirs
        /\ trash' = IF Last.step = "parked" THEN [i \in Ids |-> IF i \in Scope THEN None ELSE trash[i]] ELSE trash
    BY <1>1 DEF Undo
  <2>2. /\ Last \in JournalEntry
        /\ Last.step \in {"wrote", "moved"} => Reidentifying /\ Last.id \in Ids
        /\ Last.step = "movedDir" => call.kind = "renameDir"
        /\ Last.step = "parked" => Deleting
    BY <2>1, LastType
  <2>3. FilesInDirs'
    <3>1. CASE Last.step = "wrote"
      BY <1>0, <2>1, <2>2, <3>1 DEF Undoable, UndoFile, UndoDirs, FilesInDirs, TypeOK, Maybe
    <3>2. CASE Last.step = "moved"
      BY <1>0, <2>1, <2>2, <3>2 DEF Undoable, UndoFile, UndoDirs, FilesInDirs
    <3>3. CASE Last.step = "movedDir"
      <4>1. /\ call.dir \in Dirs /\ call.newDir \in Dirs /\ call.dir # call.newDir /\ Root # call.newDir
        BY <1>0, <2>2, <3>3 DEF CallFits
      <4> QED
        BY <1>0, <2>1, <3>3, <4>1 DEF UndoFile, UndoDirs, FilesInDirs, ShiftDir
    <3>4. CASE Last.step = "parked" /\ call.kind = "deleteNote"
      <4>1. call.id \in Ids /\ call.id # None /\ Scope = {call.id} /\ call.dir = None
        BY <1>0, <3>4, NoneAssumption DEF CallFits, Scope
      <4>2. dirs' = dirs
        BY <1>0, <2>1, <3>4, <4>1, NoneAssumption DEF UndoDirs, StoresType
      <4> QED
        BY <1>0, <2>1, <3>4, <4>1, <4>2 DEF Undoable, UndoFile, FilesInDirs
    <3>5. CASE Last.step = "parked" /\ call.kind = "deleteDir"
      <4>1. Scope = In(call.dir) /\ (call.dir \in before.dirs \/ \A i \in In(call.dir) : trash[i] = None)
        BY <2>1, <3>5 DEF Scope, FoldersInv
      <4>2. dirs \subseteq dirs' /\ (call.dir \in before.dirs => call.dir \in dirs')
        BY <2>1, <3>5 DEF UndoDirs
      <4>3. file' = [i \in Ids |-> IF i \in Scope THEN trash[i] ELSE file[i]]
        BY <2>1, <3>5 DEF UndoFile
      <4> QED
        BY <1>0, <4>1, <4>2, <4>3 DEF FilesInDirs, In
    <3> QED
      BY <2>2, <3>1, <3>2, <3>3, <3>4, <3>5 DEF JournalEntry, Deleting
  <2>4. call.kind = "deleteDir" /\ journal' # <<>> =>
          call.dir \in before.dirs \/ \A i \in In(call.dir) : trash'[i] = None
    <3>1. call.kind = "deleteDir" => Scope = In(call.dir)
      BY DEF Scope
    <3>2. call.kind = "deleteDir" => Last.step = "parked"
      BY <2>2 DEF JournalEntry, Reidentifying
    <3> QED
      BY <2>1, <3>1, <3>2, IdParts
  <2> QED
    BY <2>1, <2>3, <2>4 DEF FoldersInv
<1>2. CASE UndoFails
  <2>1. journal # <<>> /\ pc' = "undo" /\ UNCHANGED <<file, dirs, trash, call, before>>
    BY <1>2 DEF UndoFails, stores
  <2>2. FilesInDirs'
    BY <1>0, <2>1 DEF FilesInDirs
  <2> QED
    BY <2>1, <2>2 DEF FoldersInv
<1>3. CASE StepFails \/ Undone \/ Commit
  <2>1. pc' # "park" /\ UNCHANGED <<file, dirs, trash, journal, call, before>>
    BY <1>3 DEF StepFails, Undone, Commit, stores, Refuse
  <2>2. FilesInDirs'
    BY <1>0, <2>1 DEF FilesInDirs
  <2> QED
    BY <2>1, <2>2, FoldersGoOn
<1> QED
  BY <1>1, <1>2, <1>3 DEF Unwinds

LEMMA FoldersNext == TypeInv /\ FoldersInv /\ [Next]_vars => FoldersInv'
<1> SUFFICES ASSUME TypeInv, FoldersInv, [Next]_vars PROVE FoldersInv'
  OBVIOUS
<1>1. CASE UNCHANGED vars
  BY <1>1 DEF vars, FoldersInv, FilesInDirs
<1> QED
  BY <1>1, FoldersSessions, FoldersRescans, FoldersStarts, FoldersReidentifies, FoldersDeletes,
     FoldersCreates, FoldersUnwinds DEF Next, Operates

(* No operation, rollback or clean-up of lifecycle.rs removes or renames a   *)
(* folder from under a file, and none writes a file where there is no        *)
(* folder.                                                                   *)
THEOREM FilesHaveFolders == Spec => []FilesInDirs
<1>1. Spec => []TypeInv /\ []FoldersInv
  BY TypeInit, TypeNext, FoldersInit, FoldersNext, PTL DEF Spec
<1>2. FoldersInv => FilesInDirs
  BY DEF FoldersInv
<1> QED
  BY <1>1, <1>2, PTL

-----------------------------------------------------------------------------
(* Unwritten work. A dirty session has a draft row whenever no operation is  *)
(* between its transaction and the exchange of sessions; there, the session  *)
(* it will become has one. That is why the checks of an operation, which     *)
(* read draft rows, see what is open and unwritten.                          *)
Dirty(s, i) == s[i] # None /\ s[i].dirty

DirtyHasDraft == \A i \in Ids : Dirty(session, i) => draft[i] # None

DraftsInv ==
    /\ pc \in {"commit", "settle"} /\ Reidentifying =>
          \A k \in Ids : Dirty(CarriedSessions, k) => draft[k] # None
    /\ pc \in {"commit", "settle"} /\ Deleting =>
          \A i \in Ids \ call.ids : Dirty(session, i) => draft[i] # None
    /\ pc \notin {"commit", "settle"} \/ Creating => DirtyHasDraft
    /\ pc \in {"publish", "record", "open", "takeback"} /\ Creating => session[call.id] = None
    /\ pc \in {"commit", "done"} /\ Creating => ~Dirty(session, call.id)

LEMMA DraftsInit == Init => DraftsInv
<1> SUFFICES ASSUME Init PROVE DraftsInv
  OBVIOUS
<1>1. \A i \in Ids : session[i] = None
  BY DEF Init, Nothing
<1> QED
  BY <1>1 DEF Init, DraftsInv, DirtyHasDraft, Dirty, NoCall, Creating

(* No operation is between its transaction and its answer.                   *)
LEMMA DraftsStay ==
    ASSUME DirtyHasDraft', pc' \notin {"commit", "settle"},
           Creating' => pc' # "done",
           pc' \in {"publish", "record", "open", "takeback"} /\ Creating' =>
              session'[call'.id] = None
    PROVE  DraftsInv'
BY DEF DraftsInv

(* Nor does the step touch sessions and draft rows.                          *)
LEMMA DraftsUntouched ==
    ASSUME DraftsInv, UNCHANGED <<session, draft, call, plan>>,
           \/ pc' = pc
           \/ pc = "commit" /\ pc' = IF Creating THEN "done" ELSE "settle"
    PROVE  DraftsInv'
<1>1. CarriedSessions' = CarriedSessions
  BY DEF CarriedSessions, Carried, Arrived, Moved
<1>2. /\ Creating' = Creating /\ Reidentifying' = Reidentifying /\ Deleting' = Deleting
      /\ ~(Creating /\ Reidentifying) /\ ~(Creating /\ Deleting)
  BY DEF Creating, Reidentifying, Deleting
<1>3. DirtyHasDraft' = DirtyHasDraft
  BY DEF DirtyHasDraft, Dirty
<1> QED
  BY <1>1, <1>2, <1>3 DEF DraftsInv, Dirty

LEMMA DraftsSessions == TypeInv /\ DraftsInv /\ (Sessions \/ Guests) => DraftsInv'
<1> SUFFICES ASSUME TypeInv, DraftsInv, Sessions \/ Guests PROVE DraftsInv'
  OBVIOUS
<1>0. TypeOK /\ PcFits /\ CallFits /\ (Creating => call.id \in Ids)
  BY DEF TypeInv, CallFits
<1>1. ASSUME NEW i \in Ids, Open(i) PROVE DraftsInv'
  <2>1. pc' = "idle" /\ call' = call /\ ~Creating
    BY <1>0, <1>1 DEF Open, PcFits, Creating
  <2>2. DirtyHasDraft
    BY <1>1 DEF Open, DraftsInv
  <2>3. DirtyHasDraft'
    BY <1>0, <1>1, <2>2 DEF Open, DirtyHasDraft, Dirty, TypeOK, Maybe
  <2> QED
    BY <2>1, <2>3, DraftsStay DEF Creating
<1>2. ASSUME NEW i \in Ids, Flush(i) \/ Close(i) PROVE DraftsInv'
  <2>1. /\ UNCHANGED <<pc, call>> /\ session[i] # None
        /\ pc \in {"idle", "begun", "rescan"} \/ Creating
    BY <1>2 DEF Flush, Close, SessionsFree, WritesLocked
  <2>2. DirtyHasDraft
    BY <2>1 DEF DraftsInv
  <2>3. /\ \A k \in Ids : k # i => session'[k] = session[k] /\ draft'[k] = draft[k]
        /\ session'[i] = None \/ ~session'[i].dirty
    <3>1. CASE Flush(i)
      <4>1. session[i] \in SessionState
        BY <1>0, <2>1 DEF TypeOK, Maybe
      <4>2. session'[i] = [session[i] EXCEPT !.rev = session[i].buf, !.recreate = FALSE, !.dirty = FALSE]
        BY <1>0, <3>1 DEF Flush, TypeOK, Maybe
      <4> QED
        BY <1>0, <3>1, <4>1, <4>2 DEF Flush, TypeOK, Maybe, SessionState
    <3>2. CASE Close(i)
      BY <1>0, <3>2 DEF Close, TypeOK, Maybe
    <3> QED
      BY <1>2, <3>1, <3>2
  <2>4. DirtyHasDraft'
    BY <2>2, <2>3 DEF DirtyHasDraft, Dirty
  <2> QED
    BY <1>0, <2>1, <2>3, <2>4 DEF DraftsInv, Creating, Reidentifying, Deleting, Dirty
<1>3. ASSUME UNCHANGED <<pc, call, session, draft, plan>> PROVE DraftsInv'
  BY <1>3, DraftsUntouched
<1>4. Guests => DraftsInv'
  BY <1>3 DEF Guests, GuestWrites, GuestRemoves, Guest
<1> QED
  BY <1>1, <1>2, <1>4 DEF Sessions

LEMMA DraftsRescans == TypeInv /\ DraftsInv /\ (Crash \/ Rescan \/ Reindex \/ Return) => DraftsInv'
<1> SUFFICES ASSUME TypeInv, DraftsInv, Crash \/ Rescan \/ Reindex \/ Return PROVE DraftsInv'
  OBVIOUS
<1>1. call' = NoCall /\ pc' \in {"idle", "rescan"}
  BY DEF TypeInv, IdleFits, Crash, Rescan, Reindex, Return
<1>2. DirtyHasDraft'
  <2>1. CASE Crash
    BY <2>1 DEF Crash, DirtyHasDraft, Dirty, Nothing
  <2>2. CASE Rescan \/ Reindex \/ Return
    BY <2>2 DEF Rescan, Reindex, Return, stores, DraftsInv, DirtyHasDraft, Dirty
  <2> QED
    BY <2>1, <2>2
<1> QED
  BY <1>1, <1>2, DraftsStay DEF Creating, NoCall

LEMMA DraftsStarts == TypeInv /\ DraftsInv /\ Starts => DraftsInv'
<1> SUFFICES ASSUME TypeInv, DraftsInv, Starts PROVE DraftsInv'
  OBVIOUS
<1>0. TypeOK
  BY DEF TypeInv
<1>1. pc = "idle" /\ call = NoCall
  BY ZenonT(60) DEF Starts, RenameNote, MoveNote, RenameDirectory, DeleteNote, DeleteDraft, DeleteDirectory,
         CreateNote, CreateTarget, CreateDirectory, Begin, TypeInv, IdleFits
<1>2. DirtyHasDraft
  BY <1>1 DEF DraftsInv
<1>3. ASSUME NEW c, NEW at, Begin(c, at), at \in {"begun", "park", "publish"},
             at = "publish" => session[c.id] = None
      PROVE  DraftsInv'
  <2>1. DirtyHasDraft'
    BY <1>2, <1>3 DEF Begin, DirtyHasDraft, Dirty
  <2> QED
    BY <1>3, <2>1, DraftsStay DEF Begin
<1>4. ASSUME NEW i \in Ids, RenameNote(i, i[2]) \/ \E title \in Titles : RenameNote(i, title) PROVE DraftsInv'
  BY <1>3, <1>4, Zenon DEF RenameNote
<1>5. ASSUME NEW i \in Ids, NEW d \in Dirs, MoveNote(i, d) PROVE DraftsInv'
  BY <1>3, <1>5 DEF MoveNote
<1>6. ASSUME NEW d \in Dirs, NEW e \in Dirs, RenameDirectory(d, e) PROVE DraftsInv'
  BY <1>3, <1>6 DEF RenameDirectory
<1>7. ASSUME NEW i \in Ids, DeleteNote(i) PROVE DraftsInv'
  BY <1>3, <1>7 DEF DeleteNote
<1>8. ASSUME NEW d \in Dirs, DeleteDirectory(d) PROVE DraftsInv'
  BY <1>3, <1>8 DEF DeleteDirectory
<1>9. ASSUME NEW d \in Dirs, NEW title \in Titles, CreateNote(d, title) PROVE DraftsInv'
  <2> DEFINE c == [NoCall EXCEPT !.kind = "createNote", !.id = <<d, title>>, !.ids = {<<d, title>>}]
  <2>1. Begin(c, "publish") /\ Available(<<d, title>>, None) /\ <<d, title>> # None
    BY <1>9, IdParts, NoneAssumption DEF CreateNote
  <2>2. c.id = <<d, title>>
    BY DEF NoCall
  <2> QED
    BY <1>3, <2>1, <2>2 DEF Available
<1>10. ASSUME NEW i \in Ids, CreateTarget(i) PROVE DraftsInv'
  <2> DEFINE c == [NoCall EXCEPT !.kind = "createTarget", !.id = i, !.ids = {i},
                                 !.rows = {i[1]} \ (dirRow \cup {Root}), !.made = i[1] \notin dirs]
  <2>1. Begin(c, "publish") /\ Available(i, None) /\ i # None
    BY <1>10, NoneAssumption DEF CreateTarget
  <2>2. c.id = i
    BY DEF NoCall
  <2> QED
    BY <1>3, <2>1, <2>2 DEF Available
<1>11. ASSUME NEW i \in Ids, DeleteDraft(i) PROVE DraftsInv'
  <2>1. DirtyHasDraft'
    BY <1>0, <1>2, <1>11 DEF DeleteDraft, DirtyHasDraft, Dirty, TypeOK, Maybe
  <2> QED
    BY <1>1, <1>11, <2>1, DraftsStay DEF DeleteDraft, NoCall, Creating
<1>12. ASSUME NEW d \in Dirs, CreateDirectory(d) PROVE DraftsInv'
  <2>1. DirtyHasDraft'
    BY <1>2, <1>12 DEF CreateDirectory, DirtyHasDraft, Dirty
  <2> QED
    BY <1>1, <1>12, <2>1, DraftsStay DEF CreateDirectory, NoCall, Creating
<1> QED
  BY <1>4, <1>5, <1>6, <1>7, <1>8, <1>9, <1>10, <1>11, <1>12 DEF Starts

(* The transaction of a rename leaves a draft row for every buffer that will *)
(* be carried unwritten.                                                     *)
LEMMA RecordKeepsDrafts ==
    ASSUME TypeInv, DirtyHasDraft, NEW k \in Ids, Dirty(CarriedSessions, k)
    PROVE  RecordedDraft[k] # None
<1>0. TypeOK /\ PlanFits
  BY DEF TypeInv
<1>1. CASE \E i \in Arrived(k) : draft[i] # None
  <2> DEFINE i == CHOOSE i \in Arrived(k) : draft[i] # None
  <2>1. i \in Arrived(k) /\ draft[i] # None
    BY <1>1
  <2>2. RecordedDraft[k] = DraftAfter(i)
    BY <1>1 DEF RecordedDraft
  <2> HIDE DEF i
  <2> QED
    BY <2>1, <2>2 DEF DraftAfter
<1>2. CASE ~\E i \in Arrived(k) : draft[i] # None
  <2>1. \A i \in Arrived(k) : session[i] # None => ~session[i].dirty
    BY <1>0, <1>2, ArrivedIds DEF DirtyHasDraft, Dirty
  <2>2. CASE \E i \in Arrived(k) : session[i] # None
    <3> DEFINE i == CHOOSE i \in Arrived(k) : session[i] # None
    <3>1. i \in Arrived(k) /\ session[i] # None
      BY <2>2
    <3>2. CarriedSessions[k] = Carried(i)
      BY <2>2 DEF CarriedSessions
    <3> HIDE DEF i
    <3>3. Carried(i).dirty = session[i].dirty
      BY <1>0, <3>1, ArrivedIds, CarriedType
    <3> QED
      BY <2>1, <3>1, <3>2, <3>3 DEF Dirty
  <2>3. CASE ~\E i \in Arrived(k) : session[i] # None
    <3>1. CarriedSessions[k] = IF k \in DOMAIN plan /\ Moved(k) THEN None ELSE session[k]
      BY <2>3 DEF CarriedSessions
    <3>2. RecordedDraft[k] = IF k \in DOMAIN plan /\ Moved(k) THEN None ELSE draft[k]
      BY <1>2 DEF RecordedDraft
    <3> QED
      BY <3>1, <3>2 DEF Dirty, DirtyHasDraft
  <2> QED
    BY <2>2, <2>3
<1> QED
  BY <1>1, <1>2

LEMMA DraftsReidentifies == TypeInv /\ DraftsInv /\ Reidentifies => DraftsInv'
<1> SUFFICES ASSUME TypeInv, DraftsInv, Reidentifies PROVE DraftsInv'
  OBVIOUS
<1>0. TypeOK
  BY DEF TypeInv
<1>1. Reidentifying /\ call' = call
  BY DEF Reidentifies, Plan, PlanFails, FilesWritten, MoveDir, FilesMoved, RecordMove, SettleMove,
         Answer, AnswerFails, WriteFile, MoveFile, TypeInv, PcFits
<1>2. ~Creating' /\ ~Creating /\ ~Deleting /\ ~Deleting'
  BY <1>1 DEF Creating, Reidentifying, Deleting
<1>3. CASE RecordMove
  <2>1. DirtyHasDraft /\ pc' = "commit" /\ UNCHANGED <<session, plan>> /\ draft' = RecordedDraft
    BY <1>3 DEF RecordMove, DraftsInv
  <2>2. CarriedSessions' = CarriedSessions
    BY <1>1, <2>1 DEF CarriedSessions, Carried, Arrived, Moved
  <2>3. \A k \in Ids : Dirty(CarriedSessions', k) => draft'[k] # None
    BY <2>1, <2>2, RecordKeepsDrafts
  <2> QED
    BY <1>2, <2>1, <2>3 DEF DraftsInv
<1>4. CASE SettleMove
  <2>1. session' = CarriedSessions /\ draft' = draft /\ pc = "settle" /\ pc' \in {"answer", "done"}
    BY <1>4 DEF SettleMove
  <2>2. \A k \in Ids : Dirty(CarriedSessions, k) => draft[k] # None
    BY <1>1, <2>1 DEF DraftsInv
  <2>3. DirtyHasDraft'
    BY <2>1, <2>2 DEF DirtyHasDraft, Dirty
  <2> QED
    BY <1>2, <2>1, <2>3, DraftsStay
<1>5. CASE UNCHANGED <<session, draft>> /\ pc \notin {"commit", "settle"} /\ pc' \notin {"commit", "settle"}
  <2>1. DirtyHasDraft'
    BY <1>5 DEF DraftsInv, DirtyHasDraft, Dirty
  <2> QED
    BY <1>2, <1>5, <2>1, DraftsStay
<1> QED
  BY <1>3, <1>4, <1>5 DEF Reidentifies, Plan, PlanFails, FilesWritten, MoveDir, FilesMoved,
     Answer, AnswerFails, WriteFile, MoveFile, Refuse, stores

LEMMA DraftsDeletes == TypeInv /\ DraftsInv /\ Deletes => DraftsInv'
<1> SUFFICES ASSUME TypeInv, DraftsInv, Deletes PROVE DraftsInv'
  OBVIOUS
<1>0. TypeOK
  BY DEF TypeInv
<1>1. Deleting /\ call' = call
  BY DEF Deletes, Park, RecordDeletion, SettleDeletion, TypeInv, PcFits
<1>2. ~Creating' /\ ~Creating /\ ~Reidentifying /\ ~Reidentifying'
  BY <1>1 DEF Creating, Reidentifying, Deleting
<1>3. CASE Park
  <2>1. DirtyHasDraft'
    BY <1>3 DEF Park, DraftsInv, DirtyHasDraft, Dirty
  <2> QED
    BY <1>2, <1>3, <2>1, DraftsStay DEF Park
<1>4. CASE RecordDeletion
  <2>1. DirtyHasDraft /\ pc' = "commit" /\ session' = session
        /\ draft' = [i \in Ids |-> IF i \in call.ids THEN None ELSE draft[i]]
    BY <1>4 DEF RecordDeletion, DraftsInv
  <2>2. \A i \in Ids \ call.ids : Dirty(session, i)' => draft'[i] # None
    BY <2>1 DEF DirtyHasDraft, Dirty
  <2> QED
    BY <1>1, <1>2, <2>1, <2>2 DEF DraftsInv, Dirty
<1>5. CASE SettleDeletion
  <2>1. \A i \in Ids \ call.ids : Dirty(session, i) => draft[i] # None
    BY <1>1, <1>5 DEF SettleDeletion, DraftsInv
  <2>2. DirtyHasDraft' /\ pc' = "done"
    BY <1>5, <2>1 DEF SettleDeletion, DirtyHasDraft, Dirty
  <2> QED
    BY <1>2, <2>2, DraftsStay
<1> QED
  BY <1>3, <1>4, <1>5 DEF Deletes

LEMMA DraftsCreates == TypeInv /\ DraftsInv /\ Creates => DraftsInv'
<1> SUFFICES ASSUME TypeInv, DraftsInv, Creates PROVE DraftsInv'
  OBVIOUS
<1>0. TypeOK
  BY DEF TypeInv
<1>1. Creating /\ call' = call /\ call.id \in Ids /\ session[call.id] = None
  <2>1. Creating /\ pc \in {"publish", "record", "open", "takeback"}
    BY DEF Creates, Publish, PublishFails, RecordCreation, RecordCreationFails, OpenCreated,
           OpenCreatedFails, TakeBack, TakeBackFails, TypeInv, PcFits
  <2> QED
    BY <2>1 DEF Creates, Publish, PublishFails, RecordCreation, RecordCreationFails, OpenCreated,
           OpenCreatedFails, TakeBack, TakeBackFails, DraftsInv, TypeInv, CallFits
<1>2. Creating' /\ ~Reidentifying' /\ ~Deleting' /\ DirtyHasDraft
  BY <1>1 DEF Creating, Reidentifying, Deleting, DraftsInv
<1>3. CASE OpenCreated
  <2>1. /\ pc' = "commit" /\ draft' = draft
        /\ \A i \in Ids : i # call.id => session'[i] = session[i]
        /\ session'[call.id] = [buf |-> file[call.id], rev |-> file[call.id], recreate |-> FALSE, dirty |-> FALSE]
    BY <1>0, <1>1, <1>3 DEF OpenCreated, TypeOK, Maybe
  <2>2. DirtyHasDraft' /\ ~Dirty(session', call.id)
    BY <1>2, <2>1 DEF DirtyHasDraft, Dirty
  <2> QED
    BY <1>1, <1>2, <2>1, <2>2 DEF DraftsInv
<1>4. CASE ~OpenCreated
  <2>1. session' = session /\ pc' \in {"record", "done", "open", "takeback"}
    BY <1>4 DEF Creates, Publish, PublishFails, RecordCreation, RecordCreationFails,
           OpenCreatedFails, TakeBack, TakeBackFails, stores, Refuse
  <2>2. \A i \in Ids : i # call.id => draft'[i] = draft[i]
    BY <1>0, <1>4 DEF Creates, Publish, PublishFails, RecordCreation, RecordCreationFails,
           OpenCreatedFails, TakeBack, TakeBackFails, stores, TypeOK, Maybe
  <2>3. DirtyHasDraft'
    BY <1>1, <1>2, <2>1, <2>2 DEF DirtyHasDraft, Dirty
  <2> QED
    BY <1>1, <1>2, <2>1, <2>3 DEF DraftsInv, Dirty
<1> QED
  BY <1>3, <1>4

LEMMA DraftsUnwinds == TypeInv /\ DraftsInv /\ (Unwinds \/ Commit) => DraftsInv'
<1> SUFFICES ASSUME TypeInv, DraftsInv, Unwinds \/ Commit PROVE DraftsInv'
  OBVIOUS
<1>1. UNCHANGED <<session, draft, call, plan>>
  BY DEF Unwinds, StepFails, Undo, UndoFails, Undone, Commit, stores
<1>2. CASE Unwinds
  <2>1. ~Creating /\ pc \notin {"commit", "settle"} /\ pc' \notin {"commit", "settle"}
    BY <1>2 DEF Unwinds, StepFails, Undo, UndoFails, Undone, Refuse, TypeInv, PcFits
  <2>2. DirtyHasDraft'
    BY <1>1, <2>1 DEF DraftsInv, DirtyHasDraft, Dirty
  <2> QED
    BY <1>1, <2>1, <2>2, DraftsStay DEF Creating
<1>3. CASE Commit
  <2>1. pc = "commit" /\ pc' \in {"done", "settle"} /\ (Creating <=> pc' = "done")
    BY <1>3 DEF Commit
  <2> QED
    BY <1>1, <1>3, DraftsUntouched DEF Commit
<1> QED
  BY <1>2, <1>3

LEMMA DraftsNext == TypeInv /\ DraftsInv /\ [Next]_vars => DraftsInv'
<1> SUFFICES ASSUME TypeInv, DraftsInv, [Next]_vars PROVE DraftsInv'
  OBVIOUS
<1>1. CASE UNCHANGED vars
  BY <1>1, DraftsUntouched DEF vars
<1> QED
  BY <1>1, DraftsSessions, DraftsRescans, DraftsStarts, DraftsReidentifies, DraftsDeletes,
     DraftsCreates, DraftsUnwinds DEF Next, Operates

-----------------------------------------------------------------------------
(* The journal. What rollback restores is told by a history of the bundle:   *)
(* one snapshot for each entry of the journal, from the bundle as the        *)
(* operation found it to the bundle as it is, of which undoing the entry     *)
(* gives the one before. A step that the journal notes appends to the        *)
(* history, a step undone takes its last element away, and an empty journal  *)
(* means that nothing has changed.                                           *)
Snap == [file : Maybe(Text), dirs : SUBSET Dirs, trash : Maybe(Text)]
Now == [file |-> file, dirs |-> dirs, trash |-> trash]
Then == [file |-> before.file, dirs |-> before.dirs, trash |-> Nothing]

UndoneFile(e, s) ==
    CASE e.step = "wrote" -> [s.file EXCEPT ![e.id] = e.prev]
      [] e.step = "moved" -> [k \in Ids |-> IF k = e.id THEN s.file[call.move[k]]
                                            ELSE IF k = call.move[e.id] THEN None
                                            ELSE s.file[k]]
      [] e.step = "movedDir" -> ShiftDir(s.file, call.newDir, call.dir)
      [] e.step = "parked" -> [i \in Ids |-> IF i \in Scope THEN s.trash[i] ELSE s.file[i]]

UndoneDirs(e, s) ==
    CASE e.step = "movedDir" -> (s.dirs \ {call.newDir}) \cup {call.dir}
      [] e.step = "parked" -> IF call.dir \in before.dirs THEN s.dirs \cup {call.dir} ELSE s.dirs
      [] OTHER -> s.dirs

UndoneTrash(e, s) ==
    IF e.step = "parked" THEN [i \in Ids |-> IF i \in Scope THEN None ELSE s.trash[i]] ELSE s.trash

Undone1(e, s) ==
    [file |-> UndoneFile(e, s), dirs |-> UndoneDirs(e, s), trash |-> UndoneTrash(e, s)]

Unwindable ==
    \E hist \in [1..(Len(journal) + 1) -> Snap] :
        /\ hist[1] = Then
        /\ hist[Len(journal) + 1] = Now
        /\ \A n \in 1..Len(journal) : Undone1(journal[n], hist[n + 1]) = hist[n]

LEMMA SnapTypes == TypeInv => Now \in Snap /\ Then \in Snap
BY DEF TypeInv, TypeOK, Now, Then, Snap, StoresType, Nothing, Maybe

LEMMA JournalSeq ==
    TypeInv => /\ journal \in Seq(JournalEntry) /\ Len(journal) \in Nat
               /\ \A n \in 1..Len(journal) : journal[n] \in JournalEntry
BY DEF TypeInv, JournalFits

LEMMA UnwindEmpty ==
    ASSUME journal = <<>>, Unwindable
    PROVE  Now = Then
<1>1. Len(journal) = 0 /\ 0 + 1 = 1
  OBVIOUS
<1> QED
  BY <1>1 DEF Unwindable

LEMMA UnwindStarts ==
    ASSUME TypeInv', journal' = <<>>, Now' = Then'
    PROVE  Unwindable'
<1>1. Len(journal') = 0 /\ 0 + 1 = 1
  OBVIOUS
<1>2. Now' \in Snap
  BY DEF TypeInv, TypeOK, Now, Snap
<1>3. PICK s : s = Now'
  OBVIOUS
<1>4. PICK h : h = [n \in 1..1 |-> s]
  OBVIOUS
<1>5. h \in [1..1 -> Snap] /\ h[1] = s
  BY <1>2, <1>3, <1>4
<1>6. \A n \in 1..0 : FALSE
  OBVIOUS
<1> QED
  BY <1>1, <1>3, <1>5, <1>6 DEF Unwindable

LEMMA Undone1Same ==
    ASSUME UNCHANGED <<call, before>>
    PROVE  \A e, s : (Undone1(e, s))' = Undone1(e, s)
<1>1. Scope' = Scope
  BY DEF Scope
<1> QED
  BY <1>1 DEF Undone1, UndoneFile, UndoneDirs, UndoneTrash

LEMMA UnwindStays ==
    ASSUME Unwindable, UNCHANGED <<file, dirs, trash, journal, call, before>>
    PROVE  Unwindable'
<1>1. Now' = Now /\ Then' = Then
  BY DEF Now, Then
<1>2. PICK h \in [1..(Len(journal) + 1) -> Snap] :
         /\ h[1] = Then /\ h[Len(journal) + 1] = Now
         /\ \A n \in 1..Len(journal) : Undone1(journal[n], h[n + 1]) = h[n]
  BY DEF Unwindable
<1>3. \A n \in 1..Len(journal) : (Undone1(journal[n], h[n + 1]))' = h[n]
  BY <1>2, Undone1Same
<1>4. h \in [1..(Len(journal') + 1) -> Snap]
  BY <1>2
<1> QED
  BY <1>1, <1>2, <1>3, <1>4 DEF Unwindable

(* A step the journal notes, and that undoing it reverses.                   *)
LEMMA UnwindGrows ==
    ASSUME TypeInv, TypeInv', Unwindable, UNCHANGED <<call, before>>,
           NEW e \in JournalEntry, journal' = Append(journal, e),
           Undone1(e, Now') = Now
    PROVE  Unwindable'
<1> DEFINE m == Len(journal)
<1>1. /\ journal \in Seq(JournalEntry) /\ m \in Nat
      /\ Len(journal') = m + 1
      /\ \A n \in 1..m : journal'[n] = journal[n]
      /\ journal'[m + 1] = e
  BY JournalSeq, AppendProperties
<1>2. PICK s : s = Now'
  OBVIOUS
<1>3. s \in Snap /\ Then' = Then
  BY <1>2 DEF Then, Now, Snap, TypeInv, TypeOK
<1>4. PICK h \in [1..(m + 1) -> Snap] :
         /\ h[1] = Then /\ h[m + 1] = Now
         /\ \A n \in 1..m : Undone1(journal[n], h[n + 1]) = h[n]
  BY DEF Unwindable
<1> DEFINE g == [n \in 1..(m + 2) |-> IF n = m + 2 THEN s ELSE h[n]]
<1>5. PICK f : f = g
  OBVIOUS
<1> HIDE DEF m
<1>6. /\ f \in [1..(m + 1 + 1) -> Snap]
      /\ \A n \in 1..(m + 1) : f[n] = h[n]
      /\ f[m + 2] = s
  <2>1. m + 1 + 1 = m + 2 /\ \A n \in 1..(m + 2) : n # m + 2 => n \in 1..(m + 1)
    BY <1>1
  <2>2. \A n \in 1..(m + 1) : n \in 1..(m + 2) /\ n # m + 2
    BY <1>1
  <2>3. m + 2 \in 1..(m + 2)
    BY <1>1
  <2> QED
    BY <1>3, <1>4, <1>5, <2>1, <2>2, <2>3
<1> HIDE DEF g
<1>7. \A n \in 1..(m + 1) : (Undone1(journal[n], f[n + 1]))' = f[n]
  <2> TAKE n \in 1..(m + 1)
  <2>1. (Undone1(journal[n], f[n + 1]))' = Undone1(journal'[n], f[n + 1])
    BY Undone1Same
  <2>2. CASE n = m + 1
    <3>1. n + 1 = m + 2 /\ f[n] = Now /\ f[n + 1] = Now' /\ journal'[n] = e
      BY <1>1, <1>2, <1>4, <1>6, <2>2
    <3> QED
      BY <2>1, <3>1
  <2>3. CASE n # m + 1
    <3>1. n \in 1..m /\ n + 1 \in 1..(m + 1)
      BY <1>1, <2>3
    <3>2. f[n] = h[n] /\ f[n + 1] = h[n + 1] /\ journal'[n] = journal[n]
      BY <1>1, <1>6, <3>1
    <3> QED
      BY <1>4, <2>1, <3>1, <3>2
  <2> QED
    BY <2>2, <2>3
<1>8. /\ 1 \in 1..(m + 1) /\ Len(journal') + 1 = m + 2 /\ m + 1 + 1 = m + 2 /\ Len(journal') = m + 1
  BY <1>1
<1>9. f[1] = Then' /\ f[Len(journal') + 1] = Now' /\ f \in [1..(Len(journal') + 1) -> Snap]
  BY <1>2, <1>3, <1>4, <1>6, <1>8
<1>10. \A n \in 1..Len(journal') : (Undone1(journal[n], f[n + 1]))' = f[n]
  BY <1>7, <1>8
<1> QED
  BY <1>9, <1>10 DEF Unwindable

(* The newest step undone.                                                   *)
LEMMA UnwindShrinks ==
    ASSUME TypeInv, Unwindable, UNCHANGED <<call, before>>, journal # <<>>, pc' = "undo",
           journal' = SubSeq(journal, 1, Len(journal) - 1),
           Now' = Undone1(Last, Now)
    PROVE  Unwindable'
<1> DEFINE m == Len(journal)
<1>1. /\ m \in Nat \ {0} /\ Len(journal') = m - 1
      /\ \A n \in 1..(m - 1) : journal'[n] = journal[n]
  BY JournalShrinks
<1>2. PICK h \in [1..(m + 1) -> Snap] :
         /\ h[1] = Then /\ h[m + 1] = Now
         /\ \A n \in 1..m : Undone1(journal[n], h[n + 1]) = h[n]
  BY DEF Unwindable
<1>3. Last = journal[m] /\ Then' = Then
  BY DEF Last, Then
<1> HIDE DEF m
<1>4. PICK f : f = [n \in 1..m |-> h[n]]
  OBVIOUS
<1>5. f \in [1..m -> Snap] /\ \A n \in 1..m : f[n] = h[n]
  BY <1>1, <1>2, <1>4
<1>6. f[1] = Then' /\ f[m] = Now'
  <2>1. 1 \in 1..m /\ m \in 1..m
    BY <1>1
  <2>2. h[m] = Undone1(Last, Now)
    BY <1>2, <1>3, <2>1
  <2> QED
    BY <1>2, <1>3, <1>5, <2>1, <2>2
<1>7. \A n \in 1..(m - 1) : (Undone1(journal[n], f[n + 1]))' = f[n]
  <2> TAKE n \in 1..(m - 1)
  <2>1. n \in 1..m /\ n + 1 \in 1..m
    BY <1>1
  <2>2. (Undone1(journal[n], f[n + 1]))' = Undone1(journal'[n], f[n + 1])
    BY Undone1Same
  <2> QED
    BY <1>1, <1>2, <1>5, <2>1, <2>2
<1>8. m - 1 + 1 = m
  BY <1>1
<1>9. f[1] = Then' /\ f[Len(journal') + 1] = Now' /\ f \in [1..(Len(journal') + 1) -> Snap]
  BY <1>1, <1>5, <1>6, <1>8
<1>10. \A n \in 1..Len(journal') : (Undone1(journal[n], f[n + 1]))' = f[n]
  BY <1>1, <1>7
<1> QED
  BY <1>9, <1>10 DEF Unwindable

-----------------------------------------------------------------------------
(* Renames, moves and deletions, phase by phase: what the files hold, in     *)
(* terms of the plan and of what the operation found.                        *)
Noting == call.kind \in {"renameNote", "moveNote"}

(* Between the checks and the plan sessions still write, but they put no     *)
(* file, draft row or session where the Note is to go, and leave the Note    *)
(* its file.                                                                 *)
BegunInv ==
    /\ Noting =>
          /\ file[call.id] # None
          /\ Moved(call.id) => file[NewId] = None /\ draft[NewId] = None /\ session[NewId] = None
          /\ NewId[1] \in dirs
    /\ call.kind = "renameDir" /\ call.newDir \in dirs => ~Empty(call.newDir)

Planned(k) == k \in DOMAIN plan /\ plan[k].file # None

(* What the files hold once every planned text is written (FilesPlanned) and *)
(* once everything has moved (ArrivedFiles, ArrivedDirs).                    *)
FilesPlanned == [k \in Ids |-> IF Planned(k) THEN plan[k].file ELSE before.file[k]]

ArrivedFiles ==
    IF call.kind = "renameDir" THEN ShiftDir(FilesPlanned, call.dir, call.newDir)
    ELSE IF Moved(call.id)
    THEN [k \in Ids |-> IF k = NewId THEN FilesPlanned[call.id]
                        ELSE IF k = call.id THEN None ELSE FilesPlanned[k]]
    ELSE FilesPlanned

ArrivedDirs ==
    IF call.kind = "renameDir" THEN (before.dirs \ {call.dir}) \cup {call.newDir} ELSE before.dirs

(* What the plan says of the files the operation found.                      *)
PlanInv ==
    /\ trash = Nothing
    /\ \A k \in DOMAIN plan :
          /\ plan[k].had <=> before.file[k] # None
          /\ plan[k].file # None => plan[k].had
    /\ Noting =>
          /\ before.file[call.id] # None
          /\ Moved(call.id) => before.file[NewId] = None /\ call.id \in DOMAIN plan
          /\ NewId[1] \in before.dirs
    /\ call.kind = "renameDir" /\ call.newDir \in before.dirs =>
          \E i \in In(call.newDir) : before.file[i] # None

WriteInv ==
    /\ file = [k \in Ids |-> IF Planned(k) /\ k \notin todo THEN plan[k].file ELSE before.file[k]]
    /\ dirs = before.dirs

MoveInv ==
    /\ dirs = before.dirs
    /\ call.kind = "renameDir" => todo = {} /\ file = FilesPlanned
    /\ Noting =>
          /\ todo = {} \/ (todo = {call.id} /\ Moved(call.id))
          /\ file = IF todo = {} THEN ArrivedFiles ELSE FilesPlanned

(* Nothing was under the new name of a Directory, for its rename was let     *)
(* through.                                                                  *)
RecordInv ==
    /\ file = ArrivedFiles
    /\ dirs = ArrivedDirs
    /\ call.kind = "renameDir" => \A i \in In(call.newDir) : FilesPlanned[i] = None

DeletedInv ==
    /\ file = [i \in Ids |-> IF i \in Scope THEN None ELSE before.file[i]]
    /\ dirs = before.dirs \ {call.dir}
    /\ \A i \in Ids : trash[i] # None => i \in Scope

(* Rows, draft rows, sessions and HEAD are as the operation found them until *)
(* its transaction.                                                          *)
Quiet ==
    /\ draft = before.draft /\ session = before.session /\ head = before.head
    /\ index = before.index /\ dirRow = before.dirRow

Running == ~Creating /\ pc \in {"park", "write", "move", "record", "undo"}

(* All of it, while nothing else has changed the bundle.                     *)
RunInv ==
    tidy =>
      /\ pc \in {"idle", "rescan", "begun"} => trash = Nothing
      /\ pc = "begun" => BegunInv
      /\ Running => Quiet /\ Unwindable
      /\ Reidentifying /\ pc \in {"write", "move", "record"} => PlanInv
      /\ pc = "write" => WriteInv
      /\ pc = "move" => MoveInv
      /\ pc = "record" /\ Reidentifying => RecordInv
      /\ pc = "record" /\ Deleting => DeletedInv

-----------------------------------------------------------------------------
(* The arguments of a rename or a move while it holds.                       *)
LEMMA NotingFacts ==
    ASSUME TypeInv
    PROVE  /\ Noting => /\ Reidentifying /\ call.id \in Ids /\ NewId \in Ids /\ call.ids = {}
                        /\ \A i \in Ids : Moved(i) => i = call.id
           /\ Reidentifying <=> Noting \/ call.kind = "renameDir"
           /\ call.kind = "renameDir" =>
                /\ {call.dir, call.newDir} \subseteq Dirs \ {Root} /\ call.dir # call.newDir
                /\ \A i \in Ids : Moved(i) => i[1] = call.dir /\ call.move[i] = <<call.newDir, i[2]>>
           /\ ~(Creating /\ Reidentifying) /\ ~(Creating /\ Deleting) /\ ~(Deleting /\ Reidentifying)
           /\ ~(Noting /\ call.kind = "renameDir")
           /\ call.move \in [Ids -> Ids]
BY DEF TypeInv, CallFits, CallType, Noting, Reidentifying, NewId, Creating, Deleting

LEMMA RunInit == Init => RunInv
BY DEF Init, RunInv, Running

(* Phases a step may leave an invariant about.                               *)
LEMMA RunElsewhere ==
    ASSUME pc' \in {"idle", "rescan"} => trash' = Nothing, pc' # "begun", ~Running',
           pc' \notin {"write", "move"}, ~(pc' = "record" /\ (Reidentifying' \/ Deleting'))
    PROVE  RunInv'
BY DEF RunInv

LEMMA RunSessions == TypeInv /\ RunInv /\ (Sessions \/ Guests) => RunInv'
<1> SUFFICES ASSUME TypeInv, RunInv, Sessions, tidy' PROVE RunInv'
  BY DEF Guests, GuestWrites, GuestRemoves, Guest, RunInv
<1>0. TypeOK /\ PcFits
  BY DEF TypeInv
<1>1. PICK i \in Ids : Open(i) \/ Flush(i) \/ Close(i)
  BY DEF Sessions
<1>2. /\ UNCHANGED <<pc, call, trash, tidy>> /\ tidy
      /\ pc \in {"idle", "begun", "rescan"} \/ Creating
      /\ pc = "begun" => Flush(i) \/ Close(i)
  BY <1>1 DEF Open, Flush, Close, SessionsFree, WritesLocked
<1>3. CASE pc # "begun"
  <2>1. ~Running /\ (pc \in {"idle", "rescan"} => trash = Nothing) /\ pc \notin {"write", "move"}
        /\ ~(pc = "record" /\ (Reidentifying \/ Deleting))
    BY <1>0, <1>2 DEF RunInv, Running, PcFits, Creating, Reidentifying, Deleting
  <2> QED
    BY <1>2, <1>3, <2>1, RunElsewhere DEF Running, Creating, Reidentifying, Deleting
<1>4. CASE pc = "begun"
  <2>1. BegunInv /\ trash = Nothing
    BY <1>2, <1>4 DEF RunInv
  <2>2. /\ \A k \in Ids : k # i => session'[k] = session[k] /\ draft'[k] = draft[k] /\ file'[k] = file[k]
        /\ session[i] # None /\ (file[i] # None => file'[i] # None)
        /\ file'[i] # file[i] => file'[i] # None /\ dirs' = dirs \cup {i[1]}
        /\ dirs' # dirs => file'[i] # None /\ dirs' = dirs \cup {i[1]}
        /\ dirs \subseteq dirs'
    <3>1. CASE Flush(i)
      <4>1. session[i] \in SessionState /\ session[i].buf # None
        BY <1>0, <3>1, NoneAssumption DEF Flush, TypeOK, Maybe, SessionState
      <4> QED
        BY <1>0, <3>1, <4>1 DEF Flush, TypeOK, Maybe
    <3>2. CASE Close(i)
      BY <1>0, <3>2 DEF Close, TypeOK, Maybe
    <3> QED
      BY <1>2, <1>4, <3>1, <3>2
  <2>3. Noting => /\ file'[call.id] # None
                  /\ Moved(call.id) => file'[NewId] = None /\ draft'[NewId] = None /\ session'[NewId] = None
                  /\ NewId[1] \in dirs'
    <3> SUFFICES ASSUME Noting PROVE /\ file'[call.id] # None
                                     /\ Moved(call.id) => file'[NewId] = None /\ draft'[NewId] = None
                                                          /\ session'[NewId] = None
                                     /\ NewId[1] \in dirs'
      OBVIOUS
    <3>1. call.id \in Ids /\ NewId \in Ids
      BY NotingFacts
    <3> QED
      BY <2>1, <2>2, <3>1 DEF BegunInv
  <2>4. call.kind = "renameDir" /\ call.newDir \in dirs' => \E k \in In(call.newDir) : file'[k] # None
    BY <2>1, <2>2 DEF BegunInv, Empty, In
  <2>5. BegunInv'
    BY <1>2, <2>3, <2>4 DEF BegunInv, Noting, Moved, NewId, Empty
  <2> QED
    BY <1>2, <1>4, <2>1, <2>5 DEF RunInv, Running
<1> QED
  BY <1>3, <1>4

LEMMA RunStarts == TypeInv /\ TypeInv' /\ FoldersInv /\ RunInv /\ Starts => RunInv'
<1> SUFFICES ASSUME TypeInv, TypeInv', FoldersInv, RunInv, Starts, tidy' PROVE RunInv'
  BY DEF RunInv
<1>0. TypeOK /\ FilesInDirs
  BY DEF TypeInv, FoldersInv
<1>1. pc = "idle" /\ tidy /\ trash = Nothing /\ trash' = Nothing /\ file' = file /\ journal = <<>> /\ journal' = <<>>
  BY ZenonT(60) DEF Starts, RenameNote, MoveNote, RenameDirectory, DeleteNote, DeleteDraft, DeleteDirectory,
         CreateNote, CreateTarget, CreateDirectory, Begin, TypeInv, IdleFits, RunInv
<1>2. ASSUME pc' = "begun", BegunInv' PROVE RunInv'
  BY <1>1, <1>2 DEF RunInv, Running
<1>3. ASSUME pc' = "park", before' = Stores,
             UNCHANGED <<index, dirRow, draft, session, head, dirs>> PROVE RunInv'
  <2>1. Quiet'
    BY <1>3 DEF Quiet, Stores
  <2>2. Now' = Then'
    BY <1>1, <1>3 DEF Now, Then, Stores
  <2>3. Unwindable'
    BY <1>1, <2>2, UnwindStarts
  <2> QED
    BY <1>3, <2>1, <2>3 DEF RunInv
<1>4. ASSUME NEW i \in Ids, NEW title \in Titles, RenameNote(i, title) PROVE RunInv'
  <2> DEFINE j == <<i[1], title>>
  <2>1. /\ j \in Ids /\ j[1] = i[1]
    BY IdParts
  <2>2. /\ file[i] # None /\ Available(j, i) /\ dirs' = dirs
        /\ call'.kind = "renameNote" /\ call'.id = i /\ call'.move = MoveOne(i, j)
        /\ pc' = "begun" /\ UNCHANGED <<draft, session>>
    BY <1>4 DEF RenameNote, Begin, NoCall
  <2>3. MoveOne(i, j)[i] = j
    BY <2>1, MoveOneType
  <2> HIDE DEF j
  <2>4. BegunInv'
    BY <1>0, <1>1, <2>1, <2>2, <2>3 DEF BegunInv, Noting, Moved, NewId, Available, FilesInDirs
  <2> QED
    BY <1>2, <2>2, <2>4
<1>5. ASSUME NEW i \in Ids, NEW d \in Dirs, MoveNote(i, d) PROVE RunInv'
  <2> DEFINE j == <<d, i[2]>>
  <2>1. /\ j \in Ids /\ j[1] = d
    BY IdParts
  <2>2. /\ file[i] # None /\ Available(j, i) /\ dirs' = dirs \cup {d}
        /\ call'.kind = "moveNote" /\ call'.id = i /\ call'.move = MoveOne(i, j)
        /\ pc' = "begun" /\ UNCHANGED <<draft, session>>
    BY <1>5 DEF MoveNote, Begin, NoCall
  <2>3. MoveOne(i, j)[i] = j
    BY ZenonT(60), <2>1, MoveOneType
  <2> HIDE DEF j
  <2>4. BegunInv'
    BY <1>0, <1>1, <2>1, <2>2, <2>3 DEF BegunInv, Noting, Moved, NewId, Available
  <2> QED
    BY <1>2, <2>2, <2>4
<1>6. ASSUME NEW d \in Dirs, NEW e \in Dirs, RenameDirectory(d, e) PROVE RunInv'
  <2>1. /\ e \notin dirs /\ dirs' = dirs /\ call'.kind = "renameDir" /\ call'.newDir = e /\ pc' = "begun"
    BY <1>6 DEF RenameDirectory, Begin, NoCall
  <2>2. BegunInv'
    BY <2>1 DEF BegunInv, Noting
  <2> QED
    BY <1>2, <2>1, <2>2
<1>7. ASSUME NEW i \in Ids, DeleteNote(i) PROVE RunInv'
  BY <1>3, <1>7 DEF DeleteNote, Begin
<1>8. ASSUME NEW d \in Dirs, DeleteDirectory(d) PROVE RunInv'
  BY <1>3, <1>8 DEF DeleteDirectory, Begin
<1>9. ASSUME NEW d \in Dirs, NEW title \in Titles, CreateNote(d, title) PROVE RunInv'
  <2>1. pc' = "publish" /\ call'.kind = "createNote"
    BY <1>9 DEF CreateNote, Begin, NoCall
  <2> QED
    BY <2>1, RunElsewhere DEF Running
<1>10. ASSUME NEW i \in Ids, CreateTarget(i) PROVE RunInv'
  <2>1. pc' = "publish"
    BY <1>10 DEF CreateTarget, Begin
  <2> QED
    BY <2>1, RunElsewhere DEF Running
<1>11. ASSUME NEW i \in Ids, DeleteDraft(i) PROVE RunInv'
  BY <1>1, <1>11, RunElsewhere DEF DeleteDraft, Running
<1>12. ASSUME NEW d \in Dirs, CreateDirectory(d) PROVE RunInv'
  BY <1>1, <1>12, RunElsewhere DEF CreateDirectory, Running
<1> QED
  BY <1>4, <1>5, <1>6, <1>7, <1>8, <1>9, <1>10, <1>11, <1>12 DEF Starts

LEMMA PlanKept ==
    ASSUME UNCHANGED <<plan, before, call>>
    PROVE  /\ FilesPlanned' = FilesPlanned /\ ArrivedFiles' = ArrivedFiles /\ ArrivedDirs' = ArrivedDirs
           /\ Noting' = Noting /\ NewId' = NewId /\ Reidentifying' = Reidentifying
           /\ \A k : Planned(k)' = Planned(k) /\ Moved(k)' = Moved(k)
           /\ PlanInv /\ trash' = trash => PlanInv'
<1>1. /\ FilesPlanned' = FilesPlanned /\ ArrivedDirs' = ArrivedDirs
      /\ Noting' = Noting /\ NewId' = NewId /\ Reidentifying' = Reidentifying
      /\ \A k : Planned(k)' = Planned(k) /\ Moved(k)' = Moved(k)
  BY DEF FilesPlanned, ArrivedDirs, Noting, NewId, Reidentifying, Planned, Moved
<1>2. ArrivedFiles' = ArrivedFiles
  BY <1>1 DEF ArrivedFiles
<1>3. PlanInv /\ trash' = trash => PlanInv'
  BY <1>1 DEF PlanInv
<1> QED
  BY <1>1, <1>2, <1>3

LEMMA PlannedTypes ==
    ASSUME TypeInv
    PROVE  /\ FilesPlanned \in Maybe(Text)
           /\ \A k \in Ids : FilesPlanned[k] = IF Planned(k) THEN plan[k].file ELSE before.file[k]
           /\ before.file \in Maybe(Text) /\ before.dirs \subseteq Dirs
           /\ \A k : Planned(k) => k \in Ids /\ plan[k] \in PlanEntry
<1>1. before.file \in Maybe(Text) /\ before.dirs \subseteq Dirs
  BY DEF TypeInv, StoresType
<1>2. \A k : Planned(k) => k \in Ids /\ plan[k] \in PlanEntry
  BY DEF TypeInv, PlanFits, Planned
<1> QED
  BY <1>1, <1>2 DEF FilesPlanned, Maybe, PlanEntry

LEMMA PlanForFacts ==
    ASSUME NEW k
    PROVE  /\ PlanFor(k).had <=> file[k] # None
           /\ PlanFor(k).file = NewText(file[k], k)
           /\ PlanFor(k).file # None => file[k] # None
BY DEF PlanFor, NewText

LEMMA RunPlan == TypeInv /\ TypeInv' /\ RunInv /\ Plan => RunInv'
<1> SUFFICES ASSUME TypeInv, TypeInv', RunInv, Plan, tidy' PROVE RunInv'
  BY DEF RunInv
<1>1. /\ tidy /\ pc = "begun" /\ before' = Stores /\ journal = <<>>
      /\ UNCHANGED <<file, dirs, trash, index, dirRow, draft, session, head, call, journal>>
  BY DEF Plan, stores, TypeInv, JournalFits
<1>2. BegunInv /\ trash = Nothing /\ TypeOK
  BY <1>1 DEF RunInv, TypeInv
<1>3. CASE \E i \in MovedIds \ call.ids : file[i] = None
  <2>1. pc' = "done"
    BY <1>3 DEF Plan, Refuse
  <2> QED
    BY <2>1, RunElsewhere DEF Running
<1>4. CASE ~\E i \in MovedIds \ call.ids : file[i] = None
  <2> DEFINE D == {k \in Candidates : Touched(k)}
  <2>1. /\ plan' = [i \in D |-> PlanFor(i)] /\ pc' = "write"
        /\ todo' = {i \in DOMAIN plan' : plan'[i].file # None}
    BY <1>4 DEF Plan
  <2>2. before'.file = file /\ before'.dirs = dirs /\ before'.draft = draft /\ before'.session = session
        /\ before'.head = head /\ before'.index = index /\ before'.dirRow = dirRow
    BY <1>1 DEF Stores
  <2>3. Quiet'
    BY <1>1, <2>2 DEF Quiet
  <2>4. Unwindable'
    BY <1>1, <1>2, <2>2, UnwindStarts DEF Now, Then
  <2>5. DOMAIN plan' = D /\ \A k \in D : plan'[k] = PlanFor(k)
    BY <2>1
  <2>6. WriteInv'
    <3>1. \A k : Planned(k)' => k \in todo'
      BY <2>1 DEF Planned
    <3> QED
      BY <1>1, <1>2, <2>2, <3>1 DEF WriteInv, TypeOK, Maybe
  <2>7. PlanInv'
    <3>1. \A k \in DOMAIN plan' :
             /\ plan'[k].had <=> before'.file[k] # None
             /\ plan'[k].file # None => plan'[k].had
      BY <2>2, <2>5, PlanForFacts
    <3>2. ASSUME Noting
          PROVE  /\ file[call.id] # None
                 /\ Moved(call.id) => file[NewId] = None /\ call.id \in D
                 /\ NewId[1] \in dirs
      <4>1. call.id \in Ids
        BY <3>2, NotingFacts
      <4>2. Moved(call.id) => call.id \in D
        BY <1>2, <3>2, <4>1 DEF BegunInv, Candidates, MovedIds, Touched, Held
      <4> QED
        BY <1>2, <3>2, <4>2 DEF BegunInv
    <3>3. call.kind = "renameDir" /\ call.newDir \in dirs => \E i \in In(call.newDir) : file[i] # None
      BY <1>2 DEF BegunInv, Empty
    <3> HIDE DEF D
    <3>4. Noting' = Noting /\ NewId' = NewId /\ Moved(call.id)' = Moved(call.id)
      BY <1>1 DEF Noting, NewId, Moved
    <3>5. Noting' => /\ before'.file[call'.id] # None
                     /\ Moved(call.id)' => before'.file[NewId'] = None /\ call'.id \in DOMAIN plan'
                     /\ NewId'[1] \in before'.dirs
      BY <1>1, <2>2, <2>5, <3>2, <3>4
    <3>6. call'.kind = "renameDir" /\ call'.newDir \in before'.dirs
             => \E i \in In(call'.newDir) : before'.file[i] # None
      BY <1>1, <2>2, <3>3
    <3> QED
      <4>1. trash' = Nothing
        BY <1>1, <1>2
      <4> QED
        BY <4>1, <3>1, <3>5, <3>6 DEF PlanInv
  <2> QED
    BY <2>1, <2>3, <2>4, <2>6, <2>7 DEF RunInv
<1> QED
  BY <1>3, <1>4

LEMMA RunWrite ==
    ASSUME TypeInv, TypeInv', RunInv, NEW i \in Ids, WriteFile(i)
    PROVE  RunInv'
<1> SUFFICES ASSUME tidy' PROVE RunInv'
  BY DEF RunInv
<1>1. /\ tidy /\ pc = "write" /\ pc' = "write" /\ i \in todo
      /\ UNCHANGED <<dirs, trash, index, dirRow, draft, session, head, call, plan, before>>
      /\ file' = [file EXCEPT ![i] = plan[i].file] /\ todo' = todo \ {i}
      /\ journal' = Append(journal, Wrote(i, file[i]))
  BY DEF WriteFile
<1>2. Reidentifying /\ ~Creating /\ Running /\ TypeOK
  BY <1>1, NotingFacts DEF TypeInv, PcFits, Running
<1>3. Quiet /\ Unwindable /\ PlanInv /\ WriteInv
  BY <1>1, <1>2 DEF RunInv
<1>4. PlanInv' /\ Quiet'
  BY <1>1, <1>3, PlanKept DEF Quiet
<1>5. Planned(i)
  BY <1>1 DEF TypeInv, PlanFits, Planned
<1>6. WriteInv'
  <2> DEFINE w(k) == IF Planned(k) /\ k \notin todo THEN plan[k].file ELSE before.file[k]
             v(k) == IF Planned(k) /\ k \notin todo \ {i} THEN plan[k].file ELSE before.file[k]
  <2>1. file = [k \in Ids |-> w(k)]
    BY <1>3 DEF WriteInv
  <2>2. \A k \in Ids : k # i => w(k) = v(k)
    OBVIOUS
  <2>3. v(i) = plan[i].file
    BY <1>5
  <2>4. file' = [k \in Ids |-> v(k)]
    <3> HIDE DEF w, v
    <3> QED
      BY <1>1, <2>1, <2>2, <2>3
  <2>5. \A k : Planned(k)' = Planned(k)
    BY <1>1, PlanKept
  <2> QED
    BY <1>1, <1>3, <2>4, <2>5 DEF WriteInv
<1>7. Unwindable'
  <2>1. Wrote(i, file[i]) \in JournalEntry
    BY <1>2 DEF Wrote, JournalEntry, TypeOK, Maybe
  <2>2. Undone1(Wrote(i, file[i]), Now') = Now
    <3>1. [file' EXCEPT ![i] = file[i]] = file
      BY <1>1, <1>2 DEF TypeOK, Maybe
    <3> QED
      BY <1>1, <3>1 DEF Undone1, UndoneFile, UndoneDirs, UndoneTrash, Now, Wrote
  <2> QED
    BY <1>1, <1>3, <2>1, <2>2, UnwindGrows
<1> QED
  BY <1>1, <1>4, <1>6, <1>7 DEF RunInv

LEMMA RunWritten == TypeInv /\ TypeInv' /\ RunInv /\ FilesWritten => RunInv'
<1> SUFFICES ASSUME TypeInv, TypeInv', RunInv, FilesWritten, tidy' PROVE RunInv'
  BY DEF RunInv
<1>1. /\ tidy /\ pc = "write" /\ pc' = "move" /\ todo = {}
      /\ UNCHANGED <<file, dirs, trash, index, dirRow, draft, session, head, call, plan, before, journal>>
      /\ todo' = IF call.kind = "renameDir" THEN {} ELSE DOMAIN plan \cap MovedIds
  BY DEF FilesWritten, stores
<1>2. Reidentifying /\ ~Creating /\ Running /\ TypeOK
  BY <1>1, NotingFacts DEF TypeInv, PcFits, Running
<1>3. Quiet /\ Unwindable /\ PlanInv /\ WriteInv
  BY <1>1, <1>2 DEF RunInv
<1>4. PlanInv' /\ Quiet' /\ Unwindable'
  BY <1>1, <1>3, PlanKept, UnwindStays DEF Quiet
<1>5. file = FilesPlanned
  BY <1>1, <1>3 DEF WriteInv, FilesPlanned
<1>6. Noting => \/ todo' = {} /\ ~Moved(call.id)
                \/ todo' = {call.id} /\ Moved(call.id)
  <2>1. Noting => DOMAIN plan \cap MovedIds \subseteq {call.id} /\ call.id \in Ids
    BY NotingFacts DEF MovedIds
  <2>2. Noting /\ Moved(call.id) => call.id \in DOMAIN plan
    BY <1>3 DEF PlanInv
  <2> QED
    BY <1>1, <2>1, <2>2, NotingFacts DEF MovedIds
<1>7. MoveInv'
  <2>1. dirs' = before'.dirs
    BY <1>1, <1>3 DEF WriteInv
  <2>2. call.kind = "renameDir" => todo' = {} /\ file' = FilesPlanned
    BY <1>1, <1>5
  <2>3. Noting /\ ~Moved(call.id) => FilesPlanned = ArrivedFiles
    BY NotingFacts DEF ArrivedFiles
  <2>4. /\ FilesPlanned' = FilesPlanned /\ ArrivedFiles' = ArrivedFiles /\ Noting' = Noting
        /\ Moved(call.id)' = Moved(call.id)
    BY <1>1, PlanKept
  <2>5. Noting => /\ todo' = {} \/ (todo' = {call.id} /\ Moved(call.id))
                  /\ file' = IF todo' = {} THEN ArrivedFiles ELSE FilesPlanned
    BY <1>1, <1>5, <1>6, <2>3
  <2> QED
    BY <1>1, <2>1, <2>2, <2>4, <2>5 DEF MoveInv
<1> QED
  BY <1>1, <1>4, <1>7 DEF RunInv

LEMMA RunMove ==
    ASSUME TypeInv, TypeInv', RunInv, NEW i \in Ids, MoveFile(i)
    PROVE  RunInv'
<1> SUFFICES ASSUME tidy' PROVE RunInv'
  BY DEF RunInv
<1>1. /\ tidy /\ pc = "move" /\ pc' = "move" /\ i \in todo
      /\ UNCHANGED <<trash, index, dirRow, draft, session, head, call, plan, before>>
      /\ file' = Renamed(i) /\ todo' = todo \ {i} /\ dirs' = dirs \cup {call.move[i][1]}
      /\ journal' = Append(journal, MovedFile(i))
  BY DEF MoveFile
<1>2. Reidentifying /\ ~Creating /\ Running /\ TypeOK
  BY <1>1, NotingFacts DEF TypeInv, PcFits, Running
<1>3. Quiet /\ Unwindable /\ PlanInv /\ MoveInv
  BY <1>1, <1>2 DEF RunInv
<1>4. PlanInv' /\ Quiet'
  BY <1>1, <1>3, PlanKept DEF Quiet
<1>5. /\ Noting /\ i = call.id /\ Moved(i) /\ todo = {i} /\ file = FilesPlanned
      /\ call.kind # "renameDir" /\ call.move[i] = NewId /\ NewId \in Ids /\ NewId # i
  <2>1. Noting /\ call.kind # "renameDir"
    BY <1>1, <1>2, <1>3, NotingFacts DEF MoveInv
  <2>2. i = call.id /\ Moved(i) /\ todo = {i} /\ file = FilesPlanned
    BY <1>1, <1>3, <2>1 DEF MoveInv
  <2> QED
    BY <2>1, <2>2, NotingFacts DEF NewId, Moved
<1>6. dirs' = dirs /\ dirs = before.dirs
  BY <1>1, <1>3, <1>5 DEF MoveInv, PlanInv
<1>7. file' = ArrivedFiles
  BY <1>1, <1>5 DEF ArrivedFiles, Renamed
<1>8. MoveInv'
  <2>1. todo' = {}
    BY <1>1, <1>5
  <2> QED
    BY <1>1, <1>5, <1>6, <1>7, <2>1, PlanKept DEF MoveInv
<1>9. Unwindable'
  <2>1. MovedFile(i) \in JournalEntry
    BY DEF MovedFile, JournalEntry
  <2>2. file[NewId] = None
    <3>1. before.file[NewId] = None /\ ~Planned(NewId)
      BY <1>3, <1>5 DEF PlanInv, Planned
    <3> QED
      BY <1>5, <3>1, PlannedTypes
  <2>3. [k \in Ids |-> IF k = i THEN file'[call.move[k]]
                       ELSE IF k = call.move[i] THEN None ELSE file'[k]] = file
    BY <1>1, <1>2, <1>5, <2>2 DEF Renamed, TypeOK, Maybe
  <2>4. Undone1(MovedFile(i), Now') = Now
    BY <1>1, <1>6, <2>3 DEF Undone1, UndoneFile, UndoneDirs, UndoneTrash, Now, MovedFile
  <2> QED
    BY <1>1, <1>3, <2>1, <2>4, UnwindGrows
<1> QED
  BY <1>1, <1>4, <1>8, <1>9 DEF RunInv

LEMMA ShiftBack ==
    ASSUME NEW f \in Maybe(Text), NEW d \in Dirs, NEW e \in Dirs, d # e,
           \A i \in In(e) : f[i] = None
    PROVE  ShiftDir(ShiftDir(f, d, e), e, d) = f
<1> DEFINE g == ShiftDir(f, d, e)
<1>1. \A i \in Ids : /\ <<d, i[2]>> \in Ids /\ <<e, i[2]>> \in Ids
                     /\ <<e, i[2]>>[1] = e /\ <<e, i[2]>>[2] = i[2]
                     /\ i[1] = d => <<d, i[2]>> = i
  BY IdParts
<1>2. \A i \in Ids : g[i] = IF i[1] = e THEN f[<<d, i[2]>>] ELSE IF i[1] = d THEN None ELSE f[i]
  BY DEF ShiftDir
<1> HIDE DEF g
<1>3. \A i \in Ids : (IF i[1] = d THEN g[<<e, i[2]>>] ELSE IF i[1] = e THEN None ELSE g[i]) = f[i]
  BY <1>1, <1>2 DEF In
<1>4. ShiftDir(g, e, d) = [i \in Ids |-> f[i]]
  BY <1>3 DEF ShiftDir
<1> QED
  BY <1>4 DEF g, Maybe

LEMMA RunMoveDir == TypeInv /\ TypeInv' /\ RunInv /\ MoveDir => RunInv'
<1> SUFFICES ASSUME TypeInv, TypeInv', RunInv, MoveDir, tidy' PROVE RunInv'
  BY DEF RunInv
<1>1. /\ tidy /\ pc = "move" /\ pc' = "record" /\ call.kind = "renameDir" /\ call.dir \in dirs
      /\ Empty(call.newDir)
      /\ UNCHANGED <<trash, index, dirRow, draft, session, head, call, plan, before>>
      /\ file' = ShiftDir(file, call.dir, call.newDir) /\ dirs' = (dirs \ {call.dir}) \cup {call.newDir}
      /\ journal' = Append(journal, MovedDir)
  BY DEF MoveDir
<1>2. Reidentifying /\ ~Creating /\ ~Deleting /\ Running /\ TypeOK
  BY <1>1, NotingFacts DEF TypeInv, PcFits, Running
<1>3. Quiet /\ Unwindable /\ PlanInv /\ MoveInv
  BY <1>1, <1>2 DEF RunInv
<1>4. PlanInv' /\ Quiet'
  BY <1>1, <1>3, PlanKept DEF Quiet
<1>5. file = FilesPlanned /\ dirs = before.dirs /\ \A i \in In(call.newDir) : file[i] = None
  BY <1>1, <1>3 DEF MoveInv, Empty
<1>6. RecordInv'
  <2>1. file' = ArrivedFiles /\ dirs' = ArrivedDirs
    BY <1>1, <1>5 DEF ArrivedFiles, ArrivedDirs
  <2>2. In(call'.newDir) = In(call.newDir)
    BY <1>1
  <2> QED
    BY <1>1, <1>5, <2>1, <2>2, PlanKept DEF RecordInv
<1>7. call.newDir \notin dirs
  <2> SUFFICES ASSUME call.newDir \in before.dirs PROVE FALSE
    BY <1>5
  <2>1. PICK i \in In(call.newDir) : before.file[i] # None
    BY <1>1, <1>3 DEF PlanInv
  <2>2. i \in Ids /\ file[i] = None
    BY <1>5, <2>1, IdParts
  <2> QED
    BY <1>5, <2>1, <2>2, PlannedTypes DEF Planned
<1>8. Unwindable'
  <2>1. MovedDir \in JournalEntry
    BY DEF MovedDir, JournalEntry
  <2>2. call.dir \in Dirs /\ call.newDir \in Dirs /\ call.dir # call.newDir
    BY <1>1, NotingFacts
  <2>3. ShiftDir(file', call.newDir, call.dir) = file
    BY <1>1, <1>2, <1>5, <2>2, ShiftBack DEF TypeOK
  <2>4. (dirs' \ {call.newDir}) \cup {call.dir} = dirs
    BY <1>1, <1>7, <2>2
  <2>5. Undone1(MovedDir, Now') = Now
    BY <1>1, <2>3, <2>4 DEF Undone1, UndoneFile, UndoneDirs, UndoneTrash, Now, MovedDir
  <2> QED
    BY <1>1, <1>3, <2>1, <2>5, UnwindGrows
<1> QED
  BY <1>1, <1>2, <1>4, <1>6, <1>8 DEF RunInv, Deleting

LEMMA RunMoved == TypeInv /\ RunInv /\ FilesMoved => RunInv'
<1> SUFFICES ASSUME TypeInv, RunInv, FilesMoved, tidy' PROVE RunInv'
  BY DEF RunInv
<1>1. /\ tidy /\ pc = "move" /\ pc' = "record" /\ todo = {} /\ call.kind # "renameDir"
      /\ UNCHANGED <<file, dirs, trash, index, dirRow, draft, session, head, call, plan, before, journal>>
  BY DEF FilesMoved, stores
<1>2. Reidentifying /\ ~Creating /\ ~Deleting /\ Running /\ Noting
  BY <1>1, NotingFacts DEF TypeInv, PcFits, Running
<1>3. Quiet /\ Unwindable /\ PlanInv /\ MoveInv
  BY <1>1, <1>2 DEF RunInv
<1>4. PlanInv' /\ Quiet' /\ Unwindable'
  BY <1>1, <1>3, PlanKept, UnwindStays DEF Quiet
<1>5. file = ArrivedFiles /\ dirs = ArrivedDirs
  BY <1>1, <1>2, <1>3 DEF MoveInv, ArrivedDirs
<1>6. RecordInv'
  BY <1>1, <1>5, PlanKept DEF RecordInv
<1> QED
  BY <1>1, <1>2, <1>4, <1>6 DEF RunInv, Deleting

LEMMA RunReidentifies == TypeInv /\ TypeInv' /\ RunInv /\ Reidentifies => RunInv'
<1> SUFFICES ASSUME TypeInv, TypeInv', RunInv, Reidentifies PROVE RunInv'
  OBVIOUS
<1>1. CASE PlanFails \/ RecordMove \/ SettleMove \/ Answer \/ AnswerFails
  <2>1. pc' \in {"done", "commit", "answer"}
    BY <1>1 DEF PlanFails, RecordMove, SettleMove, Answer, AnswerFails, Refuse
  <2> QED
    BY <2>1, RunElsewhere DEF Running
<1> QED
  BY <1>1, RunPlan, RunWrite, RunWritten, RunMove, RunMoveDir, RunMoved DEF Reidentifies

LEMMA RunDeletes == TypeInv /\ TypeInv' /\ FoldersInv /\ RunInv /\ Deletes => RunInv'
<1> SUFFICES ASSUME TypeInv, TypeInv', FoldersInv, RunInv, Deletes, tidy' PROVE RunInv'
  BY DEF RunInv
<1>1. CASE RecordDeletion \/ SettleDeletion
  <2>1. pc' \in {"done", "commit"}
    BY <1>1 DEF RecordDeletion, SettleDeletion
  <2> QED
    BY <2>1, RunElsewhere DEF Running
<1>2. CASE Park
  <2>1. /\ tidy /\ pc = "park" /\ pc' = "record" /\ UNCHANGED <<index, dirRow, draft, session, head, call, before>>
        /\ \A i \in Scope : trash[i] = None
        /\ trash' = [i \in Ids |-> IF i \in Scope THEN file[i] ELSE trash[i]]
        /\ file' = [i \in Ids |-> IF i \in Scope THEN None ELSE file[i]]
        /\ dirs' = dirs \ {call.dir}
        /\ journal' = IF call.dir \in dirs \/ \E i \in Scope : file[i] # None
                      THEN Append(journal, Parked) ELSE journal
    BY <1>2 DEF Park
  <2>2. Deleting /\ ~Creating /\ ~Reidentifying /\ Running /\ journal = <<>> /\ TypeOK /\ CallFits
    BY <2>1, NotingFacts DEF TypeInv, PcFits, Running, JournalFits
  <2>3. Quiet /\ Unwindable /\ Now = Then
    BY <2>1, <2>2, UnwindEmpty DEF RunInv
  <2>4. file = before.file /\ dirs = before.dirs /\ trash = Nothing
    BY <2>3 DEF Now, Then
  <2>5. Quiet'
    BY <2>1, <2>3 DEF Quiet
  <2>6. Scope' = Scope /\ Scope \subseteq Ids
    BY <2>1, <2>2, IdParts DEF Scope, CallFits, Deleting
  <2>7. DeletedInv'
    BY <2>1, <2>4, <2>6 DEF DeletedInv, Nothing
  <2>8. Unwindable'
    <3>1. CASE journal' = Append(journal, Parked)
      <4>1. Parked \in JournalEntry
        BY DEF Parked, JournalEntry
      <4>2. [i \in Ids |-> IF i \in Scope THEN trash'[i] ELSE file'[i]] = file
        BY <2>1, <2>2 DEF TypeOK, Maybe
      <4>3. [i \in Ids |-> IF i \in Scope THEN None ELSE trash'[i]] = trash
        BY <2>1, <2>2 DEF TypeOK, Maybe
      <4>4. (IF call.dir \in before.dirs THEN dirs' \cup {call.dir} ELSE dirs') = dirs
        BY <2>1, <2>4
      <4>5. Undone1(Parked, Now') = Now
        BY <4>2, <4>3, <4>4 DEF Undone1, UndoneFile, UndoneDirs, UndoneTrash, Now, Parked
      <4> QED
        BY <2>1, <2>3, <3>1, <4>1, <4>5, UnwindGrows
    <3>2. CASE ~(call.dir \in dirs \/ \E i \in Scope : file[i] # None)
      <4>1. file' = file /\ trash' = trash
        BY <2>1, <2>2, <3>2 DEF TypeOK, Maybe
      <4>2. dirs' = dirs /\ journal' = journal
        BY <2>1, <3>2
      <4> QED
        BY <2>1, <2>3, <4>1, <4>2, UnwindStays
    <3> QED
      BY <2>1, <3>1, <3>2
  <2> QED
    BY <2>1, <2>2, <2>5, <2>7, <2>8 DEF RunInv, Reidentifying
<1> QED
  BY <1>1, <1>2 DEF Deletes

LEMMA RunCreates == TypeInv /\ TypeInv' /\ RunInv /\ Creates => RunInv'
<1> SUFFICES ASSUME TypeInv, TypeInv', RunInv, Creates PROVE RunInv'
  OBVIOUS
<1>1. Creating /\ call' = call /\ pc' \in {"record", "done", "open", "takeback", "commit"}
  BY DEF Creates, Publish, PublishFails, RecordCreation, RecordCreationFails, OpenCreated,
         OpenCreatedFails, TakeBack, TakeBackFails, Refuse, TypeInv, PcFits
<1> QED
  BY <1>1, RunElsewhere DEF Running, Creating, Reidentifying, Deleting

LEMMA RunUnwinds == TypeInv /\ TypeInv' /\ RunInv /\ (Unwinds \/ Commit) => RunInv'
<1> SUFFICES ASSUME TypeInv, TypeInv', RunInv, Unwinds \/ Commit, tidy' PROVE RunInv'
  BY DEF RunInv
<1>1. CASE StepFails
  <2>1. /\ tidy /\ pc' = "undo" /\ Running
        /\ UNCHANGED <<file, dirs, trash, index, dirRow, draft, session, head, call, journal, before>>
    BY <1>1 DEF StepFails, stores, Running
  <2>2. Quiet /\ Unwindable
    BY <2>1 DEF RunInv
  <2>3. Quiet' /\ Unwindable'
    BY <2>1, <2>2, UnwindStays DEF Quiet
  <2> QED
    BY <2>1, <2>3 DEF RunInv
<1>2. CASE Undo
  <2>1. /\ tidy /\ pc = "undo" /\ pc' = "undo" /\ journal # <<>> /\ ~Creating
        /\ UNCHANGED <<index, dirRow, draft, session, head, call, before>>
        /\ file' = UndoFile /\ dirs' = UndoDirs
        /\ trash' = IF Last.step = "parked" THEN [i \in Ids |-> IF i \in Scope THEN None ELSE trash[i]] ELSE trash
        /\ journal' = SubSeq(journal, 1, Len(journal) - 1)
    BY <1>2 DEF Undo, TypeInv, PcFits
  <2>2. Quiet /\ Unwindable
    BY <2>1 DEF RunInv, Running
  <2>3. Now' = Undone1(Last, Now)
    <3>1. UndoFile = UndoneFile(Last, Now)
      BY DEF UndoFile, UndoneFile, Now
    <3>2. UndoDirs = UndoneDirs(Last, Now)
      BY DEF UndoDirs, UndoneDirs, Now
    <3> QED
      BY <2>1, <3>1, <3>2 DEF Undone1, UndoneTrash, Now
  <2>4. Unwindable'
    BY <2>1, <2>2, <2>3, UnwindShrinks
  <2>5. Quiet'
    BY <2>1, <2>2 DEF Quiet
  <2> QED
    BY <2>1, <2>4, <2>5 DEF RunInv
<1>3. CASE UndoFails
  BY <1>3 DEF UndoFails, RunInv
<1>4. CASE Undone \/ Commit
  <2>1. pc' \in {"done", "settle"}
    BY <1>4 DEF Undone, Refuse, Commit
  <2> QED
    BY <2>1, RunElsewhere DEF Running
<1> QED
  BY <1>1, <1>2, <1>3, <1>4 DEF Unwinds

LEMMA RunRescans ==
    ASSUME TypeInv, RunInv, tidy /\ pc = "done" => trash = Nothing,
           Crash \/ Rescan \/ Reindex \/ Return
    PROVE  RunInv'
<1> SUFFICES ASSUME tidy' PROVE RunInv'
  BY DEF RunInv
<1>1. trash' = Nothing /\ pc' \in {"idle", "rescan"}
  BY DEF Crash, Rescan, Reindex, Return, RunInv, stores
<1> QED
  BY <1>1, RunElsewhere DEF Running

LEMMA RunNext ==
    ASSUME TypeInv, TypeInv', FoldersInv, RunInv, tidy /\ pc = "done" => trash = Nothing, [Next]_vars
    PROVE  RunInv'
<1>1. CASE UNCHANGED vars
  <2>1. /\ UNCHANGED <<file, dirs, trash, index, dirRow, draft, session, head, pc, call, plan, todo,
                       journal, before, tidy>>
        /\ UNCHANGED <<plan, before, call>>
    BY <1>1 DEF vars
  <2>2. /\ Quiet => Quiet'
        /\ BegunInv => BegunInv'
        /\ DeletedInv => DeletedInv'
        /\ Running' = Running /\ Reidentifying' = Reidentifying /\ Deleting' = Deleting
    BY <2>1 DEF Quiet, BegunInv, DeletedInv, Running, Reidentifying, Deleting, Creating, Noting,
         NewId, Moved, Empty, Scope
  <2>3. /\ PlanInv => PlanInv'
        /\ WriteInv => WriteInv'
        /\ MoveInv => MoveInv'
        /\ RecordInv => RecordInv'
    BY <2>1, PlanKept DEF WriteInv, MoveInv, RecordInv
  <2>4. Unwindable => Unwindable'
    BY <2>1, UnwindStays
  <2> QED
    BY <2>1, <2>2, <2>3, <2>4 DEF RunInv
<1> QED
  BY <1>1, RunSessions, RunStarts, RunReidentifies, RunDeletes, RunCreates, RunUnwinds, RunRescans
     DEF Next, Operates

-----------------------------------------------------------------------------
(* What an operation leaves. While a creation is under way nothing but it is *)
(* at its id, so that taking it back leaves nothing there.                   *)
CreateInv ==
    tidy /\ Creating =>
      /\ pc \in {"publish", "record", "open", "takeback"} => trash = Nothing
      /\ pc = "publish" => file[call.id] = None
      /\ pc \in {"publish", "record"} => index[call.id] = None
      /\ pc \in {"publish", "record", "open"} => draft[call.id] = None

(* A commit names every file the operation changed; only a deletion parks    *)
(* files, those in its scope.                                                *)
ChangesStaged == \A i \in Ids : file[i] # before.file[i] => i \in Staged
ParkedInScope == \A i \in Ids : trash[i] # None => Deleting /\ i \in Scope
StagedCommitted == \A i \in Staged : head[i] = file[i]

(* From the transaction to the answer: what the commit named is in HEAD      *)
(* unless it warned, and the answer tells the truth.                         *)
AfterInv ==
    tidy =>
      /\ pc \in {"commit", "settle", "answer"} => ParkedInScope /\ (~Creating => ChangesStaged)
      /\ pc \in {"settle", "answer"} /\ ~outcome.warned => StagedCommitted
      /\ pc \in {"commit", "settle", "answer"} /\ Noting => file[NewId] # None
      /\ pc = "answer" => Noting /\ outcome.result = "applied"
      /\ pc = "done" => trash = Nothing
      /\ ~AnswersFail => AllOrNothing
      /\ ChangesCommitted

LEMMA CreateStarts == TypeInv /\ RunInv /\ Starts => CreateInv'
<1> SUFFICES ASSUME TypeInv, RunInv, Starts, tidy', Creating' PROVE CreateInv'
  BY DEF CreateInv
<1>1. pc = "idle" /\ tidy /\ trash = Nothing /\ trash' = trash /\ call = NoCall
      /\ UNCHANGED <<file, index>>
  BY ZenonT(60) DEF Starts, RenameNote, MoveNote, RenameDirectory, DeleteNote, DeleteDraft, DeleteDirectory,
         CreateNote, CreateTarget, CreateDirectory, Begin, TypeInv, IdleFits, RunInv
<1>2. ASSUME NEW c, Begin(c, "publish"), Available(c.id, None), c.id # None PROVE CreateInv'
  BY <1>1, <1>2 DEF Begin, Available, CreateInv
<1>3. ASSUME NEW d \in Dirs, NEW title \in Titles, CreateNote(d, title) PROVE CreateInv'
  <2> DEFINE c == [NoCall EXCEPT !.kind = "createNote", !.id = <<d, title>>, !.ids = {<<d, title>>}]
  <2>1. Begin(c, "publish") /\ Available(<<d, title>>, None) /\ <<d, title>> # None
    BY <1>3, IdParts, NoneAssumption DEF CreateNote
  <2>2. c.id = <<d, title>>
    BY DEF NoCall
  <2> HIDE DEF c
  <2> QED
    BY <1>2, <2>1, <2>2
<1>4. ASSUME NEW i \in Ids, CreateTarget(i) PROVE CreateInv'
  <2> DEFINE c == [NoCall EXCEPT !.kind = "createTarget", !.id = i, !.ids = {i},
                                 !.rows = {i[1]} \ (dirRow \cup {Root}), !.made = i[1] \notin dirs]
  <2>1. Begin(c, "publish") /\ Available(i, None) /\ i # None
    BY <1>4, NoneAssumption DEF CreateTarget
  <2>2. c.id = i
    BY DEF NoCall
  <2> HIDE DEF c
  <2> QED
    BY <1>2, <2>1, <2>2
<1>5. CASE pc' # "publish"
  <2>1. pc' \in {"idle", "begun", "park"}
    BY <1>1, <1>5, Zenon DEF Starts, RenameNote, MoveNote, RenameDirectory, DeleteNote, DeleteDraft, DeleteDirectory,
         CreateNote, CreateTarget, CreateDirectory, Begin
  <2> QED
    BY <2>1 DEF CreateInv
<1>6. CASE pc' = "publish"
  BY <1>1, <1>3, <1>4, <1>6 DEF Starts, RenameNote, MoveNote, RenameDirectory, DeleteNote, DeleteDraft,
     DeleteDirectory, CreateDirectory, Begin
<1> QED
  BY <1>5, <1>6

LEMMA CreateSessions == TypeInv /\ DraftsInv /\ CreateInv /\ (Sessions \/ Guests) => CreateInv'
<1> SUFFICES ASSUME TypeInv, DraftsInv, CreateInv, Sessions, tidy', Creating' PROVE CreateInv'
  BY DEF Guests, GuestWrites, GuestRemoves, Guest, CreateInv
<1>0. TypeOK
  BY DEF TypeInv
<1>1. PICK i \in Ids : Open(i) \/ Flush(i) \/ Close(i)
  BY DEF Sessions
<1>2. UNCHANGED <<pc, call, trash, tidy>> /\ Creating
  BY <1>1 DEF Open, Flush, Close, Creating
<1>3. CASE pc \in {"publish", "record", "open", "takeback"}
  <2>1. call.id # i /\ call.id \in Ids
    BY <1>1, <1>2, <1>3 DEF DraftsInv, Open, Flush, Close, TypeInv, CallFits
  <2>2. file'[call.id] = file[call.id] /\ index'[call.id] = index[call.id] /\ draft'[call.id] = draft[call.id]
    BY <1>0, <1>1, <2>1 DEF Open, Flush, Close, TypeOK, Maybe
  <2> QED
    BY <1>2, <2>2 DEF CreateInv
<1>4. CASE pc \notin {"publish", "record", "open", "takeback"}
  BY <1>2, <1>4 DEF CreateInv
<1> QED
  BY <1>3, <1>4

LEMMA CreateSteps == TypeInv /\ CreateInv /\ Creates => CreateInv'
<1> SUFFICES ASSUME TypeInv, CreateInv, Creates, tidy' PROVE CreateInv'
  BY DEF CreateInv
<1>0. TypeOK
  BY DEF TypeInv
<1>1. Creating /\ call' = call /\ call.id \in Ids
  <2>1. Creating /\ call' = call
    BY DEF Creates, Publish, PublishFails, RecordCreation, RecordCreationFails, OpenCreated,
         OpenCreatedFails, TakeBack, TakeBackFails, TypeInv, PcFits
  <2> QED
    BY <2>1 DEF TypeInv, CallFits
<1>2. tidy /\ trash' = trash
  BY DEF Creates, Publish, PublishFails, RecordCreation, RecordCreationFails, OpenCreated,
         OpenCreatedFails, TakeBack, TakeBackFails, stores
<1>3. CASE Publish
  BY <1>0, <1>1, <1>2, <1>3 DEF Publish, CreateInv, TypeOK, Maybe
<1>4. CASE RecordCreation
  BY <1>0, <1>1, <1>2, <1>4 DEF RecordCreation, CreateInv, TypeOK, Maybe
<1>5. CASE RecordCreationFails \/ OpenCreatedFails
  BY <1>1, <1>2, <1>5 DEF RecordCreationFails, OpenCreatedFails, CreateInv, stores
<1>6. CASE PublishFails \/ OpenCreated \/ TakeBack \/ TakeBackFails
  <2>1. pc' \in {"done", "commit"}
    BY <1>6 DEF PublishFails, OpenCreated, TakeBack, TakeBackFails, Refuse
  <2> QED
    BY <2>1 DEF CreateInv
<1> QED
  BY <1>3, <1>4, <1>5, <1>6 DEF Creates

LEMMA CreateNext ==
    ASSUME TypeInv, TypeInv', DraftsInv, RunInv, CreateInv, [Next]_vars
    PROVE  CreateInv'
<1>1. CASE UNCHANGED vars
  BY <1>1 DEF vars, CreateInv, Creating
<1>2. CASE Crash \/ Rescan \/ Reindex \/ Return
  <2>1. pc' \in {"idle", "rescan"}
    BY <1>2 DEF Crash, Rescan, Reindex, Return
  <2> QED
    BY <2>1 DEF CreateInv
<1>3. CASE Reidentifies \/ Deletes \/ Unwinds
  <2>1. call' = call /\ ~Creating
    <3>1. CASE Reidentifies
      BY <3>1 DEF Reidentifies, Plan, PlanFails, FilesWritten, MoveDir, FilesMoved, RecordMove, SettleMove,
         Answer, AnswerFails, WriteFile, MoveFile, TypeInv, PcFits, Creating, Reidentifying
    <3>2. CASE Deletes
      BY <3>2 DEF Deletes, Park, RecordDeletion, SettleDeletion, TypeInv, PcFits, Creating, Deleting
    <3>3. CASE Unwinds
      BY <3>3 DEF Unwinds, StepFails, Undo, UndoFails, Undone, TypeInv, PcFits
    <3> QED
      BY <1>3, <3>1, <3>2, <3>3
  <2> QED
    BY <2>1 DEF CreateInv, Creating
<1>4. CASE Commit
  <2>1. pc' \in {"done", "settle"}
    BY <1>4 DEF Commit
  <2> QED
    BY <2>1 DEF CreateInv
<1> QED
  BY <1>1, <1>2, <1>3, <1>4, CreateStarts, CreateSessions, CreateSteps DEF Next, Operates

LEMMA AfterInit == Init => AfterInv
BY DEF Init, AfterInv, AllOrNothing, ChangesCommitted

LEMMA AfterElsewhere ==
    ASSUME pc' \notin {"commit", "settle", "answer", "done"}
    PROVE  AfterInv'
BY DEF AfterInv, AllOrNothing, ChangesCommitted

(* The commit of a rename has staged every file it changed.                  *)
LEMMA MoveStages ==
    ASSUME TypeInv, Reidentifying, PlanInv, RecordInv
    PROVE  ChangesStaged /\ (Noting => file[NewId] # None)
<1>0. TypeOK /\ call.move \in [Ids -> Ids]
  BY NotingFacts DEF TypeInv
<1>1. \A k \in Ids : FilesPlanned[k] # before.file[k] => k \in DOMAIN plan /\ plan[k].had
  BY PlannedTypes DEF PlanInv, Planned
<1>2. \A k \in DOMAIN plan : plan[k].had => k \in Staged /\ call.move[k] \in Staged
  BY DEF Staged
<1>3. CASE Noting
  <2>1. /\ call.id \in Ids /\ NewId \in Ids /\ call.kind # "renameDir" /\ NewId = call.move[call.id]
    BY <1>3, NotingFacts DEF NewId
  <2>2. FilesPlanned[call.id] # None
    BY <1>3, <2>1, PlannedTypes DEF PlanInv, Planned
  <2>3. CASE Moved(call.id)
    <3>1. file = [k \in Ids |-> IF k = NewId THEN FilesPlanned[call.id]
                                ELSE IF k = call.id THEN None ELSE FilesPlanned[k]]
      BY <2>1, <2>3 DEF RecordInv, ArrivedFiles
    <3>2. call.id \in Staged /\ NewId \in Staged
      BY <1>2, <1>3, <2>1, <2>3 DEF PlanInv
    <3> QED
      BY <1>1, <1>2, <2>1, <2>2, <3>1, <3>2 DEF ChangesStaged
  <2>4. CASE ~Moved(call.id)
    <3>1. file = FilesPlanned /\ NewId = call.id
      BY <2>1, <2>4 DEF RecordInv, ArrivedFiles, Moved
    <3> QED
      BY <1>1, <1>2, <2>1, <2>2, <3>1 DEF ChangesStaged
  <2> QED
    BY <2>3, <2>4
<1>4. CASE call.kind = "renameDir"
  <2>1. /\ call.dir \in Dirs /\ call.newDir \in Dirs /\ call.dir # call.newDir
    BY <1>4, NotingFacts
  <2>2. file = ShiftDir(FilesPlanned, call.dir, call.newDir)
    BY <1>4 DEF RecordInv, ArrivedFiles
  <2>3. \A i \in In(call.dir) : i \in Staged
    BY <1>4 DEF Staged, Reidentifying
  <2>4. \A i \in In(call.newDir) : file[i] # None => i \in Staged
    BY <1>4 DEF Staged, Reidentifying
  <2>5. ASSUME NEW i \in Ids, file[i] # before.file[i] PROVE i \in Staged
    <3>1. CASE i[1] = call.newDir
      <4>1. i \in In(call.newDir)
        BY <3>1 DEF In
      <4>2. FilesPlanned[i] = None
        BY <1>4, <4>1 DEF RecordInv
      <4> QED
        BY <1>1, <1>2, <2>4, <2>5, <4>1, <4>2
    <3>2. CASE i[1] = call.dir
      BY <2>3, <3>2 DEF In
    <3>3. CASE i[1] # call.dir /\ i[1] # call.newDir
      <4>1. file[i] = FilesPlanned[i]
        BY <2>2, <3>3 DEF ShiftDir
      <4> QED
        BY <1>1, <1>2, <2>5, <4>1
    <3> QED
      BY <3>1, <3>2, <3>3
  <2> QED
    BY <1>4, <2>5, NotingFacts DEF ChangesStaged
<1> QED
  BY <1>3, <1>4, NotingFacts

LEMMA AfterStays ==
    ASSUME UNCHANGED <<file, before, plan, call, trash, head>>
    PROVE  /\ ChangesStaged' = ChangesStaged /\ ParkedInScope' = ParkedInScope
           /\ StagedCommitted' = StagedCommitted
           /\ Noting' = Noting /\ Creating' = Creating /\ (file[NewId])' = file[NewId]
<1>1. Staged' = Staged /\ Scope' = Scope /\ NewId' = NewId
  BY DEF Staged, Scope, Reidentifying, Deleting, NewId
<1> QED
  BY <1>1 DEF ChangesStaged, ParkedInScope, StagedCommitted, Noting, Creating, Deleting

LEMMA ParkedNone == TypeInv /\ ParkedInScope /\ ~Deleting => trash = Nothing
BY DEF TypeInv, TypeOK, ParkedInScope, Nothing, Maybe

(* An operation that is done, and refused, or applied.                       *)
LEMMA AfterRefused ==
    ASSUME pc' = "done", outcome'.result = "refused", trash' = Nothing,
           ~AnswersFail => AllOrNothing'
    PROVE  AfterInv'
BY DEF AfterInv, ChangesCommitted

LEMMA AfterApplied ==
    ASSUME pc' = "done", outcome'.result = "applied", trash' = Nothing, ChangesCommitted'
    PROVE  AfterInv'
BY DEF AfterInv, AllOrNothing

LEMMA AfterReidentifies == TypeInv /\ TypeInv' /\ RunInv /\ AfterInv /\ Reidentifies => AfterInv'
<1> SUFFICES ASSUME TypeInv, TypeInv', RunInv, AfterInv, Reidentifies, tidy' PROVE AfterInv'
  BY DEF AfterInv
<1>1. Reidentifying /\ call' = call /\ tidy /\ ~Creating /\ ~Deleting /\ ~Creating'
  <2>1. Reidentifying /\ call' = call /\ tidy
    BY DEF Reidentifies, Plan, PlanFails, FilesWritten, MoveDir, FilesMoved, RecordMove, SettleMove,
         Answer, AnswerFails, WriteFile, MoveFile, TypeInv, PcFits
  <2> QED
    BY <2>1, NotingFacts DEF Creating
<1>2. ASSUME Plan \/ PlanFails, Refuse(FALSE) PROVE AfterInv'
  <2>1. /\ pc = "begun" /\ pc' = "done" /\ before' = Stores /\ UNCHANGED stores
        /\ outcome'.result = "refused"
    BY <1>2 DEF Plan, PlanFails, Refuse, TypeInv
  <2>2. trash = Nothing
    BY <1>1, <2>1 DEF RunInv
  <2>3. AllOrNothing'
    BY <1>1, <2>1, <2>2 DEF AllOrNothing, Unchanged, Stores, stores
  <2> QED
    BY <2>1, <2>2, <2>3, AfterRefused DEF stores
<1>3. CASE Plan /\ ~Refuse(FALSE)
  <2>1. pc' = "write"
    BY <1>3 DEF Plan
  <2> QED
    BY <2>1, AfterElsewhere
<1>4. CASE FilesWritten \/ MoveDir \/ FilesMoved \/ \E i \in Ids : WriteFile(i) \/ MoveFile(i)
  <2>1. pc' \in {"write", "move", "record"}
    BY <1>4 DEF FilesWritten, MoveDir, FilesMoved, WriteFile, MoveFile
  <2> QED
    BY <2>1, AfterElsewhere
<1>5. CASE RecordMove
  <2>1. /\ pc = "record" /\ pc' = "commit" /\ UNCHANGED <<file, before, plan, call, trash, head>>
    BY <1>5 DEF RecordMove
  <2>2. PlanInv /\ RecordInv
    BY <1>1, <2>1 DEF RunInv
  <2>3. ChangesStaged /\ (Noting => file[NewId] # None) /\ ParkedInScope
    BY <1>1, <2>2, MoveStages DEF PlanInv, ParkedInScope, Nothing
  <2> QED
    BY <2>1, <2>3, AfterStays DEF AfterInv, AllOrNothing, ChangesCommitted
<1>6. CASE SettleMove
  <2>1. /\ pc = "settle" /\ UNCHANGED <<file, before, plan, call, trash, head>>
        /\ outcome' = Applied /\ pc' = IF call.kind = "renameDir" THEN "done" ELSE "answer"
    BY <1>6 DEF SettleMove
  <2>2. /\ ParkedInScope /\ ChangesStaged /\ (~outcome.warned => StagedCommitted)
        /\ (Noting => file[NewId] # None)
    BY <1>1, <2>1 DEF AfterInv
  <2>3. outcome'.result = "applied" /\ outcome'.warned = outcome.warned
    BY <2>1 DEF Applied, TypeInv
  <2>4. CASE call.kind = "renameDir"
    <3>1. ChangesCommitted'
      BY <1>1, <2>1, <2>2, <2>3 DEF ChangesCommitted, ChangesStaged, StagedCommitted
    <3> QED
      BY <1>1, <2>1, <2>2, <2>3, <2>4, <3>1, ParkedNone, AfterApplied
  <2>5. CASE call.kind # "renameDir"
    <3>1. Noting
      BY <1>1, <2>5, NotingFacts
    <3> QED
      BY <1>1, <2>1, <2>2, <2>3, <2>5, <3>1, AfterStays DEF AfterInv, AllOrNothing, ChangesCommitted
  <2> QED
    BY <2>4, <2>5
<1>7. CASE Answer
  <2>1. /\ pc = "answer" /\ pc' = "done" /\ UNCHANGED <<file, before, plan, call, trash, head, outcome>>
    BY <1>7 DEF Answer, stores
  <2>2. /\ ParkedInScope /\ ChangesStaged /\ (~outcome.warned => StagedCommitted)
        /\ outcome.result = "applied"
    BY <1>1, <2>1 DEF AfterInv
  <2>3. ChangesCommitted'
    BY <1>1, <2>1, <2>2 DEF ChangesCommitted, ChangesStaged, StagedCommitted
  <2> QED
    BY <1>1, <2>1, <2>2, <2>3, ParkedNone, AfterApplied
<1>8. CASE AnswerFails
  <2>1. /\ pc = "answer" /\ pc' = "done" /\ UNCHANGED <<file, before, plan, call, trash, head>>
        /\ outcome'.result = "refused" /\ (AnswersFail \/ file[NewId] = None)
    BY <1>8 DEF AnswerFails, stores, Refuse, TypeInv
  <2>2. ParkedInScope /\ (Noting => file[NewId] # None)
    BY <1>1, <2>1 DEF AfterInv
  <2>3. CASE Noting
    BY <1>1, <2>1, <2>2, <2>3, ParkedNone, AfterRefused
  <2>4. Noting
    BY <1>1, <2>1 DEF AfterInv
  <2> QED
    BY <2>3, <2>4
<1> QED
  BY <1>2, <1>3, <1>4, <1>5, <1>6, <1>7, <1>8 DEF Reidentifies, PlanFails

LEMMA AfterSessions == TypeInv /\ DraftsInv /\ AfterInv /\ (Sessions \/ Guests) => AfterInv'
<1> SUFFICES ASSUME TypeInv, DraftsInv, AfterInv, Sessions, tidy' PROVE AfterInv'
  BY DEF Guests, GuestWrites, GuestRemoves, Guest, AfterInv
<1>0. TypeOK
  BY DEF TypeInv
<1>1. PICK i \in Ids : Open(i) \/ Flush(i) \/ Close(i)
  BY DEF Sessions
<1>2. /\ UNCHANGED <<pc, call, plan, trash, before, outcome, tidy>> /\ tidy
      /\ Creating' = Creating /\ Noting' = Noting
      /\ pc \in {"commit", "done", "settle", "answer"} => Creating /\ (Flush(i) \/ Close(i))
  BY <1>1 DEF Open, Flush, Close, SessionsFree, WritesLocked, Creating, Noting
<1>3. CASE pc \notin {"commit", "settle", "answer", "done"}
  BY <1>2, <1>3, AfterElsewhere
<1>4. CASE pc \in {"commit", "settle", "answer", "done"}
  <2>1. Creating /\ pc \in {"commit", "done"} /\ call.id \in Ids
    BY <1>2, <1>4 DEF TypeInv, PcFits, CallFits, Reidentifying, Creating
  <2>2. Flush(i) => i # call.id
    BY <2>1 DEF DraftsInv, Flush, Dirty
  <2>3. session[call.id] = None => i # call.id
    BY <1>2, <1>4 DEF Flush, Close
  <2>4. /\ file'[call.id] = file[call.id] /\ index'[call.id] = index[call.id] /\ draft'[call.id] = draft[call.id]
        /\ session[call.id] = None => session'[call.id] = None
        /\ head'[call.id] = head[call.id] \/ head'[call.id] = file[call.id]
    BY <1>0, <1>2, <1>4, <2>1, <2>2, <2>3 DEF Flush, Close, TypeOK, Maybe
  <2>5. pc = "commit" => ParkedInScope'
    BY <1>2 DEF AfterInv, ParkedInScope, Deleting, Scope
  <2>6. ~AnswersFail => AllOrNothing'
    BY <1>2, <2>1, <2>4 DEF AfterInv, AllOrNothing
  <2>7. ChangesCommitted'
    BY <1>2, <2>1, <2>4 DEF AfterInv, ChangesCommitted
  <2>8. ~Noting
    BY <2>1, NotingFacts
  <2>9. pc = "done" => trash' = Nothing
    BY <1>2 DEF AfterInv, Nothing
  <2> QED
    BY <1>2, <2>1, <2>5, <2>6, <2>7, <2>8, <2>9 DEF AfterInv
<1> QED
  BY <1>3, <1>4

LEMMA AfterDeletes == TypeInv /\ TypeInv' /\ RunInv /\ AfterInv /\ Deletes => AfterInv'
<1> SUFFICES ASSUME TypeInv, TypeInv', RunInv, AfterInv, Deletes, tidy' PROVE AfterInv'
  BY DEF AfterInv
<1>1. Deleting /\ call' = call /\ ~Creating /\ ~Reidentifying /\ ~Noting /\ tidy /\ TypeOK
  <2>1. Deleting /\ call' = call /\ tidy
    BY DEF Deletes, Park, RecordDeletion, SettleDeletion, TypeInv, PcFits
  <2> QED
    BY <2>1, NotingFacts DEF TypeInv
<1>2. CASE Park
  <2>1. pc' = "record"
    BY <1>2 DEF Park
  <2> QED
    BY <2>1, AfterElsewhere
<1>3. CASE RecordDeletion
  <2>1. pc = "record" /\ pc' = "commit" /\ UNCHANGED <<file, before, plan, call, trash, head>>
    BY <1>3 DEF RecordDeletion
  <2>2. DeletedInv
    BY <1>1, <2>1 DEF RunInv
  <2>3. Staged = Scope
    BY <1>1 DEF Staged
  <2>4. ChangesStaged /\ ParkedInScope
    BY <1>1, <2>2, <2>3 DEF DeletedInv, ChangesStaged, ParkedInScope
  <2> QED
    BY <1>1, <2>1, <2>4, AfterStays DEF AfterInv, AllOrNothing, ChangesCommitted
<1>4. CASE SettleDeletion
  <2>1. /\ pc = "settle" /\ pc' = "done" /\ UNCHANGED <<file, before, plan, call, head>>
        /\ trash' = [i \in Ids |-> IF i \in Scope THEN None ELSE trash[i]] /\ outcome' = Applied
    BY <1>4 DEF SettleDeletion
  <2>2. ParkedInScope /\ ChangesStaged /\ (~outcome.warned => StagedCommitted)
    BY <1>1, <2>1 DEF AfterInv
  <2>3. outcome'.result = "applied" /\ outcome'.warned = outcome.warned
    BY <2>1 DEF Applied, TypeInv
  <2>4. trash' = Nothing
    BY <1>1, <2>1, <2>2 DEF ParkedInScope, Nothing
  <2>5. ChangesCommitted'
    BY <1>1, <2>1, <2>2, <2>3 DEF ChangesCommitted, ChangesStaged, StagedCommitted, Creating
  <2> QED
    BY <2>1, <2>3, <2>4, <2>5, AfterApplied
<1> QED
  BY <1>2, <1>3, <1>4 DEF Deletes

LEMMA AfterCreates ==
    TypeInv /\ TypeInv' /\ FoldersInv /\ DraftsInv /\ CreateInv /\ AfterInv /\ Creates => AfterInv'
<1> SUFFICES ASSUME TypeInv, TypeInv', FoldersInv, DraftsInv, CreateInv, AfterInv, Creates, tidy'
             PROVE  AfterInv'
  BY DEF AfterInv
<1>0. TypeOK
  BY DEF TypeInv
<1>1. Creating /\ Creating' /\ ~Noting' /\ call' = call /\ call.id \in Ids
  <2>1. Creating /\ call' = call
    BY DEF Creates, Publish, PublishFails, RecordCreation, RecordCreationFails, OpenCreated,
         OpenCreatedFails, TakeBack, TakeBackFails, TypeInv, PcFits
  <2> QED
    BY <2>1 DEF TypeInv, CallFits, Creating, Noting
<1>2. tidy /\ trash' = trash
  BY DEF Creates, Publish, PublishFails, RecordCreation, RecordCreationFails, OpenCreated,
         OpenCreatedFails, TakeBack, TakeBackFails, stores
<1>3. CASE Publish \/ RecordCreation \/ RecordCreationFails \/ OpenCreatedFails
  <2>1. pc' \in {"record", "open", "takeback"}
    BY <1>3 DEF Publish, RecordCreation, RecordCreationFails, OpenCreatedFails
  <2> QED
    BY <2>1, AfterElsewhere
<1>4. CASE OpenCreated
  <2>1. pc = "open" /\ pc' = "commit"
    BY <1>4 DEF OpenCreated
  <2>2. trash = Nothing
    BY <1>1, <1>2, <2>1 DEF CreateInv
  <2>3. ParkedInScope'
    BY <1>2, <2>2 DEF ParkedInScope, Nothing
  <2> QED
    BY <1>1, <2>1, <2>3 DEF AfterInv, AllOrNothing, ChangesCommitted
<1>5. ASSUME pc \in {"publish", "takeback"}, Refuse(FALSE), file'[call.id] = None,
             index'[call.id] = None, draft'[call.id] = None, session' = session
      PROVE  AfterInv'
  <2>1. trash = Nothing /\ session[call.id] = None
    BY <1>1, <1>2, <1>5 DEF CreateInv, DraftsInv
  <2>2. pc' = "done" /\ outcome'.result = "refused"
    BY <1>5 DEF Refuse, TypeInv
  <2>3. AllOrNothing'
    BY <1>1, <1>5, <2>1 DEF AllOrNothing
  <2> QED
    BY <1>2, <2>1, <2>2, <2>3, AfterRefused
<1>6. CASE PublishFails
  <2>1. /\ pc = "publish" /\ Refuse(FALSE) /\ UNCHANGED <<file, index, draft, session>>
    BY <1>6 DEF PublishFails
  <2>2. file[call.id] = None /\ index[call.id] = None /\ draft[call.id] = None
    BY <1>1, <1>2, <2>1 DEF CreateInv
  <2> QED
    BY <1>5, <2>1, <2>2
<1>7. CASE TakeBack
  <2>1. /\ pc = "takeback" /\ Refuse(FALSE) /\ session' = session
        /\ file'[call.id] = None /\ index'[call.id] = None /\ draft'[call.id] = None
    BY <1>0, <1>1, <1>7 DEF TakeBack, TypeOK, Maybe
  <2> QED
    BY <1>5, <2>1
<1>8. CASE TakeBackFails
  BY <1>8 DEF TakeBackFails
<1> QED
  BY <1>3, <1>4, <1>6, <1>7, <1>8 DEF Creates

LEMMA AfterUnwinds == TypeInv /\ TypeInv' /\ RunInv /\ AfterInv /\ Unwinds => AfterInv'
<1> SUFFICES ASSUME TypeInv, TypeInv', RunInv, AfterInv, Unwinds, tidy' PROVE AfterInv'
  BY DEF AfterInv
<1>1. CASE StepFails \/ Undo \/ UndoFails
  <2>1. pc' = "undo"
    BY <1>1 DEF StepFails, Undo, UndoFails
  <2> QED
    BY <2>1, AfterElsewhere
<1>2. CASE Undone
  <2>1. /\ pc = "undo" /\ pc' = "done" /\ journal = <<>> /\ outcome'.result = "refused" /\ tidy
        /\ UNCHANGED <<file, dirs, trash, index, dirRow, draft, session, head, call, before>>
    BY <1>2 DEF Undone, Refuse, TypeInv, stores
  <2>2. ~Creating /\ Running
    BY <2>1 DEF TypeInv, PcFits, Running
  <2>3. Quiet /\ Now = Then
    BY <2>1, <2>2, UnwindEmpty DEF RunInv
  <2>4. AllOrNothing'
    BY <2>1, <2>2, <2>3 DEF AllOrNothing, Unchanged, Quiet, Now, Then, Creating
  <2> QED
    BY <2>1, <2>3, <2>4, AfterRefused DEF Now, Then
<1> QED
  BY <1>1, <1>2 DEF Unwinds

LEMMA AfterCommit == TypeInv /\ TypeInv' /\ AfterInv /\ Commit => AfterInv'
<1> SUFFICES ASSUME TypeInv, TypeInv', AfterInv, Commit, tidy' PROVE AfterInv'
  BY DEF AfterInv
<1>1. /\ pc = "commit" /\ pc' = (IF Creating THEN "done" ELSE "settle") /\ tidy
      /\ UNCHANGED <<file, before, plan, call, trash>>
      /\ Creating' = Creating /\ Noting' = Noting /\ Deleting' = Deleting /\ Reidentifying' = Reidentifying
      /\ Staged' = Staged /\ Scope' = Scope /\ NewId' = NewId
  BY DEF Commit, Creating, Noting, Deleting, Reidentifying, Staged, Scope, NewId
<1>2. ParkedInScope /\ (~Creating => ChangesStaged) /\ (Noting => file[NewId] # None)
  BY <1>1 DEF AfterInv
<1>3. ~outcome'.warned => head' = Committed(Staged)
  BY DEF Commit, TypeInv, Applied
<1>4. Staged \subseteq Ids
  <2>1. CASE Reidentifying
    <3>1. \A i \in DOMAIN plan : i \in Ids /\ call.move[i] \in Ids
      BY NotingFacts DEF TypeInv, PlanFits
    <3> QED
      BY <2>1, <3>1, IdParts DEF Staged
  <2>2. CASE ~Reidentifying /\ Deleting
    <3>1. Scope \subseteq Ids
      BY <2>2, IdParts DEF Scope, Deleting, TypeInv, CallFits
    <3> QED
      BY <2>2, <3>1 DEF Staged
  <2>3. CASE ~Reidentifying /\ ~Deleting
    <3>1. Creating
      BY <1>1, <2>3 DEF TypeInv, PcFits, CallFits, CallType, Kinds, Creating, Reidentifying, Deleting
    <3> QED
      BY <2>3, <3>1 DEF Staged, TypeInv, CallFits
  <2> QED
    BY <2>1, <2>2, <2>3
<1>5. ~outcome'.warned => StagedCommitted'
  BY <1>1, <1>3, <1>4 DEF StagedCommitted, Committed
<1>6. CASE ~Creating
  BY <1>1, <1>2, <1>5, <1>6 DEF AfterInv, AllOrNothing, ChangesCommitted, ParkedInScope, ChangesStaged
<1>7. CASE Creating
  <2>1. trash' = Nothing
    BY <1>1, <1>2, <1>7, ParkedNone, NotingFacts
  <2>2. outcome'.result = "applied"
    BY <1>7 DEF Commit, TypeInv, Applied
  <2>3. call.id \in Staged
    BY <1>7, NotingFacts DEF Staged
  <2>4. ChangesCommitted'
    BY <1>1, <1>5, <1>7, <2>3 DEF ChangesCommitted, StagedCommitted
  <2> QED
    BY <1>1, <1>7, <2>1, <2>2, <2>4, AfterApplied
<1> QED
  BY <1>6, <1>7

LEMMA AfterNext ==
    ASSUME TypeInv, TypeInv', FoldersInv, DraftsInv, RunInv, CreateInv, AfterInv, [Next]_vars
    PROVE  AfterInv'
<1>1. CASE UNCHANGED vars
  <2>1. /\ UNCHANGED <<file, before, plan, call, trash, head, index, draft, session, dirs, dirRow, pc, outcome, tidy>>
    BY <1>1 DEF vars
  <2>2. AllOrNothing' = AllOrNothing /\ ChangesCommitted' = ChangesCommitted
    BY <2>1 DEF AllOrNothing, ChangesCommitted, Unchanged, Creating, Nothing
  <2> QED
    BY <2>1, <2>2, AfterStays DEF AfterInv, Nothing
<1>2. CASE Crash \/ Rescan \/ Reindex \/ Return
  <2>1. pc' \in {"idle", "rescan"}
    BY <1>2 DEF Crash, Rescan, Reindex, Return
  <2> QED
    BY <2>1, AfterElsewhere
<1>3. CASE Starts
  <2>1. pc' \in {"idle", "begun", "park", "publish"}
    BY <1>3, Zenon DEF Starts, RenameNote, MoveNote, RenameDirectory, DeleteNote, DeleteDraft, DeleteDirectory,
         CreateNote, CreateTarget, CreateDirectory, Begin
  <2> QED
    BY <2>1, AfterElsewhere
<1> QED
  BY <1>1, <1>2, <1>3, AfterSessions, AfterReidentifies, AfterDeletes, AfterCreates, AfterUnwinds,
     AfterCommit DEF Next, Operates

-----------------------------------------------------------------------------
(* The invariant of the operations, and what it says.                        *)
OperationInv == TypeInv /\ FoldersInv /\ DraftsInv /\ RunInv /\ CreateInv /\ AfterInv

LEMMA OperationInit == Init => OperationInv
<1> SUFFICES ASSUME Init PROVE OperationInv
  OBVIOUS
<1>1. CreateInv
  BY DEF Init, CreateInv, Creating, NoCall
<1> QED
  BY <1>1, TypeInit, FoldersInit, DraftsInit, RunInit, AfterInit DEF OperationInv

LEMMA OperationNext == OperationInv /\ [Next]_vars => OperationInv'
<1> SUFFICES ASSUME OperationInv, [Next]_vars PROVE OperationInv'
  OBVIOUS
<1>1. TypeInv' /\ FoldersInv' /\ DraftsInv'
  BY TypeNext, FoldersNext, DraftsNext DEF OperationInv
<1>2. tidy /\ pc = "done" => trash = Nothing
  BY DEF OperationInv, AfterInv
<1>3. RunInv'
  BY <1>1, <1>2, RunNext DEF OperationInv
<1>4. CreateInv' /\ AfterInv'
  BY <1>1, CreateNext, AfterNext DEF OperationInv
<1> QED
  BY <1>1, <1>3, <1>4 DEF OperationInv

(* The phases of lifecycle.rs, as described above, hold through every        *)
(* interleaving with sessions, other tools, reindexes and kills.             *)
THEOREM OperationsHold == Spec => []OperationInv
<1>1. Spec => []OperationInv
  BY OperationInit, OperationNext, PTL DEF Spec
<1> QED
  BY <1>1

(* A rename, move or deletion of lifecycle.rs that answers with an error has *)
(* left every file, folder, row, draft row, session and HEAD as it found     *)
(* them, and a creation nothing at its id, at whichever step it failed: the  *)
(* journal, unwound in reverse, gives back the bundle, and nothing else is   *)
(* changed before the transaction. Reading a renamed Note back must not      *)
(* fail: MCLifecycle_answer.cfg shows an error for a rename that is in       *)
(* effect.                                                                   *)
THEOREM RefusalsChangeNothing ==
    ASSUME ~AnswersFail
    PROVE  Spec => []AllOrNothing
<1>1. OperationInv => AllOrNothing
  BY DEF OperationInv, AfterInv, AllOrNothing
<1> QED
  BY <1>1, OperationsHold, PTL

(* An operation that answers without a warning has committed every file it   *)
(* wrote, moved, removed or created, under its old and its new name: no      *)
(* change waits for the commit of something else.                            *)
THEOREM AppliedIsCommitted == Spec => []ChangesCommitted
<1>1. OperationInv => ChangesCommitted
  BY DEF OperationInv, AfterInv, ChangesCommitted
<1> QED
  BY <1>1, OperationsHold, PTL

-----------------------------------------------------------------------------
(* The index. It describes the files whenever no operation is between its    *)
(* first file step and its transaction; in between, what the operation found *)
(* was described, and the plan covers every Note whose row will change.      *)
Coherent == index = IndexOf(file) /\ dirRow \subseteq dirs

(* A creation's own row follows its file; the others are right throughout.   *)
OffIndex == \A i \in Ids \ {call.id} : index[i] = Entry(file[i], i)

(* The sweep of plan_affected misses no Note that moves or whose Link names  *)
(* one that moves, because the rows were right when it looked.               *)
CoverInv ==
    \A k \in Ids : before.file[k] # None /\ (Moved(k) \/ before.index[k] \in MovedIds) => k \in DOMAIN plan

(* A file in a renamed Directory moves: none is there that the index does    *)
(* not know.                                                                 *)
StaysBare ==
    call.kind = "renameDir" => \A i \in In(call.dir) : ~Moved(i) => before.file[i] = None

(* A folder that a creation made had no row before.                          *)
MadeUnlisted == call.made => call.id[1] \in call.rows

(* The index and the folders' rows in every phase.                           *)
CoherentInv ==
    tidy =>
      /\ pc \in {"idle", "begun", "publish", "commit", "settle", "answer", "done"} => Coherent
      /\ pc = "rescan" => file = before.file /\ dirs = before.dirs
      /\ pc = "begun" /\ call.kind = "renameDir" =>
            \A i \in In(call.dir) : ~Moved(i) => file[i] = None /\ draft[i] = None
      /\ Running => before.index = IndexOf(before.file) /\ before.dirRow \subseteq before.dirs
      /\ Deleting /\ pc \in {"park", "record"} => \A i \in Scope \ call.ids : before.index[i] = None
      /\ Reidentifying /\ pc \in {"write", "move", "record"} => CoverInv /\ StaysBare
      /\ Creating /\ pc = "publish" /\ call.made =>
            call.id[1] \in call.rows /\ (Empty(call.id[1]) => call.id[1] \notin dirRow)
      /\ Creating /\ pc \in {"record", "open", "takeback"} =>
            OffIndex /\ dirRow \subseteq dirs /\ MadeUnlisted
      /\ Creating /\ pc = "record" => file[call.id] = FreshText
      /\ Creating /\ pc = "open" => index[call.id] = Entry(file[call.id], call.id)

LEMMA CoherentInit == Init => CoherentInv
<1> SUFFICES ASSUME Init PROVE CoherentInv
  OBVIOUS
<1>1. pc = "idle" /\ Coherent
  BY DEF Init, Coherent
<1>2. ~Creating /\ ~Running
  BY <1>1 DEF Init, Creating, NoCall, Running
<1> QED
  BY <1>1, <1>2 DEF CoherentInv

(* Between operations, and where one has recorded what it did.               *)
LEMMA CoherentRests ==
    ASSUME pc' \in {"idle", "commit", "settle", "answer", "done"}, Coherent'
    PROVE  CoherentInv'
BY DEF CoherentInv, Running

LEMMA CoherentKept ==
    ASSUME UNCHANGED <<file, dirs, index, dirRow>>, Coherent
    PROVE  Coherent'
BY DEF Coherent, IndexOf, Entry

LEMMA EntryIsRow ==
    ASSUME TypeOK, Coherent
    PROVE  \A i \in Ids : index[i] = Entry(file[i], i) /\ (index[i] = None <=> file[i] = None)
BY EntryType DEF Coherent, IndexOf, TypeOK, Maybe

(* A write of a session puts the row of its Note right.                      *)
LEMMA FlushIndexes ==
    ASSUME TypeOK, NEW i \in Ids, Flush(i)
    PROVE  /\ \A k \in Ids : k # i => file'[k] = file[k] /\ index'[k] = index[k] /\ draft'[k] = draft[k]
           /\ file'[i] # None /\ index'[i] = Entry(file'[i], i)
           /\ dirs' = dirs \cup {i[1]} /\ dirRow' = (dirRow \cup {i[1]}) \ {Root}
           /\ Coherent => Coherent'
<1>1. session[i] \in SessionState /\ session[i].buf # None
  BY NoneAssumption DEF Flush, TypeOK, Maybe, SessionState
<1>2. /\ \A k \in Ids : k # i => file'[k] = file[k] /\ index'[k] = index[k] /\ draft'[k] = draft[k]
      /\ file'[i] # None /\ index'[i] = Entry(file'[i], i)
      /\ dirs' = dirs \cup {i[1]} /\ dirRow' = (dirRow \cup {i[1]}) \ {Root}
  BY <1>1 DEF Flush, TypeOK, Maybe
<1>3. ASSUME Coherent PROVE Coherent'
  <2>1. \A k \in Ids : index'[k] = Entry(file'[k], k)
    BY <1>2, <1>3, EntryIsRow
  <2>2. DOMAIN index' = Ids /\ index' = [k \in Ids |-> index'[k]]
    BY DEF Flush, TypeOK, Maybe
  <2>3. index' = [k \in Ids |-> Entry(file'[k], k)]
    BY <2>1, <2>2
  <2> QED
    BY <1>2, <1>3, <2>3 DEF Coherent, IndexOf
<1> QED
  BY <1>2, <1>3

LEMMA CoherentSessions ==
    ASSUME ~RescanRaces, TypeInv, DraftsInv, CoherentInv, Sessions \/ Guests
    PROVE  CoherentInv'
<1> SUFFICES ASSUME Sessions, tidy' PROVE CoherentInv'
  BY DEF Guests, GuestWrites, GuestRemoves, Guest, CoherentInv
<1>0. TypeOK
  BY DEF TypeInv
<1>1. PICK i \in Ids : Open(i) \/ Flush(i) \/ Close(i)
  BY DEF Sessions
<1>2. /\ UNCHANGED <<pc, call, plan, before, tidy>> /\ tidy
      /\ Creating' = Creating /\ Deleting' = Deleting /\ Reidentifying' = Reidentifying /\ Running' = Running
      /\ pc \in {"idle", "begun"} \/ Creating
  BY <1>1 DEF Open, Flush, Close, SessionsFree, WritesLocked, Creating, Deleting, Reidentifying, Running
<1>3. CASE Open(i) \/ Close(i)
  <2>1. UNCHANGED <<file, dirs, index, dirRow, draft>>
    BY <1>3 DEF Open, Close
  <2>2. Coherent => Coherent'
    BY <2>1, CoherentKept
  <2> QED
    BY <1>2, <2>1, <2>2 DEF CoherentInv, OffIndex, MadeUnlisted, Empty, Moved, CoverInv, StaysBare,
       MovedIds, Scope, Deleting
<1>4. CASE Flush(i)
  <2>1. /\ \A k \in Ids : k # i => file'[k] = file[k] /\ index'[k] = index[k] /\ draft'[k] = draft[k]
        /\ file'[i] # None /\ index'[i] = Entry(file'[i], i)
        /\ dirs' = dirs \cup {i[1]} /\ dirRow' = (dirRow \cup {i[1]}) \ {Root}
        /\ Coherent => Coherent'
    BY <1>0, <1>4, FlushIndexes
  <2>2. CASE pc = "idle"
    BY <1>2, <2>1, <2>2, CoherentRests DEF CoherentInv
  <2>3. CASE pc = "begun"
    <3>1. draft[i] # None
      BY <1>4, <2>3 DEF DraftsInv, DirtyHasDraft, Dirty, Flush
    <3>2. Reidentifying /\ ~Creating /\ ~Deleting
      BY <2>3, NotingFacts DEF TypeInv, PcFits
    <3>3. \A k \in In(call.dir) : k \in Ids
      BY IdParts
    <3>4. call.kind = "renameDir" =>
            \A k \in In(call.dir) : ~Moved(k) => file'[k] = None /\ draft'[k] = None
      BY <1>2, <2>1, <2>3, <3>1, <3>3 DEF CoherentInv
    <3>5. Coherent'
      BY <1>2, <2>1, <2>3 DEF CoherentInv
    <3> QED
      BY <1>2, <2>3, <3>2, <3>4, <3>5 DEF CoherentInv, Running, Moved
  <2>4. CASE Creating
    <3>1. call.id \in Ids
      BY <2>4 DEF TypeInv, CallFits
    <3>2. pc \in {"publish", "record", "open", "takeback"} => i # call.id
      BY <1>4, <2>4 DEF DraftsInv, Flush
    <3>3. pc \in {"publish", "record", "open", "takeback", "commit", "done"}
      BY <1>2, <2>4, <1>4, NotingFacts DEF TypeInv, PcFits, Creating
    <3>4. CASE pc \in {"commit", "done"}
      BY <1>2, <2>1, <3>4, CoherentRests DEF CoherentInv
    <3>5. CASE pc = "publish"
      <4>1. call.made => call.id[1] \in call.rows /\ (Empty(call.id[1])' => call.id[1] \notin dirRow')
        <5>1. ASSUME call.made, Empty(call.id[1])' PROVE call.id[1] \notin dirRow'
          <6>1. i[1] # call.id[1]
            BY <1>2, <2>1, <5>1 DEF Empty, In
          <6>2. Empty(call.id[1])
            BY <1>2, <2>1, <5>1, <6>1 DEF Empty, In
          <6> QED
            BY <1>2, <2>1, <2>4, <3>5, <5>1, <6>1, <6>2 DEF CoherentInv
        <5> QED
          BY <1>2, <2>4, <3>5, <5>1 DEF CoherentInv
      <4>2. Coherent'
        BY <1>2, <2>1, <3>5 DEF CoherentInv
      <4> QED
        BY <1>2, <2>4, <3>5, <4>1, <4>2, NotingFacts DEF CoherentInv, Running, Empty
    <3>6. CASE pc \in {"record", "open", "takeback"}
      <4>1. OffIndex /\ dirRow \subseteq dirs /\ MadeUnlisted
        BY <1>2, <2>4, <3>6 DEF CoherentInv
      <4>2. OffIndex'
        BY <1>2, <2>1, <4>1 DEF OffIndex
      <4>3. dirRow' \subseteq dirs' /\ MadeUnlisted'
        BY <1>2, <2>1, <4>1 DEF MadeUnlisted
      <4>4. file'[call.id] = file[call.id] /\ index'[call.id] = index[call.id]
        BY <2>1, <3>1, <3>2, <3>6
      <4> QED
        BY <1>2, <2>4, <3>6, <4>2, <4>3, <4>4, NotingFacts DEF CoherentInv, Running
    <3> QED
      BY <3>3, <3>4, <3>5, <3>6
  <2> QED
    BY <1>2, <2>2, <2>3, <2>4
<1> QED
  BY <1>1, <1>3, <1>4

LEMMA CoherentStarts ==
    ASSUME TypeInv, TypeInv', FoldersInv, CoherentInv, Starts
    PROVE  CoherentInv'
<1> SUFFICES ASSUME tidy' PROVE CoherentInv'
  BY DEF CoherentInv
<1>0. TypeOK /\ Root \in dirs
  BY DEF TypeInv, FoldersInv, FilesInDirs
<1>1. pc = "idle" /\ tidy /\ Coherent /\ UNCHANGED <<file, index>> /\ dirs \subseteq dirs'
  BY ZenonT(60) DEF Starts, RenameNote, MoveNote, RenameDirectory, DeleteNote, DeleteDraft, DeleteDirectory,
         CreateNote, CreateTarget, CreateDirectory, Begin, CoherentInv
<1>2. \A i \in Ids : index[i] = None <=> file[i] = None
  BY <1>0, <1>1, EntryIsRow
<1>3. dirRow' = dirRow => Coherent'
  BY <1>1 DEF Coherent, IndexOf, Entry
<1>4. ASSUME pc' = "begun", dirRow' = dirRow, call'.kind # "renameDir" PROVE CoherentInv'
  BY <1>3, <1>4 DEF CoherentInv, Running, TypeInv, PcFits, Reidentifying, Creating, Deleting
<1>5. ASSUME pc' = "park", before' = Stores,
             \A i \in Scope' \ call'.ids : index[i] = None PROVE CoherentInv'
  <2>1. before'.index = index /\ before'.file = file /\ before'.dirRow = dirRow /\ before'.dirs = dirs
    BY <1>5 DEF Stores
  <2>2. before'.index = IndexOf(before'.file) /\ before'.dirRow \subseteq before'.dirs
    BY <1>1, <2>1 DEF Coherent
  <2>3. (IndexOf(before.file))' = IndexOf(before'.file)
    BY DEF IndexOf, Entry
  <2>4. Deleting' /\ ~Creating' /\ ~Reidentifying'
    BY <1>5 DEF TypeInv, PcFits, Deleting, Creating, Reidentifying
  <2> QED
    BY <1>5, <2>1, <2>2, <2>3, <2>4 DEF CoherentInv
<1>6. ASSUME NEW i \in Ids, NEW title \in Titles, RenameNote(i, title) PROVE CoherentInv'
  BY <1>4, <1>6 DEF RenameNote, Begin, NoCall
<1>7. ASSUME NEW i \in Ids, NEW d \in Dirs, MoveNote(i, d) PROVE CoherentInv'
  BY <1>4, <1>7 DEF MoveNote, Begin, NoCall
<1>8. ASSUME NEW d \in Dirs, NEW e \in Dirs, RenameDirectory(d, e) PROVE CoherentInv'
  <2>1. /\ d \in dirs /\ e \notin dirs /\ call'.kind = "renameDir" /\ call'.dir = d
        /\ call'.move = MoveAll(d, e, Contained(d) \cup Orphans(d))
        /\ pc' = "begun" /\ UNCHANGED <<dirRow, draft>>
    BY <1>8 DEF RenameDirectory, Begin, NoCall
  <2>2. ASSUME NEW i \in In(d), ~(Moved(i))' PROVE file'[i] = None /\ draft'[i] = None
    <3>1. i \in Ids /\ i[1] = d
      BY DEF In
    <3>2. i \notin Contained(d) \cup Orphans(d)
      <4>1. <<e, i[2]>> # i
        BY <2>1, <3>1
      <4> QED
        BY <2>1, <2>2, <3>1, <4>1 DEF MoveAll, Moved
    <3> QED
      BY <1>1, <1>2, <2>1, <3>1, <3>2 DEF Contained, Orphans
  <2>3. Reidentifying' /\ ~Creating' /\ ~Deleting'
    BY <2>1 DEF Reidentifying, Creating, Deleting
  <2> QED
    BY <1>3, <2>1, <2>2, <2>3 DEF CoherentInv, Running
<1>9. ASSUME NEW i \in Ids, DeleteNote(i) PROVE CoherentInv'
  <2>1. pc' = "park" /\ before' = Stores /\ call'.kind = "deleteNote"
    BY <1>9 DEF DeleteNote, Begin, NoCall
  <2>2. Scope' = call'.ids
    BY <2>1 DEF Scope
  <2> QED
    BY <1>5, <2>1, <2>2
<1>10. ASSUME NEW d \in Dirs, DeleteDirectory(d) PROVE CoherentInv'
  <2>1. pc' = "park" /\ before' = Stores /\ call'.kind = "deleteDir" /\ call'.dir = d
        /\ call'.ids = Contained(d) \cup Orphans(d)
    BY <1>10 DEF DeleteDirectory, Begin, NoCall
  <2>2. Scope' = In(d)
    BY <2>1 DEF Scope, In
  <2> QED
    BY <1>5, <2>1, <2>2 DEF Contained
<1>11. ASSUME NEW d \in Dirs, NEW title \in Titles, CreateNote(d, title) PROVE CoherentInv'
  <2>1. pc' = "publish" /\ call'.made = FALSE /\ call'.kind = "createNote" /\ dirRow' = dirRow
    BY <1>11 DEF CreateNote, Begin, NoCall
  <2> QED
    BY <1>3, <2>1 DEF CoherentInv, Running, Reidentifying, Creating, Deleting
<1>12. ASSUME NEW i \in Ids, CreateTarget(i) PROVE CoherentInv'
  <2>1. /\ pc' = "publish" /\ call'.kind = "createTarget" /\ dirRow' = dirRow /\ call'.id = i
        /\ call'.rows = {i[1]} \ (dirRow \cup {Root}) /\ call'.made = (i[1] \notin dirs)
    BY <1>12 DEF CreateTarget, Begin, NoCall
  <2>2. call'.made => i[1] \notin dirRow /\ i[1] # Root
    BY <1>0, <1>1, <2>1 DEF Coherent
  <2> QED
    BY <1>3, <2>1, <2>2 DEF CoherentInv, Running, Reidentifying, Creating, Deleting
<1>13. ASSUME NEW i \in Ids, DeleteDraft(i) PROVE CoherentInv'
  BY <1>1, <1>3, <1>13, CoherentRests DEF DeleteDraft
<1>14. ASSUME NEW d \in Dirs, CreateDirectory(d) PROVE CoherentInv'
  <2>1. Coherent'
    BY <1>1, <1>14 DEF CreateDirectory, Coherent, IndexOf, Entry
  <2> QED
    BY <1>1, <1>14, <2>1, CoherentRests DEF CreateDirectory
<1> QED
  BY <1>6, <1>7, <1>8, <1>9, <1>10, <1>11, <1>12, <1>13, <1>14 DEF Starts

-----------------------------------------------------------------------------
(* A Link to what moves is spelled anew and then names what it moved to; any *)
(* other Link names what it named.                                           *)
LEMMA LinkToTarget ==
    ASSUME NEW t \in Text, NEW i \in Ids, NEW d \in Dirs
    PROVE  Target([t EXCEPT !.link = LinkTo(i)], d) = i
<1>1. LinkTo(i) \in Link /\ LinkTo(i) # None
  BY LinkToType, NoneAssumption
<1>2. i[1] \in Dirs /\ i = <<i[1], i[2]>> /\ i[1] # Here
  BY IdParts, RootAssumption
<1>3. [t EXCEPT !.link = LinkTo(i)].link = LinkTo(i)
  BY DEF Text
<1> QED
  BY <1>1, <1>2, <1>3 DEF Target, Resolve, LinkTo

LEMMA RewriteTarget ==
    ASSUME NEW t \in Text, NEW i \in Ids, NEW move \in [Ids -> Ids], NEW absolutize \in BOOLEAN
    PROVE  Target(Rewrite(t, i, move, absolutize), i[1]) =
             IF Target(t, i[1]) = None THEN None ELSE move[Target(t, i[1])]
<1> DEFINE d == i[1]
           u == IF absolutize THEN AbsolutizeLinks(t, d) ELSE t
<1>1. d \in Dirs
  BY IdParts
<1>2. t.link # None => Target(t, d) = Resolve(t.link, d) /\ Target(t, d) \in Ids
  BY <1>1, TargetType DEF Target
<1>3. u \in Text /\ Target(u, d) = Target(t, d)
  <2>1. CASE absolutize /\ t.link # None
    <3>1. u = [t EXCEPT !.link = LinkTo(Target(t, d))]
      BY <1>2, <2>1 DEF AbsolutizeLinks
    <3>2. LinkTo(Target(t, d)) \in Link
      BY <1>2, <2>1, LinkToType
    <3>3. u \in Text
      BY <3>1, <3>2 DEF Text
    <3> QED
      BY <1>1, <1>2, <2>1, <3>1, <3>3, LinkToTarget
  <2>2. CASE ~(absolutize /\ t.link # None)
    BY <2>2 DEF AbsolutizeLinks
  <2> QED
    BY <2>1, <2>2
<1>4. Rewrite(t, i, move, absolutize) = RewriteTargets(u, d, move)
  BY DEF Rewrite
<1> HIDE DEF u, d
<1>5. Target(u, d) \in Ids \cup {None}
  BY <1>1, <1>3, TargetType
<1>6. Target(RewriteTargets(u, d, move), d) = IF Target(u, d) = None THEN None ELSE move[Target(u, d)]
  <2>1. CASE Target(u, d) = None \/ move[Target(u, d)] = Target(u, d)
    BY <2>1 DEF RewriteTargets
  <2>2. CASE ~(Target(u, d) = None \/ move[Target(u, d)] = Target(u, d))
    <3>1. move[Target(u, d)] \in Ids
      BY <1>5, <2>2
    <3>2. RewriteTargets(u, d, move) = [u EXCEPT !.link = LinkTo(move[Target(u, d)])]
      BY <2>2 DEF RewriteTargets
    <3> QED
      BY <1>1, <1>3, <2>2, <3>1, <3>2, LinkToTarget
  <2> QED
    BY <2>1, <2>2
<1>7. Target(Rewrite(t, i, move, absolutize), d) = IF Target(t, d) = None THEN None ELSE move[Target(t, d)]
  BY <1>3, <1>4, <1>6
<1> QED
  BY <1>7 DEF d

(* The text of a Note the index says links to what moves is to be written.   *)
LEMMA LinksArePlanned ==
    ASSUME TypeInv, Coherent, NEW k \in Ids, file[k] # None, index[k] \in MovedIds
    PROVE  PlanFor(k).file # None
<1>0. TypeOK /\ call \in CallType
  BY DEF TypeInv, CallFits
<1>1. file[k] \in Text
  BY <1>0 DEF TypeOK, Maybe
<1>2. index[k] \in Ids /\ Moved(index[k]) /\ index[k] # Unlinked
  BY NoneAssumption, IdParts DEF MovedIds, Unlinked
<1>3. index[k] = Entry(file[k], k)
  BY <1>0, EntryIsRow
<1>4. index[k] = Target(file[k], k[1])
  BY <1>2, <1>3 DEF Entry
<1>5. call.move \in [Ids -> Ids] /\ (call.absolutize /\ k = call.id) \in BOOLEAN
  BY <1>0 DEF CallType
<1>6. Target(Rewritten(file[k], k), k[1]) = call.move[index[k]]
  <2>1. Target(Rewrite(file[k], k, call.move, call.absolutize /\ k = call.id), k[1]) =
          IF Target(file[k], k[1]) = None THEN None ELSE call.move[Target(file[k], k[1])]
    BY <1>1, <1>5, RewriteTarget
  <2> QED
    BY <1>2, <1>4, <2>1, NoneAssumption DEF Rewritten
<1>7. Rewritten(file[k], k) # file[k]
  BY <1>2, <1>4, <1>6 DEF Moved
<1>8. Rewritten(file[k], k) \in Text
  BY <1>1, <1>5, RewriteType DEF Rewritten
<1> QED
  BY <1>7, <1>8, NoneAssumption DEF PlanFor, NewText

LEMMA CoherentPlan ==
    ASSUME TypeInv, TypeInv', CoherentInv, Plan \/ PlanFails
    PROVE  CoherentInv'
<1> SUFFICES ASSUME tidy' PROVE CoherentInv'
  BY DEF CoherentInv
<1>1. /\ pc = "begun" /\ tidy /\ before' = Stores /\ UNCHANGED <<file, dirs, index, dirRow, draft, session, call>>
  BY DEF Plan, PlanFails, stores
<1>2. Coherent /\ Coherent'
  BY <1>1, CoherentKept DEF CoherentInv
<1>3. CASE pc' = "done"
  BY <1>2, <1>3, CoherentRests
<1>4. CASE pc' # "done"
  <2>1. Plan /\ pc' = "write" /\ plan' = [i \in {k \in Candidates : Touched(k)} |-> PlanFor(i)]
    BY <1>4 DEF Plan, PlanFails, Refuse
  <2>2. before'.index = index /\ before'.file = file /\ before'.dirRow = dirRow /\ before'.dirs = dirs
    BY <1>1 DEF Stores
  <2>3. ASSUME NEW k \in Ids, file[k] # None, Moved(k) \/ index[k] \in MovedIds PROVE k \in DOMAIN plan'
    <3>1. k \in Candidates
      BY <2>3 DEF Candidates, MovedIds
    <3>2. Touched(k)
      BY <1>2, <2>3, LinksArePlanned DEF Touched, Held
    <3> QED
      BY <2>1, <3>1, <3>2
  <2>4. MovedIds' = MovedIds /\ \A k : (Moved(k))' = Moved(k)
    BY <1>1 DEF MovedIds, Moved
  <2>5. CoverInv'
    BY <2>2, <2>3, <2>4 DEF CoverInv
  <2>6. StaysBare'
    BY <1>1, <2>2, <2>4 DEF StaysBare, CoherentInv, In
  <2>7. before'.index = IndexOf(before'.file) /\ before'.dirRow \subseteq before'.dirs
    BY <1>2, <2>2 DEF Coherent
  <2>8. (IndexOf(before.file))' = IndexOf(before'.file)
    BY DEF IndexOf, Entry
  <2>9. Reidentifying' /\ ~Creating' /\ ~Deleting'
    BY <2>1 DEF TypeInv, PcFits, Deleting, Creating, Reidentifying
  <2> QED
    BY <2>1, <2>5, <2>6, <2>7, <2>8, <2>9 DEF CoherentInv
<1> QED
  BY <1>3, <1>4

(* The steps of an operation before it records anything.                     *)
LEMMA CoherentRuns ==
    ASSUME TypeInv, TypeInv', CoherentInv, Running, tidy, UNCHANGED <<call, plan, before>>,
           pc' \in {"write", "move", "record", "undo"},
           pc' = "record" => (Deleting /\ pc = "park") \/ (Reidentifying /\ pc = "move"),
           pc' \in {"write", "move"} => pc \in {"write", "move"}
    PROVE  CoherentInv'
<1>1. /\ Creating' = Creating /\ Deleting' = Deleting /\ Reidentifying' = Reidentifying
      /\ Scope' = Scope /\ MovedIds' = MovedIds /\ \A k : (Moved(k))' = Moved(k)
      /\ (IndexOf(before.file))' = IndexOf(before.file)
  BY DEF Creating, Deleting, Reidentifying, Scope, MovedIds, Moved, IndexOf, Entry
<1>2. ~Creating /\ ~(Deleting /\ Reidentifying)
  BY NotingFacts DEF Running
<1>3. CoverInv => CoverInv'
  BY <1>1 DEF CoverInv
<1>4. StaysBare => StaysBare'
  BY <1>1 DEF StaysBare
<1>5. pc' \in {"write", "move"} => ~Deleting
  BY <1>2 DEF TypeInv, PcFits
<1> QED
  BY <1>1, <1>2, <1>3, <1>4, <1>5 DEF CoherentInv, Running

LEMMA CoherentUnwinds ==
    ASSUME TypeInv, TypeInv', RunInv, CoherentInv, Unwinds
    PROVE  CoherentInv'
<1> SUFFICES ASSUME tidy' PROVE CoherentInv'
  BY DEF CoherentInv
<1>1. CASE StepFails \/ Undo
  <2>1. Running /\ tidy /\ pc' = "undo" /\ UNCHANGED <<call, plan, before>>
    BY <1>1 DEF StepFails, Undo, Running, TypeInv, PcFits
  <2> QED
    BY <2>1, CoherentRuns
<1>2. CASE UndoFails
  BY <1>2 DEF UndoFails
<1>3. CASE Undone
  <2>1. /\ pc = "undo" /\ pc' = "done" /\ journal = <<>> /\ tidy
        /\ UNCHANGED <<file, dirs, index, dirRow>>
    BY <1>3 DEF Undone, Refuse, stores
  <2>2. Running
    BY <2>1 DEF TypeInv, PcFits, Running
  <2>3. Quiet /\ Now = Then
    BY <2>1, <2>2, UnwindEmpty DEF RunInv
  <2>4. Coherent
    BY <2>1, <2>2, <2>3 DEF Coherent, Quiet, Now, Then, CoherentInv
  <2> QED
    BY <2>1, <2>4, CoherentKept, CoherentRests
<1> QED
  BY <1>1, <1>2, <1>3 DEF Unwinds

LEMMA CoherentDeletes ==
    ASSUME TypeInv, TypeInv', RunInv, CoherentInv, Deletes
    PROVE  CoherentInv'
<1> SUFFICES ASSUME tidy' PROVE CoherentInv'
  BY DEF CoherentInv
<1>0. TypeOK
  BY DEF TypeInv
<1>1. CASE Park
  <2>1. pc = "park" /\ pc' = "record" /\ tidy /\ UNCHANGED <<call, plan, before>> /\ Deleting
    BY <1>1 DEF Park, TypeInv, PcFits
  <2>2. Running
    BY <2>1, NotingFacts DEF Running
  <2> QED
    BY <2>1, <2>2, CoherentRuns
<1>2. CASE RecordDeletion
  <2>1. /\ pc = "record" /\ pc' = "commit" /\ Deleting /\ tidy /\ UNCHANGED <<file, dirs>>
        /\ index' = [i \in Ids |-> IF i \in call.ids THEN None ELSE index[i]]
        /\ dirRow' = dirRow \ {call.dir}
    BY <1>2 DEF RecordDeletion
  <2>2. Running
    BY <2>1, NotingFacts DEF Running
  <2>3. DeletedInv /\ Quiet
    BY <2>1, <2>2 DEF RunInv
  <2>4. /\ index = IndexOf(before.file) /\ dirRow \subseteq before.dirs
        /\ \A i \in Scope \ call.ids : index[i] = None
    BY <2>1, <2>2, <2>3 DEF CoherentInv, Quiet
  <2>5. call.ids \subseteq Scope
    BY <2>1 DEF TypeInv, CallFits, Deleting, Scope
  <2>6. ASSUME NEW i \in Ids PROVE index'[i] = Entry(file'[i], i)
    <3>1. index[i] = Entry(before.file[i], i)
      BY <2>4 DEF IndexOf
    <3>2. file'[i] = IF i \in Scope THEN None ELSE before.file[i]
      BY <2>1, <2>3 DEF DeletedInv
    <3> QED
      BY <2>1, <2>4, <2>5, <3>1, <3>2 DEF Entry
  <2>7. index' = [i \in Ids |-> Entry(file'[i], i)]
    BY <2>1, <2>6
  <2>8. dirRow' \subseteq dirs'
    BY <2>1, <2>3, <2>4 DEF DeletedInv
  <2>9. Coherent'
    BY <2>7, <2>8 DEF Coherent, IndexOf
  <2> QED
    BY <2>1, <2>9, CoherentRests
<1>3. CASE SettleDeletion
  <2>1. pc = "settle" /\ pc' = "done" /\ UNCHANGED <<file, dirs, index, dirRow>> /\ tidy
    BY <1>3 DEF SettleDeletion
  <2> QED
    BY <2>1, CoherentKept, CoherentRests DEF CoherentInv
<1> QED
  BY <1>1, <1>2, <1>3 DEF Deletes

LEMMA CoherentCreates ==
    ASSUME TypeInv, TypeInv', FoldersInv, CreateInv, CoherentInv, Creates
    PROVE  CoherentInv'
<1> SUFFICES ASSUME tidy' PROVE CoherentInv'
  BY DEF CoherentInv
<1>0. TypeOK /\ FilesInDirs
  BY DEF TypeInv, FoldersInv
<1>1. Creating /\ call' = call /\ call.id \in Ids /\ tidy
  <2>1. Creating /\ call' = call /\ tidy
    BY DEF Creates, Publish, PublishFails, RecordCreation, RecordCreationFails, OpenCreated,
         OpenCreatedFails, TakeBack, TakeBackFails, TypeInv, PcFits
  <2> QED
    BY <2>1 DEF TypeInv, CallFits
<1>2. Creating' /\ ~Deleting' /\ ~Reidentifying' /\ ~Running'
  BY <1>1 DEF Creating, Deleting, Reidentifying, Running
<1>3. FreshText # None /\ FreshText \in Text
  BY TextsAssumption, NoneAssumption
<1>4. CASE Publish
  <2>1. pc = "publish" /\ pc' = "record" /\ file' = [file EXCEPT ![call.id] = FreshText]
        /\ UNCHANGED <<dirs, index, dirRow>>
    BY <1>4 DEF Publish
  <2>2. Coherent /\ (call.made => call.id[1] \in call.rows)
    BY <1>1, <2>1 DEF CoherentInv
  <2>3. \A i \in Ids \ {call.id} : index'[i] = Entry(file'[i], i)
    BY <1>0, <1>1, <2>1, <2>2, EntryIsRow DEF TypeOK, Maybe
  <2>4. file'[call.id] = FreshText
    BY <1>0, <1>1, <2>1 DEF TypeOK, Maybe
  <2> QED
    BY <1>1, <1>2, <2>1, <2>2, <2>3, <2>4 DEF CoherentInv, OffIndex, Coherent, MadeUnlisted
<1>5. CASE PublishFails
  <2>1. pc = "publish" /\ pc' = "done" /\ dirs' = Cleaned(file) /\ UNCHANGED <<file, index, dirRow>>
    BY <1>5 DEF PublishFails, Refuse
  <2>2. Coherent /\ (call.made /\ Empty(call.id[1]) => call.id[1] \notin dirRow)
    BY <1>1, <2>1 DEF CoherentInv
  <2>3. Coherent'
    BY <2>1, <2>2 DEF Coherent, Cleaned, Empty, IndexOf, Entry
  <2> QED
    BY <2>1, <2>3, CoherentRests
<1>6. CASE RecordCreation
  <2>1. /\ pc = "record" /\ pc' = "open" /\ UNCHANGED <<file, dirs>>
        /\ index' = [index EXCEPT ![call.id] = Entry(FreshText, call.id)]
        /\ dirRow' = (dirRow \cup {call.id[1]}) \ {Root}
    BY <1>6 DEF RecordCreation
  <2>2. OffIndex /\ dirRow \subseteq dirs /\ MadeUnlisted /\ file[call.id] = FreshText
    BY <1>1, <2>1 DEF CoherentInv
  <2>3. call.id[1] \in dirs
    BY <1>0, <1>1, <1>3, <2>2 DEF FilesInDirs
  <2>4. OffIndex' /\ index'[call.id] = Entry(file'[call.id], call.id)
    BY <1>0, <1>1, <2>1, <2>2 DEF OffIndex, TypeOK, Maybe
  <2> QED
    BY <1>1, <1>2, <2>1, <2>2, <2>3, <2>4 DEF CoherentInv, MadeUnlisted
<1>7. CASE RecordCreationFails \/ OpenCreatedFails
  <2>1. pc \in {"record", "open"} /\ pc' = "takeback" /\ UNCHANGED <<file, dirs, index, dirRow>>
    BY <1>7 DEF RecordCreationFails, OpenCreatedFails, stores
  <2> QED
    BY <1>1, <1>2, <2>1 DEF CoherentInv, OffIndex, MadeUnlisted
<1>8. CASE OpenCreated
  <2>1. pc = "open" /\ pc' = "commit" /\ UNCHANGED <<file, dirs, index, dirRow>>
    BY <1>8 DEF OpenCreated
  <2>2. OffIndex /\ dirRow \subseteq dirs /\ index[call.id] = Entry(file[call.id], call.id)
    BY <1>1, <2>1 DEF CoherentInv
  <2>3. \A i \in Ids : index[i] = Entry(file[i], i)
    BY <2>2 DEF OffIndex
  <2>4. index = [i \in Ids |-> index[i]]
    BY <1>0 DEF TypeOK, Maybe
  <2>5. Coherent
    BY <2>2, <2>3, <2>4 DEF Coherent, IndexOf
  <2> QED
    BY <2>1, <2>5, CoherentKept, CoherentRests
<1>9. CASE TakeBack
  <2>1. /\ pc = "takeback" /\ pc' = "done"
        /\ index' = [index EXCEPT ![call.id] = None] /\ file' = [file EXCEPT ![call.id] = None]
        /\ dirRow' = dirRow \ call.rows /\ dirs' = Cleaned(file')
    BY <1>9 DEF TakeBack, Refuse
  <2>2. OffIndex /\ dirRow \subseteq dirs /\ MadeUnlisted
    BY <1>1, <2>1 DEF CoherentInv
  <2>3. \A i \in Ids : index'[i] = Entry(file'[i], i)
    BY <1>0, <1>1, <2>1, <2>2 DEF OffIndex, TypeOK, Maybe, Entry
  <2>4. index' = [i \in Ids |-> index'[i]]
    BY <1>0, <2>1 DEF TypeOK, Maybe
  <2>5. dirRow' \subseteq dirs'
    BY <2>1, <2>2 DEF Cleaned, MadeUnlisted
  <2>6. Coherent'
    BY <2>3, <2>4, <2>5 DEF Coherent, IndexOf
  <2> QED
    BY <2>1, <2>6, CoherentRests
<1>10. CASE TakeBackFails
  BY <1>10 DEF TakeBackFails
<1> QED
  BY <1>4, <1>5, <1>6, <1>7, <1>8, <1>9, <1>10 DEF Creates

(* Where the text of a Note is once everything has moved.                    *)
LEMMA ArrivedFile ==
    ASSUME TypeInv, PlanInv, RecordInv, StaysBare, Reidentifying,
           NEW i \in Ids, before.file[i] # None
    PROVE  file[call.move[i]] = FilesPlanned[i] /\ FilesPlanned[i] # None
<1>0. call.move \in [Ids -> Ids] /\ call.move[i] \in Ids
  BY NotingFacts
<1>1. FilesPlanned[i] = IF Planned(i) THEN plan[i].file ELSE before.file[i]
  BY <1>0, PlannedTypes
<1>2. FilesPlanned[i] # None
  BY <1>0, <1>1 DEF Planned
<1>3. file[call.move[i]] = FilesPlanned[i]
  <2>1. CASE Noting
    <3>1. call.id \in Ids /\ NewId \in Ids /\ call.kind # "renameDir" /\ NewId = call.move[call.id]
          /\ (Moved(i) => i = call.id)
      BY <1>0, <2>1, NotingFacts DEF NewId
    <3>2. CASE Moved(call.id)
      <4>1. file = [k \in Ids |-> IF k = NewId THEN FilesPlanned[call.id]
                                  ELSE IF k = call.id THEN None ELSE FilesPlanned[k]]
        BY <3>1, <3>2 DEF RecordInv, ArrivedFiles
      <4>2. i # NewId
        BY <1>0, <2>1, <3>2 DEF PlanInv
      <4>3. CASE i = call.id
        BY <3>1, <4>1, <4>3
      <4>4. CASE i # call.id
        BY <1>0, <3>1, <4>1, <4>2, <4>4 DEF Moved
      <4> QED
        BY <4>3, <4>4
    <3>3. CASE ~Moved(call.id)
      <4>1. file = FilesPlanned
        BY <3>1, <3>3 DEF RecordInv, ArrivedFiles
      <4> QED
        BY <1>0, <3>1, <3>3, <4>1 DEF Moved
    <3> QED
      BY <3>2, <3>3
  <2>2. CASE call.kind = "renameDir"
    <3>1. /\ call.dir \in Dirs /\ call.newDir \in Dirs /\ call.dir # call.newDir
          /\ Moved(i) => i[1] = call.dir /\ call.move[i] = <<call.newDir, i[2]>>
      BY <1>0, <2>2, NotingFacts
    <3>2. file = ShiftDir(FilesPlanned, call.dir, call.newDir)
      BY <2>2 DEF RecordInv, ArrivedFiles
    <3>3. \A k \in Ids : file[k] = IF k[1] = call.newDir THEN FilesPlanned[<<call.dir, k[2]>>]
                                   ELSE IF k[1] = call.dir THEN None ELSE FilesPlanned[k]
      BY <3>2 DEF ShiftDir
    <3>4. i = <<i[1], i[2]>> /\ i[2] \in Titles
      BY <1>0, IdParts
    <3>5. CASE Moved(i)
      <4>1. call.move[i][1] = call.newDir /\ call.move[i][2] = i[2]
        BY <3>1, <3>5
      <4>2. file[call.move[i]] = FilesPlanned[<<call.dir, i[2]>>]
        BY <1>0, <3>3, <4>1
      <4>3. <<call.dir, i[2]>> = i
        BY <3>1, <3>4, <3>5
      <4> QED
        BY <4>2, <4>3
    <3>6. CASE ~Moved(i)
      <4>1. i[1] # call.newDir
        BY <1>0, <1>2, <2>2 DEF RecordInv, In
      <4>2. i[1] # call.dir
        BY <1>0, <2>2, <3>6 DEF StaysBare, In
      <4> QED
        BY <1>0, <3>3, <3>6, <4>1, <4>2 DEF Moved
    <3> QED
      BY <3>5, <3>6
  <2> QED
    BY <2>1, <2>2, NotingFacts
<1> QED
  BY <1>2, <1>3

LEMMA ArrivedText ==
    ASSUME TypeInv, PlanInv, RecordInv, StaysBare, Reidentifying,
           NEW i \in DOMAIN plan, plan[i].had
    PROVE  FinalText(i) = file[call.move[i]]
<1>1. i \in Ids /\ before.file[i] # None
  BY DEF TypeInv, PlanFits, PlanInv
<1>2. FilesPlanned[i] = IF Planned(i) THEN plan[i].file ELSE before.file[i]
  BY <1>1, PlannedTypes
<1> QED
  BY <1>1, <1>2, ArrivedFile DEF FinalText, Planned

(* A Note that did not arrive from another id keeps its file.                *)
LEMMA StayedFile ==
    ASSUME TypeInv, PlanInv, RecordInv, CoverInv, StaysBare, Reidentifying, NEW k \in Ids,
           ~ \E i \in Arrived(k) : plan[i].had,
           ~(k \in DOMAIN plan /\ Moved(k))
    PROVE  file[k] = before.file[k]
<1>0. call.move \in [Ids -> Ids] /\ \A i \in DOMAIN plan : i \in Ids /\ (plan[i].had <=> before.file[i] # None)
  BY NotingFacts DEF TypeInv, PlanFits, PlanInv
<1>1. \A i \in Ids : FilesPlanned[i] = IF Planned(i) THEN plan[i].file ELSE before.file[i]
  BY PlannedTypes
<1>2. \A i \in Ids : before.file[i] = None => FilesPlanned[i] = None
  BY <1>1 DEF PlanInv, Planned
<1>3. FilesPlanned[k] = before.file[k]
  <2>1. CASE Planned(k)
    <3>1. k \in DOMAIN plan /\ ~Moved(k) /\ plan[k].had
      BY <2>1 DEF Planned, PlanInv
    <3>2. k \in Arrived(k)
      BY <3>1 DEF Arrived, Moved
    <3> QED
      BY <3>1, <3>2
  <2>2. CASE ~Planned(k)
    BY <1>1, <2>2
  <2> QED
    BY <2>1, <2>2
<1>4. \A i \in Ids : Moved(i) /\ before.file[i] # None => call.move[i] # k
  <2> SUFFICES ASSUME NEW i \in Ids, Moved(i), before.file[i] # None, call.move[i] = k PROVE FALSE
    OBVIOUS
  <2>1. i \in DOMAIN plan
    BY DEF CoverInv
  <2>2. i \in Arrived(k) /\ plan[i].had
    BY <1>0, <2>1 DEF Arrived
  <2> QED
    BY <2>2
<1>5. CASE Noting
  <2>1. call.id \in Ids /\ NewId \in Ids /\ call.kind # "renameDir" /\ NewId = call.move[call.id]
    BY <1>5, NotingFacts DEF NewId
  <2>2. CASE Moved(call.id)
    <3>1. file = [j \in Ids |-> IF j = NewId THEN FilesPlanned[call.id]
                                ELSE IF j = call.id THEN None ELSE FilesPlanned[j]]
      BY <2>1, <2>2 DEF RecordInv, ArrivedFiles
    <3>2. k # NewId
      BY <1>4, <1>5, <2>1, <2>2 DEF PlanInv
    <3>3. k # call.id
      BY <1>5, <2>2 DEF PlanInv
    <3> QED
      BY <1>3, <3>1, <3>2, <3>3
  <2>3. CASE ~Moved(call.id)
    BY <1>3, <2>1, <2>3 DEF RecordInv, ArrivedFiles
  <2> QED
    BY <2>2, <2>3
<1>6. CASE call.kind = "renameDir"
  <2>1. /\ call.dir \in Dirs /\ call.newDir \in Dirs /\ call.dir # call.newDir
        /\ \A i \in Ids : Moved(i) => i[1] = call.dir /\ call.move[i] = <<call.newDir, i[2]>>
    BY <1>6, NotingFacts
  <2>2. file[k] = IF k[1] = call.newDir THEN FilesPlanned[<<call.dir, k[2]>>]
                  ELSE IF k[1] = call.dir THEN None ELSE FilesPlanned[k]
    BY <1>6 DEF RecordInv, ArrivedFiles, ShiftDir
  <2>3. CASE k[1] = call.newDir
    <3> DEFINE i == <<call.dir, k[2]>>
    <3>1. i \in Ids /\ i[1] = call.dir /\ i[2] = k[2] /\ k = <<k[1], k[2]>>
      BY <2>1, IdParts
    <3>2. before.file[k] = None
      BY <1>3, <1>6, <2>3 DEF RecordInv, In
    <3> HIDE DEF i
    <3>3. before.file[i] = None
      <4> SUFFICES ASSUME before.file[i] # None PROVE FALSE
        OBVIOUS
      <4>1. Moved(i)
        BY <1>6, <3>1 DEF StaysBare, In
      <4>2. call.move[i] = k
        BY <2>1, <2>3, <3>1, <4>1
      <4> QED
        BY <1>4, <3>1, <4>1, <4>2
    <3>4. FilesPlanned[i] = None
      BY <1>2, <3>1, <3>3
    <3> QED
      BY <2>2, <2>3, <3>2, <3>4 DEF i
  <2>4. CASE k[1] = call.dir
    <3>1. before.file[k] = None
      <4> SUFFICES ASSUME before.file[k] # None PROVE FALSE
        OBVIOUS
      <4>1. Moved(k)
        BY <1>6, <2>4 DEF StaysBare, In
      <4> QED
        BY <4>1 DEF CoverInv
    <3> QED
      BY <2>1, <2>2, <2>4, <3>1
  <2>5. CASE k[1] # call.newDir /\ k[1] # call.dir
    BY <1>3, <2>2, <2>5
  <2> QED
    BY <2>3, <2>4, <2>5
<1> QED
  BY <1>5, <1>6, NotingFacts

(* The file of a Note that moved away is gone.                               *)
LEMMA LeftFile ==
    ASSUME TypeInv, PlanInv, RecordInv, Reidentifying, NEW k \in Ids, Moved(k)
    PROVE  file[k] = None
<1>1. CASE Noting
  <2>1. k = call.id /\ NewId # call.id /\ call.kind # "renameDir"
    BY <1>1, NotingFacts DEF NewId, Moved
  <2> QED
    BY <2>1 DEF RecordInv, ArrivedFiles
<1>2. CASE call.kind = "renameDir"
  <2>1. k[1] = call.dir /\ call.dir # call.newDir
    BY <1>2, NotingFacts
  <2> QED
    BY <1>2, <2>1 DEF RecordInv, ArrivedFiles, ShiftDir
<1> QED
  BY <1>1, <1>2, NotingFacts

(* The transaction of a rename or move leaves exactly the rows that a scan   *)
(* of the files would.                                                       *)
LEMMA RecordedRows ==
    ASSUME TypeInv, PlanInv, RecordInv, CoverInv, StaysBare, Reidentifying,
           index = IndexOf(before.file), index = before.index
    PROVE  RecordedIndex = IndexOf(file)
<1> SUFFICES ASSUME NEW k \in Ids
             PROVE  RecordedIndex[k] = Entry(file[k], k)
  BY DEF RecordedIndex, IndexOf
<1>1. CASE \E i \in Arrived(k) : plan[i].had
  <2> DEFINE i == CHOOSE j \in Arrived(k) : plan[j].had
  <2>1. i \in Arrived(k) /\ plan[i].had
    BY <1>1
  <2>2. RecordedIndex[k] = Entry(FinalText(i), k)
    BY <1>1 DEF RecordedIndex
  <2> HIDE DEF i
  <2>3. i \in DOMAIN plan /\ call.move[i] = k
    BY <2>1 DEF Arrived
  <2>4. FinalText(i) = file[k]
    BY <2>1, <2>3, ArrivedText
  <2> QED
    BY <2>2, <2>4
<1>2. CASE ~(\E i \in Arrived(k) : plan[i].had) /\ k \in DOMAIN plan /\ Moved(k)
  <2>1. RecordedIndex[k] = None
    BY <1>2 DEF RecordedIndex
  <2>2. file[k] = None
    BY <1>2, LeftFile
  <2> QED
    BY <2>1, <2>2 DEF Entry
<1>3. CASE ~(\E i \in Arrived(k) : plan[i].had) /\ ~(k \in DOMAIN plan /\ Moved(k))
  <2>1. RecordedIndex[k] = Retargeted(index[k])
    BY <1>3 DEF RecordedIndex
  <2>2. file[k] = before.file[k]
    BY <1>3, StayedFile
  <2>3. index[k] = Entry(file[k], k)
    BY <2>2 DEF IndexOf
  <2>4. index[k] \notin MovedIds
    <3> SUFFICES ASSUME index[k] \in MovedIds PROVE FALSE
      OBVIOUS
    <3>1. index[k] # None
      BY NoneAssumption DEF MovedIds
    <3>2. before.file[k] # None
      BY <2>2, <2>3, <3>1 DEF Entry
    <3>3. k \in DOMAIN plan /\ plan[k].had /\ ~Moved(k)
      BY <1>3, <3>2 DEF CoverInv, PlanInv
    <3>4. k \in Arrived(k)
      BY <3>3 DEF Arrived, Moved
    <3> QED
      BY <1>3, <3>3, <3>4
  <2> QED
    BY <2>1, <2>3, <2>4 DEF Retargeted
<1> QED
  BY <1>1, <1>2, <1>3

LEMMA CoherentRecord ==
    ASSUME TypeInv, TypeInv', FoldersInv, RunInv, CoherentInv, RecordMove, tidy'
    PROVE  CoherentInv'
<1>1. /\ pc = "record" /\ pc' = "commit" /\ tidy /\ Reidentifying /\ UNCHANGED <<file, dirs>>
      /\ \A i \in DOMAIN plan : plan[i].had => FinalText(i) # None
      /\ index' = RecordedIndex /\ dirRow' = RecordedDirs
  BY DEF RecordMove
<1>2. Running
  BY <1>1, NotingFacts DEF Running
<1>3. /\ PlanInv /\ RecordInv /\ Quiet /\ CoverInv /\ StaysBare
      /\ before.index = IndexOf(before.file) /\ before.dirRow \subseteq before.dirs
  BY <1>1, <1>2 DEF RunInv, CoherentInv
<1>4. index = before.index /\ dirRow = before.dirRow
  BY <1>3 DEF Quiet
<1>5. RecordedIndex = IndexOf(file)
  BY <1>1, <1>3, <1>4, RecordedRows
<1>6. RecordedDirs \subseteq dirs
  <2>1. ASSUME NEW i \in DOMAIN plan, plan[i].had PROVE call.move[i][1] \in dirs
    <3>1. file[call.move[i]] # None
      BY <1>1, <1>3, <2>1, ArrivedText
    <3>2. call.move[i] \in Ids
      BY NotingFacts DEF TypeInv, PlanFits
    <3> QED
      BY <3>1, <3>2 DEF FoldersInv, FilesInDirs
  <2>2. call.kind = "renameDir" => (dirRow \ {call.dir}) \cup {call.newDir} \subseteq dirs
    BY <1>3, <1>4 DEF RecordInv, ArrivedDirs
  <2>3. call.kind # "renameDir" => dirRow \subseteq dirs
    BY <1>3, <1>4 DEF RecordInv, ArrivedDirs
  <2> QED
    BY <2>1, <2>2, <2>3 DEF RecordedDirs
<1>7. Coherent'
  BY <1>1, <1>5, <1>6 DEF Coherent, IndexOf, Entry
<1> QED
  BY <1>1, <1>7, CoherentRests

LEMMA CoherentReidentifies ==
    ASSUME TypeInv, TypeInv', FoldersInv, RunInv, CoherentInv, Reidentifies
    PROVE  CoherentInv'
<1> SUFFICES ASSUME tidy' PROVE CoherentInv'
  BY DEF CoherentInv
<1>1. CASE FilesWritten \/ MoveDir \/ FilesMoved \/ \E i \in Ids : WriteFile(i) \/ MoveFile(i)
  <2>1. /\ pc \in {"write", "move"} /\ pc' \in {"write", "move", "record"} /\ tidy
        /\ UNCHANGED <<call, plan, before>> /\ (pc' = "record" => pc = "move")
    BY <1>1 DEF FilesWritten, MoveDir, FilesMoved, WriteFile, MoveFile
  <2>2. Reidentifying
    BY <2>1 DEF TypeInv, PcFits
  <2>3. Running
    BY <2>1, <2>2, NotingFacts DEF Running
  <2> QED
    BY <2>1, <2>2, <2>3, CoherentRuns
<1>2. CASE SettleMove \/ Answer \/ AnswerFails
  <2>1. /\ pc \in {"settle", "answer"} /\ pc' \in {"done", "answer"} /\ tidy
        /\ UNCHANGED <<file, dirs, index, dirRow>>
    BY <1>2 DEF SettleMove, Answer, AnswerFails, Refuse, stores
  <2> QED
    BY <2>1, CoherentKept, CoherentRests DEF CoherentInv
<1> QED
  BY <1>1, <1>2, CoherentPlan, CoherentRecord DEF Reidentifies

LEMMA CoherentNext ==
    ASSUME ~RescanRaces, OperationInv, OperationInv', CoherentInv, [Next]_vars
    PROVE  CoherentInv'
<1>0. TypeInv /\ TypeInv' /\ FoldersInv /\ DraftsInv /\ RunInv /\ CreateInv /\ AfterInv
  BY DEF OperationInv
<1>1. CASE UNCHANGED vars
  <2>1. /\ UNCHANGED <<pc, call, plan, before, file, dirs, index, dirRow, draft, tidy>>
        /\ Creating' = Creating /\ Deleting' = Deleting /\ Reidentifying' = Reidentifying
        /\ Running' = Running /\ MovedIds' = MovedIds /\ Scope' = Scope
        /\ (\A k : (Moved(k))' = Moved(k))
    BY <1>1 DEF vars, Creating, Deleting, Reidentifying, Running, Moved, MovedIds, Scope
  <2>2. (IndexOf(before.file))' = IndexOf(before.file) /\ Coherent' = Coherent
        /\ OffIndex' = OffIndex /\ CoverInv' = CoverInv /\ StaysBare' = StaysBare
        /\ MadeUnlisted' = MadeUnlisted /\ (Empty(call.id[1]))' = Empty(call.id[1])
    BY <2>1 DEF Coherent, OffIndex, CoverInv, StaysBare, MadeUnlisted, Empty, IndexOf, Entry, In
  <2> QED
    BY <2>1, <2>2 DEF CoherentInv
<1>2. CASE Crash
  <2>1. Coherent'
    BY <1>2 DEF Crash, Coherent, IndexOf, Entry
  <2> QED
    BY <1>2, <2>1, CoherentRests DEF Crash
<1>3. CASE Rescan
  <2>1. pc' = "rescan" /\ before'.file = file' /\ before'.dirs = dirs'
    BY <1>3 DEF Rescan, Stores, stores
  <2>2. ~Creating' /\ ~Running' /\ ~Reidentifying' /\ ~Deleting'
    BY <1>0, <2>1 DEF TypeInv, PcFits, Creating, Running, Reidentifying, Deleting
  <2> QED
    BY <2>1, <2>2 DEF CoherentInv
<1>4. CASE Reindex /\ tidy'
  <2>1. /\ pc = "rescan" /\ pc' = "idle" /\ tidy /\ UNCHANGED <<file, dirs>>
        /\ index' = IndexOf(before.file) /\ dirRow' = before.dirs \ {Root}
    BY <1>4 DEF Reindex
  <2>2. Coherent'
    BY <2>1 DEF CoherentInv, Coherent, IndexOf, Entry
  <2> QED
    BY <2>1, <2>2, CoherentRests
<1>5. CASE Return /\ tidy'
  <2>1. pc = "done" /\ pc' = "idle" /\ tidy /\ UNCHANGED <<file, dirs, index, dirRow>>
    BY <1>5 DEF Return, stores
  <2> QED
    BY <2>1, CoherentKept, CoherentRests DEF CoherentInv
<1>6. CASE Commit /\ tidy'
  <2>1. pc = "commit" /\ pc' \in {"done", "settle"} /\ tidy /\ UNCHANGED <<file, dirs, index, dirRow>>
    BY <1>6 DEF Commit
  <2> QED
    BY <2>1, CoherentKept, CoherentRests DEF CoherentInv
<1>7. ~tidy' => CoherentInv'
  BY DEF CoherentInv
<1> QED
  BY <1>0, <1>1, <1>2, <1>3, <1>4, <1>5, <1>6, <1>7, CoherentStarts, CoherentSessions,
     CoherentReidentifies, CoherentDeletes, CoherentCreates, CoherentUnwinds DEF Next, Operates

(* Between operations the index describes the files, lists no folder that is *)
(* gone, and nothing is parked, whichever steps failed, were rolled back or  *)
(* were cut short by a kill and whatever sessions wrote meanwhile. No        *)
(* session writes while reindex_workspace is between its scan and its        *)
(* transaction: MCLifecycle_rescan.cfg shows what such a write costs.        *)
THEOREM IndexDescribesFiles ==
    ASSUME ~RescanRaces
    PROVE  Spec => []Settled
<1>1. CoherentInv /\ OperationInv /\ OperationInv' /\ [Next]_vars => CoherentInv'
  BY CoherentNext
<1>2. OperationInv /\ CoherentInv => Settled
  BY DEF OperationInv, RunInv, CoherentInv, Coherent, Settled
<1> QED
  BY <1>1, <1>2, CoherentInit, OperationsHold, PTL DEF Spec

-----------------------------------------------------------------------------
(* Links. Where a Note of another Directory than the call's arrives, its     *)
(* Links are absolute; an operation plans, from the texts it found, a        *)
(* rewritten text for every Note that moves or whose Link names one that     *)
(* moves; and the files after the last step, the draft rows after the        *)
(* transaction and the sessions after the exchange are the texts it found,   *)
(* each at its new id with the Links the plan gives it.                      *)
Absolute == Noting /\ NewId[1] # call.id[1] => call.absolutize

(* The checks of an operation let no draft row and no session be where a     *)
(* Note is to go.                                                            *)
DestinationsOpen ==
    \A i \in Ids : Moved(i) => draft[call.move[i]] = None /\ session[call.move[i]] = None

(* plan_affected writes for each of its Notes what the rewrite makes of its  *)
(* file, draft row and buffer, and passes over no draft row or session that  *)
(* the rewrite would change.                                                 *)
PlanTells ==
    /\ \A i \in DOMAIN plan :
          /\ plan[i].file = NewText(before.file[i], i)
          /\ plan[i].draft = NewText(before.draft[i], i)
          /\ before.session[i] # None => plan[i].buf = NewText(before.session[i].buf, i)
    /\ \A i \in Ids \ DOMAIN plan :
          /\ before.draft[i] # None => ~Moved(i) /\ NewText(before.draft[i], i) = None
          /\ before.session[i] # None => ~Moved(i) /\ NewText(before.session[i].buf, i) = None
    /\ \A i \in Ids : Moved(i) => before.draft[call.move[i]] = None /\ before.session[call.move[i]] = None
    /\ call.kind = "renameDir" => \A i \in In(call.dir) : ~Moved(i) => before.draft[i] = None

(* What has been carried by then: the files, the draft rows, the sessions.   *)
FilesFollow ==
    \A i \in Ids : /\ Follows(before.file[i], i, file[call.move[i]], call.move[i])
                   /\ Moved(i) => file[i] = None

DraftsFollow ==
    \A i \in Ids : /\ Follows(before.draft[i], i, draft[call.move[i]], call.move[i])
                   /\ Moved(i) => draft[i] = None

SessionsFollow ==
    \A i \in Ids : /\ Follows(Buffer(before.session[i]), i, Buffer(session[call.move[i]]), call.move[i])
                   /\ Moved(i) => session[i] = None

(* All of it, by phase, as long as no step has failed and no one else has    *)
(* written.                                                                  *)
FollowInv ==
    /\ Absolute
    /\ tidy =>
         /\ pc = "begun" => DestinationsOpen
         /\ Reidentifying /\ pc \in {"write", "move", "record"} => PlanTells
         /\ Reidentifying /\ pc \in {"commit", "settle"} =>
               /\ PlanTells /\ StaysBare
               /\ session = before.session
               /\ FilesFollow /\ DraftsFollow
         /\ pc = "answer" => FilesFollow /\ DraftsFollow /\ SessionsFollow
         /\ LinksFollow

(* rewrite_index spells a Link anew, from the root, if its target moves or   *)
(* the text is to be absolute, and leaves every other text as it is.         *)
LEMMA RewriteForm ==
    ASSUME NEW t \in Text, NEW i \in Ids, NEW move \in [Ids -> Ids], NEW absolutize \in BOOLEAN
    PROVE  Rewrite(t, i, move, absolutize) =
             IF t.link # None /\ (absolutize \/ move[Target(t, i[1])] # Target(t, i[1]))
             THEN [t EXCEPT !.link = LinkTo(move[Target(t, i[1])])] ELSE t
<1> DEFINE d == i[1]
           w == Target(t, d)
           u == IF absolutize THEN AbsolutizeLinks(t, d) ELSE t
<1>1. d \in Dirs
  BY IdParts
<1>2. Rewrite(t, i, move, absolutize) = RewriteTargets(u, d, move)
  BY DEF Rewrite
<1>3. CASE t.link = None
  <2>1. u = t
    BY <1>3 DEF AbsolutizeLinks
  <2>2. Target(u, d) = None
    BY <1>3, <2>1 DEF Target
  <2> QED
    BY <1>2, <1>3, <2>1, <2>2 DEF RewriteTargets
<1>4. CASE t.link # None
  <2>1. w = Resolve(t.link, d) /\ w \in Ids /\ w # None
    BY <1>1, <1>4, TargetType, NoneAssumption DEF Target
  <2>2. u = IF absolutize THEN [t EXCEPT !.link = LinkTo(w)] ELSE t
    BY <1>4, <2>1 DEF AbsolutizeLinks
  <2>3. Target(u, d) = w
    BY <1>1, <2>1, <2>2, LinkToTarget
  <2>4. RewriteTargets(u, d, move) = IF move[w] = w THEN u ELSE [u EXCEPT !.link = LinkTo(move[w])]
    BY <2>1, <2>3 DEF RewriteTargets
  <2>5. [[t EXCEPT !.link = LinkTo(w)] EXCEPT !.link = LinkTo(move[w])] = [t EXCEPT !.link = LinkTo(move[w])]
    BY DEF Text
  <2>6. RewriteTargets(u, d, move) = IF absolutize \/ move[w] # w THEN [t EXCEPT !.link = LinkTo(move[w])] ELSE t
    BY <2>2, <2>4, <2>5
  <2> QED
    BY <1>2, <1>4, <2>6
<1> QED
  BY <1>3, <1>4

LEMMA AfterText ==
    ASSUME TypeInv, NEW t \in Text, NEW i \in Ids
    PROVE  /\ NewText(t, i) # None => NewText(t, i) = Rewritten(t, i)
           /\ NewText(t, i) = None => Rewritten(t, i) = t
           /\ Rewritten(t, i) \in Text
<1>1. call.move \in [Ids -> Ids] /\ (call.absolutize /\ i = call.id) \in BOOLEAN
  BY DEF TypeInv, CallFits, CallType
<1>2. Rewritten(t, i) \in Text
  BY <1>1, RewriteType DEF Rewritten
<1> QED
  BY <1>2, NoneAssumption DEF NewText

(* A text planned anew says where it arrives what it said where it was.      *)
LEMMA TextFollows ==
    ASSUME TypeInv, Absolute, StaysBare, PlanTells, Reidentifying, NEW i \in Ids, NEW t \in Text
    PROVE  Follows(t, i, Rewritten(t, i), call.move[i])
<1> DEFINE k == call.move[i]
           u == Rewritten(t, i)
           w == Target(t, i[1])
           a == call.absolutize /\ i = call.id
<1>1. call.move \in [Ids -> Ids] /\ a \in BOOLEAN /\ k \in Ids
  BY DEF TypeInv, CallFits, CallType
<1>2. u = Rewrite(t, i, call.move, a)
  BY DEF Rewritten
<1>3. i[1] \in Dirs /\ k[1] \in Dirs
  BY <1>1, IdParts
<1> HIDE DEF a, k
<1>4. u = IF t.link # None /\ (a \/ call.move[w] # w) THEN [t EXCEPT !.link = LinkTo(call.move[w])] ELSE t
  BY <1>1, <1>2, RewriteForm
<1> HIDE DEF u
<1>5. u \in Text /\ u # None /\ t # None
  BY AfterText, NoneAssumption DEF u
<1>6. u.body = t.body
  BY <1>4 DEF Text
<1>7. CASE t.link = None
  <2>1. u = t /\ w = None /\ Target(u, k[1]) = None
    BY <1>4, <1>7 DEF Target
  <2> QED
    BY <1>5, <1>6, <2>1 DEF Follows, u, w, k
<1>8. CASE t.link # None
  <2>1. w = Resolve(t.link, i[1]) /\ w \in Ids /\ w # None /\ call.move[w] \in Ids
    BY <1>1, <1>3, <1>8, TargetType, NoneAssumption DEF Target
  <2>2. ASSUME Target(u, k[1]) = call.move[w] PROVE Follows(t, i, u, k)
    BY <1>5, <1>6, <2>1, <2>2 DEF Follows
  <2>3. CASE a \/ call.move[w] # w
    <3>1. u = [t EXCEPT !.link = LinkTo(call.move[w])]
      BY <1>4, <1>8, <2>3
    <3>2. Target(u, k[1]) = call.move[w]
      BY <1>3, <2>1, <3>1, LinkToTarget
    <3> QED
      BY <2>2, <3>2 DEF u, k
  <2>4. CASE ~a /\ call.move[w] = w
    <3>1. u = t
      BY <1>4, <2>4
    <3>2. Target(u, k[1]) = Resolve(t.link, k[1])
      BY <1>8, <3>1 DEF Target
    <3>3. CASE t.link.dir # Here \/ k[1] = i[1]
      <4>1. Target(u, k[1]) = w
        BY <2>1, <3>2, <3>3 DEF Resolve
      <4> QED
        BY <2>2, <2>4, <4>1 DEF u, k
    <3>4. CASE t.link.dir = Here /\ k[1] # i[1]
      <4>1. Moved(i)
        BY <3>4 DEF Moved, k
      <4>2. call.kind = "renameDir"
        <5> SUFFICES ASSUME Noting PROVE FALSE
          BY NotingFacts
        <5>1. i = call.id /\ k = NewId
          BY <4>1, NotingFacts DEF k, NewId
        <5> QED
          BY <2>4, <3>4, <5>1 DEF Absolute, a
      <4>3. i[1] = call.dir /\ w[1] = i[1] /\ ~Moved(w)
        BY <2>1, <2>4, <3>4, <4>1, <4>2, NotingFacts DEF Resolve, Moved
      <4>4. before.file[w] = None /\ before.draft[w] = None
        BY <2>1, <4>2, <4>3 DEF StaysBare, PlanTells, In
      <4> QED
        BY <1>5, <1>6, <2>1, <3>1, <3>4, <4>2, <4>4 DEF Follows, u, w, k
    <3> QED
      BY <3>3, <3>4
  <2> QED
    BY <2>3, <2>4
<1> QED
  BY <1>7, <1>8

(* An id that moves goes where nothing comes from, and no two arrive at one. *)
LEMMA MoveFacts ==
    ASSUME TypeInv, Reidentifying
    PROVE  /\ \A i, j \in Ids : Moved(i) /\ Moved(j) /\ call.move[i] = call.move[j] => i = j
           /\ \A i \in Ids : Moved(i) => ~Moved(call.move[i]) /\ call.move[i] \in Ids
           /\ \A i \in Ids : ~Moved(i) => call.move[i] = i
<1>1. call.move \in [Ids -> Ids]
  BY NotingFacts
<1>2. CASE Noting
  <2>1. \A i \in Ids : Moved(i) => i = call.id
    BY <1>2, NotingFacts
  <2> QED
    BY <1>1, <2>1 DEF Moved
<1>3. CASE call.kind = "renameDir"
  <2>1. /\ call.dir # call.newDir
        /\ \A i \in Ids : Moved(i) => i[1] = call.dir /\ call.move[i] = <<call.newDir, i[2]>>
    BY <1>3, NotingFacts
  <2>2. \A i \in Ids : i = <<i[1], i[2]>>
    BY IdParts
  <2>3. \A i \in Ids : Moved(i) => call.move[i][1] = call.newDir /\ call.move[i][2] = i[2]
    BY <2>1
  <2>4. ASSUME NEW i \in Ids, NEW j \in Ids, Moved(i), Moved(j), call.move[i] = call.move[j] PROVE i = j
    <3>1. i[1] = j[1] /\ i[2] = j[2]
      BY <2>1, <2>3, <2>4
    <3> QED
      BY <2>2, <3>1
  <2>5. \A i \in Ids : Moved(i) => ~Moved(call.move[i])
    BY <1>1, <2>1, <2>3
  <2> QED
    BY <1>1, <2>4, <2>5 DEF Moved
<1> QED
  BY <1>2, <1>3, NotingFacts

(* What arrives at an id, of the draft rows or of the sessions: what was at  *)
(* the id that moved there.                                                  *)
LEMMA Arrivals ==
    ASSUME TypeInv, Reidentifying, NEW s,
           \A i \in Ids : Moved(i) => s[call.move[i]] = None
    PROVE  /\ \A i \in DOMAIN plan : s[i] # None =>
                 /\ \E j \in Arrived(call.move[i]) : s[j] # None
                 /\ (CHOOSE j \in Arrived(call.move[i]) : s[j] # None) = i
           /\ \A i \in Ids \ DOMAIN plan : s[i] # None /\ ~Moved(i) =>
                 ~ \E j \in Arrived(i) : s[j] # None
           /\ \A i \in Ids : Moved(i) => ~ \E j \in Arrived(i) : s[j] # None
           /\ \A i \in Ids : s[i] = None /\ (\E j \in Arrived(call.move[i]) : s[j] # None) =>
                 \E m \in MovedIds : call.move[m] = i
<1>0. /\ \A i \in DOMAIN plan : i \in Ids
      /\ \A k, j : j \in Arrived(k) <=> j \in DOMAIN plan /\ call.move[j] = k
  BY DEF TypeInv, PlanFits, Arrived
<1>1. ASSUME NEW i \in DOMAIN plan, s[i] # None
      PROVE  /\ i \in Arrived(call.move[i])
             /\ \A j \in Arrived(call.move[i]) : s[j] # None => j = i
  <2> SUFFICES ASSUME NEW j \in Arrived(call.move[i]), s[j] # None PROVE j = i
    BY <1>0
  <2>1. i \in Ids /\ j \in Ids /\ call.move[j] = call.move[i]
    BY <1>0
  <2> QED
    BY <1>1, <2>1, MoveFacts
<1>2. ASSUME NEW i \in Ids \ DOMAIN plan, s[i] # None, ~Moved(i), NEW j \in Arrived(i), s[j] # None
      PROVE  FALSE
  <2>1. j \in Ids /\ call.move[j] = i /\ j # i
    BY <1>0, <1>2
  <2> QED
    BY <1>2, <2>1, MoveFacts
<1>3. ASSUME NEW i \in Ids, Moved(i), NEW j \in Arrived(i), s[j] # None PROVE FALSE
  <2>1. j \in Ids /\ call.move[j] = i
    BY <1>0
  <2> QED
    BY <1>3, <2>1, MoveFacts
<1>4. ASSUME NEW i \in Ids, s[i] = None, NEW j \in Arrived(call.move[i]), s[j] # None
      PROVE  \E m \in MovedIds : call.move[m] = i
  <2>1. j \in Ids /\ call.move[j] = call.move[i] /\ j # i
    BY <1>0, <1>4
  <2>2. ~Moved(i) /\ Moved(j)
    BY <1>4, <2>1, MoveFacts
  <2>3. call.move[j] = i
    BY <2>1, <2>2, MoveFacts
  <2> QED
    BY <2>1, <2>2, <2>3 DEF MovedIds
<1> QED
  BY <1>1, <1>2, <1>3, <1>4

-----------------------------------------------------------------------------
(* Every step keeps it, and a rename or move that completes has carried      *)
(* every Link.                                                               *)
LEMMA FollowsNothing ==
    ASSUME NEW i, NEW u, NEW k, u = None \/ \E m \in MovedIds : call.move[m] = i
    PROVE  Follows(None, i, u, k)
BY DEF Follows

LEMMA FilesFollowPlan ==
    ASSUME TypeInv, Absolute, PlanInv, RecordInv, CoverInv, StaysBare, PlanTells, Reidentifying,
           before.index = IndexOf(before.file)
    PROVE  FilesFollow
<1> SUFFICES ASSUME NEW i \in Ids
             PROVE  Follows(before.file[i], i, file[call.move[i]], call.move[i])
  BY LeftFile DEF FilesFollow
<1>0. call.move[i] \in Ids /\ before.file[i] \in Text \cup {None}
  BY NotingFacts DEF TypeInv, StoresType, Maybe
<1>1. CASE before.file[i] # None
  <2>1. before.file[i] \in Text
    BY <1>0, <1>1
  <2>2. file[call.move[i]] = FilesPlanned[i]
    BY <1>1, ArrivedFile
  <2>3. FilesPlanned[i] = IF Planned(i) THEN plan[i].file ELSE before.file[i]
    BY PlannedTypes
  <2>4. CASE i \in DOMAIN plan
    <3>1. FilesPlanned[i] = Rewritten(before.file[i], i)
      BY <2>1, <2>3, <2>4, AfterText DEF PlanTells, Planned
    <3> QED
      BY <2>1, <2>2, <3>1, TextFollows
  <2>5. CASE i \notin DOMAIN plan
    <3>1. FilesPlanned[i] = before.file[i]
      BY <2>3, <2>5 DEF Planned
    <3>2. ~Moved(i) /\ before.index[i] \notin MovedIds
      BY <1>1, <2>5 DEF CoverInv
    <3>3. before.index[i] = Entry(before.file[i], i)
      BY DEF IndexOf
    <3> DEFINE w == Target(before.file[i], i[1])
    <3>4. CASE before.file[i].link = None
      <4>1. w = None
        BY <3>4 DEF Target
      <4> QED
        BY <1>1, <2>2, <3>1, <3>2, <4>1 DEF Follows, Moved
    <3>5. CASE before.file[i].link # None
      <4>1. w \in Ids /\ w # None
        BY <2>1, <3>5, TargetType, IdParts, NoneAssumption
      <4>2. before.index[i] = w
        BY <1>1, <3>3, <3>5 DEF Entry
      <4>3. call.move[w] = w
        BY <3>2, <4>1, <4>2 DEF MovedIds, Moved
      <4> QED
        BY <1>1, <2>2, <3>1, <3>2, <4>1, <4>3 DEF Follows, Moved
    <3> QED
      BY <3>4, <3>5
  <2> QED
    BY <2>4, <2>5
<1>2. CASE before.file[i] = None
  <2>1. CASE Moved(i)
    <3>1. call.kind = "renameDir"
      <4> SUFFICES ASSUME Noting PROVE FALSE
        BY NotingFacts
      <4>1. i = call.id
        BY <2>1, NotingFacts
      <4> QED
        BY <1>2, <4>1 DEF PlanInv
    <3>2. /\ call.dir # call.newDir /\ i[1] = call.dir /\ call.move[i] = <<call.newDir, i[2]>>
          /\ i = <<i[1], i[2]>>
      BY <2>1, <3>1, NotingFacts, IdParts
    <3>3. call.move[i][1] = call.newDir /\ call.move[i][2] = i[2] /\ <<call.dir, i[2]>> = i
      BY <3>2
    <3>4. file[call.move[i]] = FilesPlanned[<<call.dir, call.move[i][2]>>]
      BY <1>0, <3>1, <3>3 DEF RecordInv, ArrivedFiles, ShiftDir
    <3>5. FilesPlanned[i] = None
      BY <1>2, PlannedTypes DEF PlanInv, Planned
    <3>6. file[call.move[i]] = None
      BY <3>3, <3>4, <3>5
    <3> QED
      BY <1>2, <3>6, FollowsNothing
  <2>2. CASE ~Moved(i) /\ \E j \in Arrived(i) : plan[j].had
    <3>1. PICK j \in Arrived(i) : plan[j].had
      BY <2>2
    <3>2. j \in DOMAIN plan /\ j \in Ids /\ call.move[j] = i /\ before.file[j] # None
      BY <3>1 DEF Arrived, TypeInv, PlanFits, PlanInv
    <3>3. j \in MovedIds
      BY <1>2, <3>2 DEF MovedIds, Moved
    <3> QED
      BY <1>2, <3>2, <3>3, FollowsNothing
  <2>3. CASE ~Moved(i) /\ ~ \E j \in Arrived(i) : plan[j].had
    <3>1. file[i] = before.file[i]
      BY <2>3, StayedFile
    <3> QED
      BY <1>2, <2>3, <3>1, FollowsNothing DEF Moved
  <2> QED
    BY <2>1, <2>2, <2>3
<1> QED
  BY <1>1, <1>2

LEMMA DraftsFollowPlan ==
    ASSUME TypeInv, Absolute, StaysBare, PlanTells, Reidentifying, draft = before.draft,
           draft' = RecordedDraft, UNCHANGED <<before, call>>
    PROVE  DraftsFollow'
<1>0. \A i \in Ids : Moved(i) => draft[call.move[i]] = None
  BY DEF PlanTells
<1>1. /\ \A i \in DOMAIN plan : draft[i] # None =>
            /\ \E j \in Arrived(call.move[i]) : draft[j] # None
            /\ (CHOOSE j \in Arrived(call.move[i]) : draft[j] # None) = i
      /\ \A i \in Ids \ DOMAIN plan : draft[i] # None /\ ~Moved(i) =>
            ~ \E j \in Arrived(i) : draft[j] # None
      /\ \A i \in Ids : Moved(i) => ~ \E j \in Arrived(i) : draft[j] # None
      /\ \A i \in Ids : draft[i] = None /\ (\E j \in Arrived(call.move[i]) : draft[j] # None) =>
            \E m \in MovedIds : call.move[m] = i
  BY <1>0, Arrivals
<1>2. \A k \in Ids : draft'[k] = IF \E i \in Arrived(k) : draft[i] # None
                                 THEN DraftAfter(CHOOSE i \in Arrived(k) : draft[i] # None)
                                 ELSE IF k \in DOMAIN plan /\ Moved(k) THEN None ELSE draft[k]
  BY DEF RecordedDraft
<1>3. \A i \in Ids : draft[i] \in Text \cup {None} /\ call.move[i] \in Ids
  BY NotingFacts DEF TypeInv, TypeOK, Maybe
<1>4. ASSUME NEW i \in Ids PROVE Follows(draft[i], i, draft'[call.move[i]], call.move[i])
  <2>1. CASE draft[i] # None /\ i \in DOMAIN plan
    <3>1. draft[i] \in Text
      BY <1>3, <2>1
    <3>2. draft'[call.move[i]] = DraftAfter(i)
      BY <1>1, <1>2, <1>3, <2>1
    <3>3. DraftAfter(i) = Rewritten(draft[i], i)
      BY <2>1, <3>1, AfterText DEF DraftAfter, PlanTells
    <3> QED
      BY <3>1, <3>2, <3>3, TextFollows
  <2>2. CASE draft[i] # None /\ i \notin DOMAIN plan
    <3>1. draft[i] \in Text /\ ~Moved(i) /\ NewText(draft[i], i) = None
      BY <1>3, <2>2 DEF PlanTells
    <3>2. call.move[i] = i /\ draft'[i] = draft[i]
      BY <1>1, <1>2, <2>2, <3>1 DEF Moved
    <3>3. Rewritten(draft[i], i) = draft[i]
      BY <3>1, AfterText
    <3> QED
      BY <3>1, <3>2, <3>3, TextFollows
  <2>3. CASE draft[i] = None
    <3>1. CASE \E j \in Arrived(call.move[i]) : draft[j] # None
      BY <1>1, <2>3, <3>1, FollowsNothing
    <3>2. CASE ~ \E j \in Arrived(call.move[i]) : draft[j] # None
      <4>1. draft[call.move[i]] = None
        BY <1>0, <2>3 DEF Moved
      <4>2. draft'[call.move[i]] = None
        BY <1>2, <1>3, <3>2, <4>1
      <4> QED
        BY <2>3, <4>2, FollowsNothing
    <3> QED
      BY <3>1, <3>2
  <2> QED
    BY <2>1, <2>2, <2>3
<1>5. \A i \in Ids : Moved(i) => draft'[i] = None
  BY <1>1, <1>2 DEF PlanTells
<1> QED
  BY <1>4, <1>5 DEF DraftsFollow, Follows, Moved, MovedIds

LEMMA SessionsFollowPlan ==
    ASSUME TypeInv, Absolute, StaysBare, PlanTells, Reidentifying, session = before.session,
           session' = CarriedSessions, UNCHANGED <<before, call>>
    PROVE  SessionsFollow'
<1>0. \A i \in Ids : Moved(i) => session[call.move[i]] = None
  BY DEF PlanTells
<1>1. /\ \A i \in DOMAIN plan : session[i] # None =>
            /\ \E j \in Arrived(call.move[i]) : session[j] # None
            /\ (CHOOSE j \in Arrived(call.move[i]) : session[j] # None) = i
      /\ \A i \in Ids \ DOMAIN plan : session[i] # None /\ ~Moved(i) =>
            ~ \E j \in Arrived(i) : session[j] # None
      /\ \A i \in Ids : Moved(i) => ~ \E j \in Arrived(i) : session[j] # None
      /\ \A i \in Ids : session[i] = None /\ (\E j \in Arrived(call.move[i]) : session[j] # None) =>
            \E m \in MovedIds : call.move[m] = i
  BY <1>0, Arrivals
<1>2. \A k \in Ids : session'[k] = IF \E i \in Arrived(k) : session[i] # None
                                   THEN Carried(CHOOSE i \in Arrived(k) : session[i] # None)
                                   ELSE IF k \in DOMAIN plan /\ Moved(k) THEN None ELSE session[k]
  BY DEF CarriedSessions
<1>3. \A i \in Ids : /\ session[i] \in SessionState \cup {None}
                     /\ session[i] # None => session[i].buf \in Text
                     /\ call.move[i] \in Ids
  BY NotingFacts DEF TypeInv, TypeOK, Maybe, SessionState
<1>4. ASSUME NEW i \in Ids
      PROVE  Follows(Buffer(session[i]), i, Buffer(session'[call.move[i]]), call.move[i])
  <2>1. CASE session[i] # None /\ i \in DOMAIN plan
    <3>1. session[i] \in SessionState /\ session[i].buf \in Text
      BY <1>3, <2>1
    <3>2. session'[call.move[i]] = Carried(i)
      BY <1>1, <1>2, <1>3, <2>1
    <3>3. Carried(i).buf = IF plan[i].buf # None THEN plan[i].buf ELSE session[i].buf
      BY <3>1 DEF Carried, SessionState
    <3>4. Carried(i).buf = Rewritten(session[i].buf, i)
      BY <2>1, <3>1, <3>3, AfterText DEF PlanTells
    <3>5. Carried(i) # None
      <4>1. TypeOK /\ plan[i] \in PlanEntry
        BY <2>1 DEF TypeInv, PlanFits
      <4> QED
        BY <2>1, <4>1, CarriedType, NoneAssumption
    <3>6. Follows(session[i].buf, i, Rewritten(session[i].buf, i), call.move[i])
      BY <3>1, TextFollows
    <3> QED
      BY <2>1, <3>2, <3>4, <3>5, <3>6 DEF Buffer
  <2>2. CASE session[i] # None /\ i \notin DOMAIN plan
    <3>1. session[i].buf \in Text /\ ~Moved(i) /\ NewText(session[i].buf, i) = None
      BY <1>3, <2>2 DEF PlanTells
    <3>2. call.move[i] = i /\ session'[i] = session[i]
      BY <1>1, <1>2, <2>2, <3>1 DEF Moved
    <3>3. Rewritten(session[i].buf, i) = session[i].buf
      BY <3>1, AfterText
    <3>4. Follows(session[i].buf, i, Rewritten(session[i].buf, i), call.move[i])
      BY <3>1, TextFollows
    <3> QED
      BY <2>2, <3>2, <3>3, <3>4 DEF Buffer
  <2>3. CASE session[i] = None
    <3>0. Buffer(session[i]) = None
      BY <2>3 DEF Buffer
    <3>1. CASE \E j \in Arrived(call.move[i]) : session[j] # None
      BY <1>1, <2>3, <3>0, <3>1, FollowsNothing
    <3>2. CASE ~ \E j \in Arrived(call.move[i]) : session[j] # None
      <4>1. session[call.move[i]] = None
        BY <1>0, <2>3 DEF Moved
      <4>2. session'[call.move[i]] = None
        BY <1>2, <1>3, <3>2, <4>1
      <4>3. Buffer(session'[call.move[i]]) = None
        BY <4>2 DEF Buffer
      <4> QED
        BY <3>0, <4>3, FollowsNothing
    <3> QED
      BY <3>1, <3>2
  <2> QED
    BY <2>1, <2>2, <2>3
<1>5. \A i \in Ids : Moved(i) => session'[i] = None
  BY <1>1, <1>2 DEF PlanTells
<1> QED
  BY <1>4, <1>5 DEF SessionsFollow, Follows, Moved, MovedIds

-----------------------------------------------------------------------------
(* Steps outside what this says; steps that leave all it speaks of.          *)
LEMMA FollowElsewhere ==
    ASSUME Absolute', pc' \notin {"begun", "write", "move", "record", "commit", "settle", "answer"},
           pc' = "done" => ~Reidentifying' \/ outcome'.result = "refused"
    PROVE  FollowInv'
BY DEF FollowInv, LinksFollow

LEMMA FollowKept ==
    ASSUME UNCHANGED <<call, plan, before>>
    PROVE  /\ Absolute' = Absolute /\ PlanTells' = PlanTells /\ StaysBare' = StaysBare
           /\ Reidentifying' = Reidentifying
           /\ UNCHANGED file => FilesFollow' = FilesFollow
           /\ UNCHANGED draft => DraftsFollow' = DraftsFollow
           /\ UNCHANGED session => SessionsFollow' = SessionsFollow
<1>1. Absolute' = Absolute /\ Reidentifying' = Reidentifying /\ StaysBare' = StaysBare
  BY DEF Absolute, Noting, NewId, Reidentifying, StaysBare, Moved, In
<1>2. PlanTells' = PlanTells
  BY DEF PlanTells, Moved, In, NewText, Rewritten
<1>3. UNCHANGED file => FilesFollow' = FilesFollow
  BY DEF FilesFollow, Follows, Moved, MovedIds
<1>4. UNCHANGED draft => DraftsFollow' = DraftsFollow
  BY DEF DraftsFollow, Follows, Moved, MovedIds
<1>5. UNCHANGED session => SessionsFollow' = SessionsFollow
  BY DEF SessionsFollow, Follows, Moved, MovedIds
<1> QED
  BY <1>1, <1>2, <1>3, <1>4, <1>5

LEMMA FollowInit == Init => FollowInv
BY DEF Init, FollowInv, Absolute, Noting, NoCall, LinksFollow

LEMMA FollowsAll ==
    ASSUME FilesFollow, DraftsFollow, SessionsFollow
    PROVE  LinksFollow
BY DEF FilesFollow, DraftsFollow, SessionsFollow, LinksFollow

(* The checks of an operation leave no draft row and no session where a Note *)
(* is to go.                                                                 *)
LEMMA StartsOpen ==
    ASSUME TypeInv, Starts, pc' = "begun"
    PROVE  DestinationsOpen'
<1>1. ASSUME NEW i \in Ids, NEW j \in Ids, Available(j, i), call'.move = MoveOne(i, j),
             UNCHANGED <<draft, session>>
      PROVE  DestinationsOpen'
  <2>1. MoveOne(i, j)[i] = j /\ \A k \in Ids : k # i => MoveOne(i, j)[k] = k
    BY <1>1 DEF MoveOne, Same
  <2> QED
    BY <1>1, <2>1 DEF DestinationsOpen, Moved, Available
<1>2. ASSUME NEW i \in Ids, NEW title \in Titles, RenameNote(i, title) PROVE DestinationsOpen'
  <2>1. <<i[1], title>> \in Ids
    BY IdParts
  <2>2. /\ Available(<<i[1], title>>, i) /\ call'.move = MoveOne(i, <<i[1], title>>)
        /\ UNCHANGED <<draft, session>>
    BY <1>2 DEF RenameNote, Begin, NoCall
  <2> QED
    BY <1>1, <2>1, <2>2
<1>3. ASSUME NEW i \in Ids, NEW d \in Dirs, MoveNote(i, d) PROVE DestinationsOpen'
  <2>1. <<d, i[2]>> \in Ids
    BY IdParts
  <2>2. /\ Available(<<d, i[2]>>, i) /\ call'.move = MoveOne(i, <<d, i[2]>>)
        /\ UNCHANGED <<draft, session>>
    BY <1>3 DEF MoveNote, Begin, NoCall
  <2> QED
    BY <1>1, <2>1, <2>2
<1>4. ASSUME NEW d \in Dirs, NEW e \in Dirs, RenameDirectory(d, e) PROVE DestinationsOpen'
  <2> DEFINE move == MoveAll(d, e, Contained(d) \cup Orphans(d))
  <2>1. /\ d \in dirs /\ e \notin dirs /\ DestinationsFree(move)
        /\ call'.move = move /\ UNCHANGED <<draft, session>>
    BY <1>4 DEF RenameDirectory, Begin, NoCall
  <2>2. \A i \in Ids : move[i] # i => i[1] = d /\ move[i] = <<e, i[2]>>
    BY DEF MoveAll, Contained, Orphans, In
  <2> HIDE DEF move
  <2>3. \A i \in Ids : move[i] # i => move[i] \in Ids /\ move[i][1] = e
    BY <2>2, IdParts
  <2>4. \A i \in Ids : move[i] # i => draft[move[i]] = None /\ session[move[i]] = None
    BY <2>1, <2>2, <2>3 DEF DestinationsFree
  <2> QED
    BY <2>1, <2>4 DEF DestinationsOpen, Moved
<1> QED
  BY <1>2, <1>3, <1>4 DEF Starts, DeleteNote, DeleteDraft, DeleteDirectory, CreateNote, CreateTarget,
     CreateDirectory, Begin

(* They make none, as long as they open none.                                *)
LEMMA OpenStays ==
    ASSUME TypeInv, DestinationsOpen, call' = call, pc # "idle", Sessions \/ Guests
    PROVE  DestinationsOpen'
<1>0. TypeOK
  BY DEF TypeInv
<1>1. \A k \in Ids : /\ draft[k] = None => draft'[k] = None
                     /\ session[k] = None => session'[k] = None
  BY ZenonT(60), <1>0 DEF Sessions, Guests, GuestWrites, GuestRemoves, Guest, Open, Flush, Close, TypeOK, Maybe
<1>2. \A k \in Ids : call.move[k] \in Ids
  BY <1>0 DEF TypeOK
<1> QED
  BY <1>1, <1>2 DEF DestinationsOpen, Moved

LEMMA FollowStarts == ASSUME TypeInv, TypeInv', FollowInv, Starts PROVE FollowInv'
<1>1. pc = "idle" /\ pc' \in {"idle", "begun", "park", "publish"}
  BY Zenon DEF Starts, RenameNote, MoveNote, RenameDirectory, DeleteNote, DeleteDraft, DeleteDirectory,
         CreateNote, CreateTarget, CreateDirectory, Begin
<1>2. ASSUME Absolute' PROVE FollowInv'
  <2>1. CASE pc' = "begun"
    BY <1>2, <2>1, StartsOpen DEF FollowInv, LinksFollow
  <2>2. CASE pc' # "begun"
    BY <1>1, <1>2, <2>2, FollowElsewhere
  <2> QED
    BY <2>1, <2>2
<1>3. ASSUME NEW i \in Ids, NEW title \in Titles, RenameNote(i, title) PROVE Absolute'
  <2> DEFINE j == <<i[1], title>>
  <2>1. j \in Ids /\ j[1] = i[1]
    BY IdParts
  <2>2. call'.id = i /\ call'.move = MoveOne(i, j)
    BY <1>3 DEF RenameNote, Begin, NoCall
  <2>3. MoveOne(i, j)[i] = j
    BY <2>1 DEF MoveOne, Same
  <2> HIDE DEF j
  <2> QED
    BY <2>1, <2>2, <2>3 DEF Absolute, NewId
<1>4. ASSUME NEW i \in Ids, NEW d \in Dirs, MoveNote(i, d) PROVE Absolute'
  <2> DEFINE j == <<d, i[2]>>
  <2>1. j \in Ids /\ j[1] = d
    BY IdParts
  <2>2. call'.id = i /\ call'.move = MoveOne(i, j) /\ (i[1] # d => call'.absolutize)
    BY <1>4 DEF MoveNote, Begin, NoCall
  <2>3. MoveOne(i, j)[i] = j
    BY <2>1 DEF MoveOne, Same
  <2> HIDE DEF j
  <2>4. (NewId)' = j /\ call'.id = i
    BY <2>2, <2>3 DEF NewId
  <2> QED
    BY <2>1, <2>2, <2>4 DEF Absolute
<1>5. ASSUME ~Noting' \/ call' = call PROVE Absolute'
  BY <1>5 DEF FollowInv, Absolute, Noting, NewId
<1>6. ASSUME NEW i \in Ids, DeleteNote(i) \/ DeleteDraft(i) \/ CreateTarget(i) PROVE ~Noting' \/ call' = call
  BY <1>6 DEF DeleteNote, DeleteDraft, CreateTarget, Begin, NoCall, Noting
<1>7. ASSUME NEW d \in Dirs,
             \/ \E e \in Dirs : RenameDirectory(d, e)
             \/ DeleteDirectory(d)
             \/ \E title \in Titles : CreateNote(d, title)
             \/ CreateDirectory(d)
      PROVE  ~Noting' \/ call' = call
  BY <1>7, Zenon DEF RenameDirectory, DeleteDirectory, CreateNote, CreateDirectory, Begin, NoCall, Noting
<1> QED
  BY <1>2, <1>3, <1>4, <1>5, <1>6, <1>7 DEF Starts

LEMMA FollowSessions ==
    ASSUME TypeInv, FollowInv, Sessions \/ Guests
    PROVE  FollowInv'
<1>0. TypeOK /\ UNCHANGED <<call, plan, before, pc, outcome>>
  BY Zenon DEF TypeInv, Sessions, Open, Flush, Close, Guests, GuestWrites, GuestRemoves, Guest
<1>1. Absolute'
  BY <1>0, FollowKept DEF FollowInv
<1>2. CASE ~tidy'
  BY <1>1, <1>2 DEF FollowInv, LinksFollow
<1>3. CASE tidy'
  <2>1. PICK i \in Ids : Open(i) \/ Flush(i) \/ Close(i)
    BY <1>3 DEF Sessions, Guests, GuestWrites, GuestRemoves, Guest
  <2>2. tidy /\ (pc \in {"idle", "begun", "rescan"} \/ Creating)
    BY <1>3, <2>1 DEF Open, Flush, Close, SessionsFree, WritesLocked
  <2>3. CASE pc = "begun"
    <3>1. DestinationsOpen'
      BY <1>0, <2>2, <2>3, OpenStays DEF FollowInv
    <3> QED
      BY <1>0, <1>1, <2>3, <3>1 DEF FollowInv, LinksFollow
  <2>4. CASE pc # "begun"
    <3>1. ~Reidentifying' /\ pc \notin {"begun", "answer"}
      BY <1>0, <2>2, <2>4, NotingFacts DEF TypeInv, PcFits, Reidentifying
    <3> QED
      BY <1>0, <1>1, <3>1 DEF FollowInv, LinksFollow
  <2> QED
    BY <2>3, <2>4
<1> QED
  BY <1>2, <1>3

LEMMA FollowOthers ==
    ASSUME Absolute', ~Reidentifying', pc' \notin {"begun", "answer"}
    PROVE  FollowInv'
BY DEF FollowInv, LinksFollow

LEMMA FollowPlan ==
    ASSUME TypeInv, FollowInv, CoherentInv, Plan \/ PlanFails
    PROVE  FollowInv'
<1>1. /\ pc = "begun" /\ tidy' = tidy /\ before' = Stores /\ UNCHANGED <<file, draft, session, call>>
  BY DEF Plan, PlanFails, stores
<1>2. Absolute'
  BY <1>1 DEF FollowInv, Absolute, Noting, NewId
<1>3. CASE pc' = "done"
  <2>1. outcome'.result = "refused"
    BY <1>3 DEF Plan, PlanFails, Refuse, TypeInv
  <2> QED
    BY <1>2, <1>3, <2>1, FollowElsewhere
<1>4. CASE pc' # "done"
  <2>1. pc' = "write" /\ plan' = [i \in {k \in Candidates : Touched(k)} |-> PlanFor(i)]
    BY <1>4 DEF Plan, PlanFails, Refuse
  <2> SUFFICES ASSUME tidy PROVE PlanTells'
    BY <1>1, <1>2, <2>1 DEF FollowInv, LinksFollow
  <2>2. before'.file = file /\ before'.draft = draft /\ before'.session = session
    BY <1>1 DEF Stores
  <2>4. ASSUME NEW i \in DOMAIN plan'
        PROVE  /\ plan'[i].file = NewText(file[i], i)
               /\ plan'[i].draft = NewText(draft[i], i)
               /\ session[i] # None => plan'[i].buf = NewText(session[i].buf, i)
    BY <2>1 DEF PlanFor
  <2>5. ASSUME NEW i \in Ids \ DOMAIN plan'
        PROVE  /\ draft[i] # None => ~Moved(i) /\ NewText(draft[i], i) = None
               /\ session[i] # None => ~Moved(i) /\ NewText(session[i].buf, i) = None
    <3>1. draft[i] # None \/ session[i] # None => ~Touched(i) /\ Held(i)
      BY <2>1 DEF Candidates, Held
    <3> QED
      BY <3>1 DEF Touched, PlanFor
  <2>6. \A i \in Ids : Moved(i) => draft[call.move[i]] = None /\ session[call.move[i]] = None
    BY <1>1 DEF FollowInv, DestinationsOpen
  <2>7. call.kind = "renameDir" => \A i \in In(call.dir) : ~Moved(i) => draft[i] = None
    BY <1>1 DEF CoherentInv
  <2>8. (\A i \in DOMAIN plan :
             /\ plan[i].file = NewText(before.file[i], i)
             /\ plan[i].draft = NewText(before.draft[i], i)
             /\ before.session[i] # None => plan[i].buf = NewText(before.session[i].buf, i))'
    <3> SUFFICES ASSUME NEW i \in DOMAIN plan'
                 PROVE  (/\ plan[i].file = NewText(before.file[i], i)
                         /\ plan[i].draft = NewText(before.draft[i], i)
                         /\ before.session[i] # None => plan[i].buf = NewText(before.session[i].buf, i))'
      OBVIOUS
    <3> QED
      BY <1>1, <2>2, <2>4 DEF NewText, Rewritten
  <2>9. (\A i \in Ids \ DOMAIN plan :
             /\ before.draft[i] # None => ~Moved(i) /\ NewText(before.draft[i], i) = None
             /\ before.session[i] # None => ~Moved(i) /\ NewText(before.session[i].buf, i) = None)'
    <3> SUFFICES ASSUME NEW i \in Ids \ DOMAIN plan'
                 PROVE  (/\ before.draft[i] # None => ~Moved(i) /\ NewText(before.draft[i], i) = None
                         /\ before.session[i] # None => ~Moved(i) /\ NewText(before.session[i].buf, i) = None)'
      OBVIOUS
    <3> QED
      BY <1>1, <2>2, <2>5 DEF NewText, Rewritten, Moved
  <2>10. (/\ \A i \in Ids : Moved(i) => before.draft[call.move[i]] = None /\ before.session[call.move[i]] = None
          /\ call.kind = "renameDir" => \A i \in In(call.dir) : ~Moved(i) => before.draft[i] = None)'
    BY <1>1, <2>2, <2>6, <2>7 DEF Moved, In
  <2> QED
    BY <2>8, <2>9, <2>10 DEF PlanTells
<1> QED
  BY <1>3, <1>4

LEMMA FollowReidentifies ==
    ASSUME TypeInv, TypeInv', RunInv, CoherentInv, FollowInv, Reidentifies
    PROVE  FollowInv'
<1>1. CASE Plan \/ PlanFails
  BY <1>1, FollowPlan
<1>2. CASE ~(Plan \/ PlanFails)
  <2>1. UNCHANGED <<call, plan, before, tidy>> /\ Reidentifying
    BY <1>2 DEF Reidentifies, FilesWritten, MoveDir, FilesMoved, RecordMove,
         SettleMove, Answer, AnswerFails, WriteFile, MoveFile, TypeInv, PcFits
  <2>2. /\ Absolute' = Absolute /\ PlanTells' = PlanTells /\ StaysBare' = StaysBare
        /\ Reidentifying' = Reidentifying
        /\ UNCHANGED file => FilesFollow' = FilesFollow
        /\ UNCHANGED draft => DraftsFollow' = DraftsFollow
        /\ UNCHANGED session => SessionsFollow' = SessionsFollow
    BY <2>1, FollowKept
  <2>3. Absolute /\ Absolute'
    BY <2>2 DEF FollowInv
  <2>4. CASE ~tidy
    BY <2>1, <2>3, <2>4 DEF FollowInv, LinksFollow
  <2>5. CASE tidy /\ (FilesWritten \/ MoveDir \/ FilesMoved \/ \E i \in Ids : WriteFile(i) \/ MoveFile(i))
    <3>1. pc \in {"write", "move"} /\ pc' \in {"write", "move", "record"}
      BY <2>5 DEF FilesWritten, MoveDir, FilesMoved, WriteFile, MoveFile
    <3> QED
      BY <2>1, <2>2, <2>3, <2>5, <3>1 DEF FollowInv, LinksFollow
  <2>6. CASE tidy /\ RecordMove
    <3>1. /\ pc = "record" /\ pc' = "commit" /\ UNCHANGED <<file, session, call, plan, before>>
          /\ draft' = RecordedDraft
      BY <2>6 DEF RecordMove
    <3>2. Running
      BY <2>1, <3>1, NotingFacts DEF Running
    <3>3. /\ PlanInv /\ RecordInv /\ Quiet /\ CoverInv /\ StaysBare
          /\ before.index = IndexOf(before.file)
      BY <2>1, <2>6, <3>1, <3>2 DEF RunInv, CoherentInv
    <3>4. PlanTells
      BY <2>1, <2>6, <3>1 DEF FollowInv
    <3>5. FilesFollow
      BY <2>1, <2>3, <3>3, <3>4, FilesFollowPlan
    <3>6. DraftsFollow'
      BY <2>1, <2>3, <3>1, <3>3, <3>4, DraftsFollowPlan DEF Quiet
    <3>7. session' = before'.session
      BY <3>1, <3>3 DEF Quiet
    <3> QED
      BY <2>2, <2>3, <3>1, <3>3, <3>4, <3>5, <3>6, <3>7 DEF FollowInv, LinksFollow
  <2>7. CASE tidy /\ SettleMove
    <3>1. /\ pc = "settle" /\ pc' \in {"answer", "done"} /\ UNCHANGED <<file, draft, call, plan, before>>
          /\ session' = CarriedSessions
      BY <2>7 DEF SettleMove
    <3>2. /\ PlanTells /\ StaysBare /\ session = before.session /\ FilesFollow /\ DraftsFollow
      BY <2>1, <2>7, <3>1 DEF FollowInv
    <3>3. SessionsFollow'
      BY <2>1, <2>3, <3>1, <3>2, SessionsFollowPlan
    <3>4. FilesFollow' /\ DraftsFollow'
      BY <2>2, <3>1, <3>2
    <3>5. LinksFollow'
      BY <3>3, <3>4 DEF FilesFollow, DraftsFollow, SessionsFollow, LinksFollow
    <3> QED
      BY <2>3, <3>1, <3>3, <3>4, <3>5 DEF FollowInv
  <2>8. CASE tidy /\ Answer
    <3>1. pc = "answer" /\ pc' = "done" /\ UNCHANGED <<file, draft, session>>
      BY <2>8 DEF Answer, stores
    <3>2. FilesFollow' /\ DraftsFollow' /\ SessionsFollow'
      BY <2>2, <2>8, <3>1 DEF FollowInv
    <3>3. LinksFollow'
      BY <3>2 DEF FilesFollow, DraftsFollow, SessionsFollow, LinksFollow
    <3> QED
      BY <2>3, <3>1, <3>3 DEF FollowInv
  <2>9. CASE AnswerFails
    <3>1. pc' = "done" /\ outcome'.result = "refused"
      BY <2>9 DEF AnswerFails, Refuse, TypeInv
    <3> QED
      BY <2>3, <3>1, FollowElsewhere
  <2> QED
    BY <1>2, <2>4, <2>5, <2>6, <2>7, <2>8, <2>9 DEF Reidentifies
<1> QED
  BY <1>1, <1>2

LEMMA FollowRests ==
    ASSUME TypeInv, FollowInv, Deletes \/ Creates \/ Unwinds \/ Commit
    PROVE  FollowInv'
<1>1. UNCHANGED <<call, plan, before>>
  BY DEF Deletes, Park, RecordDeletion, SettleDeletion, Creates, Publish, PublishFails,
     RecordCreation, RecordCreationFails, OpenCreated, OpenCreatedFails, TakeBack, TakeBackFails,
     Unwinds, StepFails, Undo, UndoFails, Undone, Commit
<1>2. /\ Absolute' = Absolute /\ PlanTells' = PlanTells /\ StaysBare' = StaysBare
      /\ Reidentifying' = Reidentifying
      /\ UNCHANGED file => FilesFollow' = FilesFollow
      /\ UNCHANGED draft => DraftsFollow' = DraftsFollow
  BY <1>1, FollowKept
<1>3. Absolute'
  BY <1>2 DEF FollowInv
<1>4. CASE Deletes \/ Creates
  <2>1. Deleting \/ Creating
    BY <1>4 DEF Deletes, Park, RecordDeletion, SettleDeletion, Creates, Publish, PublishFails,
       RecordCreation, RecordCreationFails, OpenCreated, OpenCreatedFails, TakeBack, TakeBackFails,
       TypeInv, PcFits
  <2>2. pc' \in {"record", "commit", "done", "open", "takeback"}
    BY <1>4 DEF Deletes, Park, RecordDeletion, SettleDeletion, Creates, Publish, PublishFails,
       RecordCreation, RecordCreationFails, OpenCreated, OpenCreatedFails, TakeBack, TakeBackFails, Refuse
  <2> QED
    BY <1>2, <1>3, <2>1, <2>2, NotingFacts, FollowOthers
<1>5. CASE Unwinds
  <2>1. pc' = "undo" \/ (pc' = "done" /\ outcome'.result = "refused")
    BY <1>5 DEF Unwinds, StepFails, Undo, UndoFails, Undone, Refuse, TypeInv
  <2> QED
    BY <1>3, <2>1, FollowElsewhere
<1>6. CASE Commit /\ ~Reidentifying
  <2>1. pc' \in {"done", "settle"}
    BY <1>6 DEF Commit
  <2> QED
    BY <1>2, <1>3, <1>6, <2>1, FollowOthers
<1>7. CASE Commit /\ Reidentifying
  <2>1. pc = "commit" /\ pc' = "settle" /\ tidy' = tidy /\ UNCHANGED <<file, draft, session, before>>
    BY <1>7, NotingFacts DEF Commit
  <2> QED
    BY <1>2, <1>3, <1>7, <2>1 DEF FollowInv, LinksFollow
<1> QED
  BY <1>4, <1>5, <1>6, <1>7

LEMMA FollowNext ==
    ASSUME TypeInv, TypeInv', RunInv, CoherentInv, FollowInv, [Next]_vars
    PROVE  FollowInv'
<1>1. CASE UNCHANGED vars
  <2>1. UNCHANGED <<call, plan, before, file, draft, session, pc, tidy, outcome>>
    BY <1>1 DEF vars
  <2>2. /\ Absolute' = Absolute /\ PlanTells' = PlanTells /\ StaysBare' = StaysBare
        /\ Reidentifying' = Reidentifying
        /\ FilesFollow' = FilesFollow /\ DraftsFollow' = DraftsFollow /\ SessionsFollow' = SessionsFollow
    BY <2>1, FollowKept
  <2>3. DestinationsOpen' = DestinationsOpen
    BY <2>1 DEF DestinationsOpen, Moved
  <2>4. LinksFollow' = LinksFollow
    BY <2>1, <2>2 DEF LinksFollow, Follows, Moved, MovedIds
  <2> QED
    BY <2>1, <2>2, <2>3, <2>4 DEF FollowInv
<1>2. CASE Crash \/ Rescan \/ Reindex \/ Return
  <2>1. pc' \in {"idle", "rescan"} /\ (call' = NoCall \/ call' = call)
    BY <1>2 DEF Crash, Rescan, Reindex, Return
  <2>2. Absolute'
    BY <2>1 DEF FollowInv, Absolute, Noting, NewId, NoCall
  <2> QED
    BY <2>1, <2>2, FollowElsewhere
<1> QED
  BY <1>1, <1>2, FollowStarts, FollowSessions, FollowReidentifies, FollowRests DEF Next, Operates

(* A rename or move of lifecycle.rs that is applied has carried every file,  *)
(* draft row and open buffer to its new id, with plan_affected,              *)
(* rewrite_index and carry_session_forward, and every Link in them names the *)
(* Note it named, under its new id if it moved; nothing stays behind at an   *)
(* old id. The plan finds what to rewrite through the index, so no session   *)
(* may write while reindex_workspace is between its scan and its transaction *)
(* (MCLifecycle_rescan.cfg).                                                 *)
THEOREM RenamesCarryLinks ==
    ASSUME ~RescanRaces
    PROVE  Spec => []LinksFollow
<1>1. OperationInv /\ CoherentInv /\ FollowInv /\ OperationInv' /\ [Next]_vars => FollowInv' /\ CoherentInv'
  BY FollowNext, CoherentNext DEF OperationInv
<1>2. FollowInv => LinksFollow
  <2>1. ASSUME FollowInv, ~tidy PROVE LinksFollow
    BY <2>1 DEF LinksFollow
  <2> QED
    BY <2>1 DEF FollowInv
<1> QED
  BY <1>1, <1>2, CoherentInit, FollowInit, OperationsHold, PTL DEF Spec

-----------------------------------------------------------------------------
(* Work. What a user wrote is the body of a text, whatever its Links. No     *)
(* step takes the last copy of it: each holds what it needs for that of      *)
(* files as they are, and so also in a bundle that an earlier operation has  *)
(* left untidy. Only files that another tool has written are out of account. *)

(* Two texts with the same work.                                             *)
SameWork(t, u) == t # None /\ u # None /\ t.body = u.body

(* Where an operation takes the file of an id.                               *)
Goes(i, k) ==
    \/ Noting /\ Moved(call.id) /\ i = call.id /\ k = NewId
    \/ call.kind = "renameDir" /\ i[1] = call.dir /\ k = <<call.newDir, i[2]>>

(* The plan knows the work of the draft rows it will rewrite, and there is a *)
(* draft row neither at an id that moves without a plan nor where one moves  *)
(* to.                                                                       *)
DraftsPlanned ==
    /\ \A i \in DOMAIN plan : plan[i].draft # None => SameWork(draft[i], plan[i].draft)
    /\ \A i \in Ids \ DOMAIN plan : draft[i] # None => ~Moved(i)
    /\ \A i \in Ids : Moved(i) => draft[call.move[i]] = None

(* The draft rows in each phase.                                             *)
RowsInv ==
    /\ spent \in [ops : Nat, guests : Nat, faults : Nat]
    /\ pc = "begun" => DestinationsOpen
    /\ Reidentifying /\ pc \in {"write", "move", "record"} => DraftsPlanned
    /\ Creating /\ pc \in {"publish", "record", "open", "takeback"} => draft[call.id] = None

(* While files are rewritten and moved, a file holds the work that was       *)
(* there, or that of the Note that goes there, where nothing was.            *)
FilesKept ==
    \A k \in Ids : file[k] # None =>
        \/ SameWork(before.file[k], file[k])
        \/ before.file[k] = None /\ \E i \in Ids : Goes(i, k) /\ SameWork(before.file[i], file[k])

(* An entry of the journal restores the work that was there, or moves back   *)
(* to where nothing is.                                                      *)
EntryKept(e) ==
    /\ e.step = "wrote" => SameWork(before.file[e.id], e.prev)
    /\ e.step = "moved" => Noting /\ Moved(e.id)
    /\ e.step = "movedDir" => \A i \in In(call.newDir) : before.file[i] = None

AllThere == \A i \in Ids : before.file[i] # None => file[i] # None

JournalKept == \A n \in 1..Len(journal) : EntryKept(journal[n])

(* The files in each phase, in terms of what the operation found: before the *)
(* plan nothing is at the new id of a Note; what a plan writes over a file   *)
(* is the same work; a creation has put at its id its own text only; and     *)
(* what a deletion has parked has left its place free.                       *)
CopiesInv ==
    spent.guests = 0 =>
      /\ pc = "begun" /\ Noting /\ Moved(call.id) => file[NewId] = None
      /\ Reidentifying /\ pc \in {"write", "move", "record", "undo"} =>
           /\ FilesKept /\ JournalKept
           /\ Noting /\ Moved(call.id) => before.file[NewId] = None
      /\ pc = "write" => AllThere /\ \A i \in todo : SameWork(before.file[i], plan[i].file)
      /\ pc = "move" => \A i \in todo : Noting /\ Moved(i)
      /\ pc = "move" /\ call.kind = "renameDir" => AllThere
      /\ Creating /\ pc \in {"record", "open", "takeback"} => file[call.id] \in {None, FreshText}
      /\ Deleting /\ pc \in {"record", "undo"} =>
           Len(journal) <= 1 /\ (journal # <<>> => \A i \in Scope : file[i] = None)

(* A rewritten text says what the user wrote.                                *)
LEMMA NewTextSays ==
    ASSUME TypeInv, NEW t \in Text \cup {None}, NEW i \in Ids, NewText(t, i) # None
    PROVE  SameWork(t, NewText(t, i))
<1>1. t \in Text /\ t # None /\ NewText(t, i) = Rewritten(t, i)
  BY NoneAssumption DEF NewText
<1>2. call.move \in [Ids -> Ids] /\ (call.absolutize /\ i = call.id) \in BOOLEAN
  BY DEF TypeInv, CallFits, CallType
<1>3. Rewritten(t, i).body = t.body
  <2>1. \/ Rewritten(t, i) = t
        \/ Rewritten(t, i) = [t EXCEPT !.link = LinkTo(call.move[Target(t, i[1])])]
    <3> DEFINE absolutize == call.absolutize /\ i = call.id
    <3>1. Rewritten(t, i) = Rewrite(t, i, call.move, absolutize) /\ absolutize \in BOOLEAN
      BY <1>2 DEF Rewritten
    <3> HIDE DEF absolutize
    <3> QED
      BY <1>1, <1>2, <3>1, RewriteForm
  <2>2. ASSUME NEW l PROVE [t EXCEPT !.link = l].body = t.body
    BY <1>1 DEF Text
  <2> QED
    BY <2>1, <2>2
<1> QED
  BY <1>1, <1>3 DEF SameWork

(* What is in some file or row before a step and in some file or row after.  *)
LEMMA WorkStays ==
    ASSUME \A i \in Ids : file[i] # None =>
              \/ file[i] = FreshText
              \/ \E k \in Ids : SameWork(file[i], file'[k]) \/ SameWork(file[i], draft'[k]),
           \A i \in Ids : draft[i] # None =>
              \E k \in Ids : SameWork(draft[i], file'[k]) \/ SameWork(draft[i], draft'[k])
    PROVE  Durable \ Durable' \subseteq DeletedWork
<1> SUFFICES ASSUME NEW x \in Durable PROVE x \in Durable'
  OBVIOUS
<1>0. /\ x \notin {FreshText.body} \cup {t.body : t \in GuestTexts}
      /\ \/ \E i \in Ids : file[i] # None /\ x = file[i].body
         \/ \E i \in Ids : draft[i] # None /\ x = draft[i].body
  BY DEF Durable, Work
<1>1. \/ \E k \in Ids : file'[k] # None /\ x = file'[k].body
      \/ \E k \in Ids : draft'[k] # None /\ x = draft'[k].body
  BY <1>0 DEF SameWork
<1> QED
  BY <1>0, <1>1 DEF Durable, Work

LEMMA WorkUntouched ==
    ASSUME UNCHANGED <<file, draft>>
    PROVE  Durable \ Durable' \subseteq DeletedWork
BY DEF Durable, Work

(* No step takes a write of another tool back.                               *)
LEMMA GuestsCounted ==
    ASSUME RowsInv, [Next]_vars, spent'.guests = 0
    PROVE  spent.guests = 0 /\ ~Guests
<1>1. spent \in [ops : Nat, guests : Nat, faults : Nat]
  BY DEF RowsInv
<1>2. Guests => spent'.guests # 0
  BY <1>1 DEF Guests, GuestWrites, GuestRemoves, Guest
<1>3. Guests \/ spent'.guests = spent.guests
  BY <1>1, Zenon DEF vars, Next, Operates, Starts, Begin, RenameNote, MoveNote, RenameDirectory, DeleteNote,
     DeleteDraft, DeleteDirectory, CreateNote, CreateTarget, CreateDirectory, Reidentifies, Plan, PlanFails,
     FilesWritten, MoveDir, FilesMoved, RecordMove, SettleMove, Answer, AnswerFails, WriteFile, MoveFile,
     Deletes, Park, RecordDeletion, SettleDeletion, Creates, Publish, PublishFails, RecordCreation,
     RecordCreationFails, OpenCreated, OpenCreatedFails, TakeBack, TakeBackFails, Unwinds, StepFails, Undo,
     UndoFails, Undone, Commit, Return, Sessions, Open, Flush, Close, Crash, Rescan, Reindex, Fault
<1> QED
  BY <1>2, <1>3

LEMMA SpentType ==
    ASSUME RowsInv, [Next]_vars
    PROVE  spent' \in [ops : Nat, guests : Nat, faults : Nat]
<1>1. spent \in [ops : Nat, guests : Nat, faults : Nat]
  BY DEF RowsInv
<1>2. \/ spent' = spent
      \/ spent' = [spent EXCEPT !.ops = @ + 1]
      \/ spent' = [spent EXCEPT !.guests = @ + 1]
      \/ spent' = [spent EXCEPT !.faults = @ + 1]
  BY Zenon DEF vars, Next, Operates, Starts, Begin, RenameNote, MoveNote, RenameDirectory, DeleteNote,
     DeleteDraft, DeleteDirectory, CreateNote, CreateTarget, CreateDirectory, Reidentifies, Plan, PlanFails,
     FilesWritten, MoveDir, FilesMoved, RecordMove, SettleMove, Answer, AnswerFails, WriteFile, MoveFile,
     Deletes, Park, RecordDeletion, SettleDeletion, Creates, Publish, PublishFails, RecordCreation,
     RecordCreationFails, OpenCreated, OpenCreatedFails, TakeBack, TakeBackFails, Unwinds, StepFails, Undo,
     UndoFails, Undone, Commit, Return, Sessions, Open, Flush, Close, Crash, Rescan, Reindex, Fault,
     Guests, GuestWrites, GuestRemoves, Guest
<1> QED
  BY <1>1, <1>2

-----------------------------------------------------------------------------
(* The invariant of the draft rows holds.                                    *)
LEMMA RowsInit == Init => RowsInv
BY DEF Init, RowsInv, NoCall, Creating, Reidentifying

LEMMA RowsSessions == TypeInv /\ RowsInv /\ [Next]_vars /\ (Sessions \/ Guests) => RowsInv'
<1> SUFFICES ASSUME TypeInv, RowsInv, [Next]_vars, Sessions \/ Guests PROVE RowsInv'
  OBVIOUS
<1>0. TypeOK /\ UNCHANGED <<call, plan, pc>>
  BY Zenon DEF TypeInv, Sessions, Open, Flush, Close, Guests, GuestWrites, GuestRemoves, Guest
<1>1. pc = "begun" => DestinationsOpen'
  BY <1>0, OpenStays DEF RowsInv
<1>2. \A k \in Ids : draft[k] = None => draft'[k] = None
  BY ZenonT(60), <1>0 DEF Sessions, Guests, GuestWrites, GuestRemoves, Guest, Open, Flush, Close, TypeOK, Maybe
<1>3. Creating => call.id \in Ids
  BY DEF TypeInv, CallFits
<1>4. ASSUME Reidentifying, pc \in {"write", "move", "record"} PROVE DraftsPlanned'
  <2>1. draft' = draft
    BY <1>4, Zenon DEF Sessions, Guests, GuestWrites, GuestRemoves, Guest, Open, Flush, Close, SessionsFree,
                WritesLocked, Creating, Reidentifying
  <2> QED
    BY <1>0, <1>4, <2>1 DEF RowsInv, DraftsPlanned, Moved
<1> QED
  BY <1>0, <1>1, <1>2, <1>3, <1>4, SpentType DEF RowsInv, Reidentifying, Creating

LEMMA RowsStarts == TypeInv /\ RowsInv /\ [Next]_vars /\ Starts => RowsInv'
<1> SUFFICES ASSUME TypeInv, RowsInv, [Next]_vars, Starts PROVE RowsInv'
  OBVIOUS
<1>1. pc' \in {"idle", "begun", "park", "publish"}
  BY Zenon DEF Starts, RenameNote, MoveNote, RenameDirectory, DeleteNote, DeleteDraft, DeleteDirectory,
         CreateNote, CreateTarget, CreateDirectory, Begin
<1>2. pc' = "publish" => draft'[call'.id] = None
  <2>1. ASSUME NEW d \in Dirs, NEW title \in Titles, CreateNote(d, title) PROVE draft'[call'.id] = None
    BY <2>1, IdParts, NoneAssumption DEF CreateNote, Begin, NoCall, Available
  <2>2. ASSUME NEW i \in Ids, CreateTarget(i) PROVE draft'[call'.id] = None
    BY <2>2, NoneAssumption DEF CreateTarget, Begin, NoCall, Available
  <2> QED
    BY <2>1, <2>2 DEF Starts, RenameNote, MoveNote, RenameDirectory, DeleteNote, DeleteDraft,
         DeleteDirectory, CreateDirectory, Begin
<1> QED
  BY <1>1, <1>2, StartsOpen, SpentType DEF RowsInv

LEMMA RowsPlan == ASSUME TypeInv, RowsInv, [Next]_vars, Plan PROVE RowsInv'
<1>1. pc = "begun" /\ UNCHANGED <<file, draft, session, call>> /\ TypeOK /\ ~Creating
  BY DEF Plan, stores, TypeInv, PcFits, Creating, Reidentifying
<1>2. CASE pc' = "done"
  BY <1>2, SpentType DEF RowsInv
<1>3. CASE pc' # "done"
  <2>1. pc' = "write" /\ plan' = [i \in {k \in Candidates : Touched(k)} |-> PlanFor(i)]
    BY <1>3 DEF Plan, Refuse
  <2>2. ASSUME NEW i \in DOMAIN plan', plan'[i].draft # None
        PROVE  SameWork(draft[i], plan'[i].draft)
    <3>1. plan'[i].draft = NewText(draft[i], i)
      BY <2>1 DEF PlanFor
    <3>2. i \in Ids
      BY <1>1, <2>1 DEF Candidates, MovedIds, TypeInv, CallFits
    <3> QED
      BY <1>1, <2>2, <3>1, <3>2, NewTextSays DEF TypeOK, Maybe
  <2>3. ASSUME NEW i \in Ids \ DOMAIN plan', draft[i] # None PROVE ~Moved(i)
    BY <2>1, <2>3 DEF Candidates, Touched, Held
  <2>4. \A i \in Ids : Moved(i) => draft[call.move[i]] = None
    BY <1>1 DEF RowsInv, DestinationsOpen
  <2>5. DraftsPlanned'
    BY <1>1, <2>2, <2>3, <2>4 DEF DraftsPlanned, Moved
  <2> QED
    BY <1>1, <2>1, <2>5, SpentType DEF RowsInv, Creating
<1> QED
  BY <1>2, <1>3

LEMMA RowsReidentify == ASSUME TypeInv, RowsInv, [Next]_vars, Reidentifies PROVE RowsInv'
<1>1. CASE Plan
  BY <1>1, RowsPlan
<1>2. CASE ~Plan
  <2>1. call' = call /\ pc' # "begun" /\ Reidentifying /\ ~Creating
    BY <1>2 DEF Reidentifies, PlanFails, FilesWritten, MoveDir, FilesMoved, RecordMove, SettleMove, Answer,
         AnswerFails, WriteFile, MoveFile, Refuse, TypeInv, PcFits, Reidentifying, Creating
  <2>2. pc' \in {"write", "move", "record"} =>
           pc \in {"write", "move", "record"} /\ UNCHANGED <<draft, plan>>
    BY <1>2 DEF Reidentifies, PlanFails, FilesWritten, MoveDir, FilesMoved, RecordMove, SettleMove, Answer,
         AnswerFails, WriteFile, MoveFile, Refuse, stores
  <2>3. pc' \in {"write", "move", "record"} => DraftsPlanned'
    BY <2>1, <2>2 DEF RowsInv, DraftsPlanned, Moved
  <2> QED
    BY <2>1, <2>3, SpentType DEF RowsInv, Creating, Reidentifying
<1> QED
  BY <1>1, <1>2

LEMMA RowsCreate == ASSUME TypeInv, RowsInv, [Next]_vars, Creates PROVE RowsInv'
<1>1. Creating /\ call' = call /\ ~Reidentifying
  BY DEF Creates, Publish, PublishFails, RecordCreation, RecordCreationFails, OpenCreated,
         OpenCreatedFails, TakeBack, TakeBackFails, TypeInv, PcFits, Creating, Reidentifying
<1>2. pc' \in {"record", "open", "takeback"} =>
         draft' = draft /\ pc \in {"publish", "record", "open", "takeback"}
  BY DEF Creates, Publish, PublishFails, RecordCreation, RecordCreationFails, OpenCreated,
         OpenCreatedFails, TakeBack, TakeBackFails, Refuse, stores
<1>3. pc' \in {"record", "open", "takeback", "done", "commit"}
  BY DEF Creates, Publish, PublishFails, RecordCreation, RecordCreationFails, OpenCreated,
         OpenCreatedFails, TakeBack, TakeBackFails, Refuse
<1> QED
  BY <1>1, <1>2, <1>3, SpentType DEF RowsInv, Creating, Reidentifying

LEMMA RowsElsewhere ==
    ASSUME TypeInv, RowsInv, [Next]_vars, Deletes \/ Unwinds \/ Commit \/ Return \/ Crash \/ Rescan \/ Reindex
    PROVE  RowsInv'
<1>1. CASE Deletes
  <2>1. call' = call /\ Deleting /\ pc' # "begun"
    BY <1>1 DEF Deletes, Park, RecordDeletion, SettleDeletion, TypeInv, PcFits, Deleting
  <2> QED
    BY <2>1, SpentType DEF RowsInv, Deleting, Creating, Reidentifying
<1>2. CASE ~Deletes
  <2>1. pc' \in {"idle", "rescan", "undo", "done", "settle"}
    BY <1>2 DEF Unwinds, StepFails, Undo, UndoFails, Undone, Refuse, Commit, Return, Crash, Rescan, Reindex
  <2> QED
    BY <2>1, SpentType DEF RowsInv
<1> QED
  BY <1>1, <1>2

LEMMA RowsNext == TypeInv /\ RowsInv /\ [Next]_vars => RowsInv'
<1> SUFFICES ASSUME TypeInv, RowsInv, [Next]_vars PROVE RowsInv'
  OBVIOUS
<1>1. CASE UNCHANGED vars
  BY <1>1 DEF vars, RowsInv, DestinationsOpen, DraftsPlanned, Moved, Reidentifying, Creating
<1> QED
  BY <1>1, RowsSessions, RowsStarts, RowsReidentify, RowsCreate, RowsElsewhere DEF Next, Operates

-----------------------------------------------------------------------------
(* The invariant of the files holds. That of an undone step: what it puts    *)
(* back, or moves back, meets nothing but the same work, even where the step *)
(* before it in the journal could not be undone and was passed over.         *)
LEMMA CopiesInit == Init => CopiesInv
BY DEF Init, CopiesInv, NoCall, Creating, Reidentifying, Deleting

LEMMA CopiesElsewhere ==
    ASSUME pc' \notin {"begun", "write", "move", "record", "undo", "open", "takeback"}
    PROVE  CopiesInv'
BY DEF CopiesInv

(* The copies a step leaves alone.                                           *)
LEMMA CopiesRest ==
    ASSUME UNCHANGED <<file, call, before>>
    PROVE  /\ FilesKept' = FilesKept /\ AllThere' = AllThere /\ Noting' = Noting /\ NewId' = NewId
           /\ Reidentifying' = Reidentifying /\ Creating' = Creating /\ Deleting' = Deleting
           /\ Scope' = Scope
           /\ \A k : Moved(k)' = Moved(k)
           /\ \A e : EntryKept(e)' = EntryKept(e)
<1>1. /\ Noting' = Noting /\ NewId' = NewId
      /\ Reidentifying' = Reidentifying /\ Creating' = Creating /\ Deleting' = Deleting
      /\ \A k : Moved(k)' = Moved(k)
  BY DEF Noting, NewId, Reidentifying, Creating, Deleting, Moved
<1>2. \A i, k : Goes(i, k)' = Goes(i, k)
  BY <1>1 DEF Goes
<1>3. AllThere' = AllThere /\ Scope' = Scope
  BY DEF AllThere, Scope, In
<1>4. \A e : EntryKept(e)' = EntryKept(e)
  BY <1>1 DEF EntryKept, In
<1>5. FilesKept' = FilesKept
  BY <1>2 DEF FilesKept
<1> QED
  BY <1>1, <1>3, <1>4, <1>5

LEMMA CopiesSessions == TypeInv /\ DraftsInv /\ RowsInv /\ CopiesInv /\ Sessions => CopiesInv'
<1> SUFFICES ASSUME TypeInv, DraftsInv, RowsInv, CopiesInv, Sessions PROVE CopiesInv'
  OBVIOUS
<1>0. TypeOK /\ UNCHANGED <<call, pc, spent, journal, before, plan, todo>>
  BY DEF TypeInv, Sessions, Open, Flush, Close
<1>1. PICK i \in Ids : Open(i) \/ Flush(i) \/ Close(i)
  BY DEF Sessions
<1>2. \A k \in Ids : file'[k] # file[k] => k = i /\ session[i] # None
  BY <1>0, <1>1 DEF Open, Flush, Close, TypeOK, Maybe
<1>3. pc \in {"idle", "begun", "rescan"} \/ Creating
  BY <1>1 DEF Open, Flush, Close, SessionsFree, WritesLocked
<1>4. CASE pc = "begun"
  <2>1. ASSUME Noting, Moved(call.id) PROVE file'[NewId] = file[NewId]
    <3>1. NewId \in Ids /\ call.id \in Ids
      BY <2>1, NotingFacts
    <3>2. session[NewId] = None
      BY <1>4, <2>1, <3>1 DEF RowsInv, DestinationsOpen, NewId
    <3> QED
      BY <1>2, <3>1, <3>2
  <2> QED
    BY <1>0, <1>4, <2>1 DEF CopiesInv, Noting, NewId, Moved
<1>5. CASE Creating /\ pc \in {"record", "open", "takeback"}
  <2>1. call.id \in Ids /\ session[call.id] = None
    BY <1>5 DEF TypeInv, CallFits, DraftsInv
  <2>2. file'[call.id] = file[call.id]
    BY <1>2, <2>1
  <2> QED
    BY <1>0, <1>5, <2>2 DEF CopiesInv, Creating, Reidentifying, Deleting
<1>6. CASE pc \notin {"begun", "record", "open", "takeback"}
  <2>1. pc \notin {"write", "move", "undo"}
    BY <1>3 DEF TypeInv, PcFits, Creating, Reidentifying
  <2> QED
    BY <1>0, <1>6, <2>1, CopiesElsewhere
<1>7. pc \in {"record", "open", "takeback"} => Creating
  BY <1>3
<1> QED
  BY <1>4, <1>5, <1>6, <1>7

LEMMA CopiesStarts == TypeInv /\ Starts => CopiesInv'
<1> SUFFICES ASSUME TypeInv, Starts PROVE CopiesInv'
  OBVIOUS
<1>1. pc' \in {"idle", "begun", "park", "publish"}
  BY Zenon DEF Starts, RenameNote, MoveNote, RenameDirectory, DeleteNote, DeleteDraft, DeleteDirectory,
         CreateNote, CreateTarget, CreateDirectory, Begin
<1>2. ASSUME NEW i \in Ids, NEW j \in Ids, Available(j, i), call'.move = MoveOne(i, j), call'.id = i,
             file' = file, pc' = "begun"
      PROVE  CopiesInv'
  <2>1. MoveOne(i, j)[i] = j
    BY DEF MoveOne, Same
  <2>2. (Moved(call.id))' => file'[(NewId)'] = None
    BY <1>2, <2>1 DEF Moved, NewId, Available
  <2> QED
    BY <1>2, <2>2 DEF CopiesInv
<1>3. ASSUME NEW i \in Ids, NEW title \in Titles, RenameNote(i, title) PROVE CopiesInv'
  <2>1. <<i[1], title>> \in Ids
    BY IdParts
  <2>2. /\ Available(<<i[1], title>>, i) /\ call'.move = MoveOne(i, <<i[1], title>>) /\ call'.id = i
        /\ file' = file /\ pc' = "begun"
    BY <1>3 DEF RenameNote, Begin, NoCall
  <2> QED
    BY <1>2, <2>1, <2>2
<1>4. ASSUME NEW i \in Ids, NEW d \in Dirs, MoveNote(i, d) PROVE CopiesInv'
  <2>1. <<d, i[2]>> \in Ids
    BY IdParts
  <2>2. /\ Available(<<d, i[2]>>, i) /\ call'.move = MoveOne(i, <<d, i[2]>>) /\ call'.id = i
        /\ file' = file /\ pc' = "begun"
    BY <1>4 DEF MoveNote, Begin, NoCall
  <2> QED
    BY <1>2, <2>1, <2>2
<1>5. ASSUME NEW d \in Dirs, NEW e \in Dirs, RenameDirectory(d, e) PROVE CopiesInv'
  <2>1. call'.kind = "renameDir" /\ pc' = "begun"
    BY <1>5 DEF RenameDirectory, Begin, NoCall
  <2> QED
    BY <2>1 DEF CopiesInv, Noting
<1>6. CASE pc' # "begun"
  BY <1>1, <1>6, CopiesElsewhere
<1> QED
  BY <1>3, <1>4, <1>5, <1>6, Zenon DEF Starts, DeleteNote, DeleteDraft, DeleteDirectory, CreateNote, CreateTarget,
     CreateDirectory, Begin

LEMMA CopiesPlan == TypeInv /\ CopiesInv /\ Plan => CopiesInv'
<1> SUFFICES ASSUME TypeInv, CopiesInv, Plan, spent'.guests = 0 PROVE CopiesInv'
  BY DEF CopiesInv
<1>1. /\ pc = "begun" /\ UNCHANGED <<file, call, journal, spent>> /\ TypeOK /\ before'.file = file
      /\ journal = <<>>
  BY DEF Plan, stores, TypeInv, JournalFits, Stores
<1>2. CASE pc' = "done"
  BY <1>2, CopiesElsewhere
<1>3. CASE pc' # "done"
  <2>1. /\ pc' = "write" /\ plan' = [i \in {k \in Candidates : Touched(k)} |-> PlanFor(i)]
        /\ todo' = {i \in DOMAIN plan' : plan'[i].file # None}
    BY <1>3 DEF Plan, Refuse
  <2>2. ASSUME NEW i \in todo' PROVE SameWork(before'.file[i], plan'[i].file)
    <3>1. plan'[i].file = NewText(file[i], i) /\ plan'[i].file # None
      BY <2>1, PlanForFacts
    <3>2. i \in Ids
      BY <1>1, <2>1, <2>2 DEF Candidates, MovedIds, TypeInv, CallFits
    <3> QED
      BY <1>1, <3>1, <3>2, NewTextSays DEF TypeOK, Maybe
  <2>3. FilesKept' /\ AllThere'
    BY <1>1 DEF FilesKept, AllThere, SameWork
  <2>4. JournalKept'
    BY <1>1 DEF JournalKept
  <2>5. Noting' /\ Moved(call.id)' => before'.file[(NewId)'] = None
    BY <1>1 DEF CopiesInv, Noting, Moved, NewId
  <2> QED
    BY <1>1, <2>1, <2>2, <2>3, <2>4, <2>5 DEF CopiesInv
<1> QED
  BY <1>2, <1>3

LEMMA JournalKeeps ==
    ASSUME TypeInv, JournalKept, UNCHANGED <<call, before>>, NEW e, EntryKept(e),
           journal' = Append(journal, e), e \in JournalEntry
    PROVE  JournalKept'
<1>1. journal \in Seq(JournalEntry)
  BY DEF TypeInv, JournalFits
<1>2. /\ journal' \in Seq(JournalEntry) /\ Len(journal') = Len(journal) + 1
      /\ \A n \in 1..Len(journal) : journal'[n] = journal[n]
      /\ journal'[Len(journal) + 1] = e
  BY <1>1, AppendProperties
<1>3. \A n \in 1..Len(journal') : n \in 1..Len(journal) \/ n = Len(journal) + 1
  BY <1>1, <1>2
<1>4. \A f : EntryKept(f) => EntryKept(f)'
  BY DEF EntryKept, Noting, Moved, In
<1>5. ASSUME NEW n \in 1..Len(journal') PROVE EntryKept(journal'[n])
  BY <1>2, <1>3 DEF JournalKept
<1> QED
  BY <1>4, <1>5 DEF JournalKept, EntryKept, Noting, Moved, In

(* Only an id that something is to go to holds what was elsewhere.           *)
LEMMA GoesFacts ==
    ASSUME TypeInv, NEW i \in Ids, NEW k \in Ids, Goes(i, k)
    PROVE  /\ Noting => i = call.id /\ k = NewId /\ i # k
           /\ call.kind = "renameDir" => /\ i = <<call.dir, k[2]>> /\ i[1] = call.dir
                                         /\ k[1] = call.newDir /\ i # k
           /\ Noting \/ call.kind = "renameDir"
BY IdParts, NotingFacts DEF Goes, Moved, NewId

LEMMA CopiesWrite ==
    ASSUME TypeInv, TypeInv', CopiesInv, spent.guests = 0, NEW i \in Ids, WriteFile(i)
    PROVE  CopiesInv' /\ Durable \ Durable' \subseteq DeletedWork
<1>0. TypeOK /\ Reidentifying /\ pc = "write" /\ i \in todo /\ FilesKept /\ JournalKept
  BY DEF TypeInv, PcFits, WriteFile, CopiesInv
<1>1. /\ SameWork(before.file[i], plan[i].file) /\ file[i] # None
      /\ SameWork(before.file[i], file[i])
  <2>1. SameWork(before.file[i], plan[i].file) /\ file[i] # None
    BY <1>0 DEF CopiesInv, AllThere, SameWork
  <2> QED
    BY <2>1 DEF CopiesInv, WriteFile, FilesKept, SameWork, TypeInv, PcFits
<1>2. file' = [file EXCEPT ![i] = plan[i].file] /\ file \in [Ids -> Text \cup {None}]
  BY <1>0 DEF WriteFile, TypeOK, Maybe
<1>3. \A k \in Ids : file[k] # None => SameWork(file[k], file'[k])
  BY <1>1, <1>2 DEF SameWork
<1>4. Durable \ Durable' \subseteq DeletedWork
  BY <1>3, WorkStays DEF WriteFile, SameWork
<1>5. FilesKept'
  <2>1. \A k, j : Goes(k, j)' = Goes(k, j)
    BY DEF WriteFile, Goes, Noting, Moved, NewId
  <2>2. ASSUME NEW k \in Ids, file'[k] # None
        PROVE  \/ SameWork(before.file[k], file'[k])
               \/ before.file[k] = None /\ \E j \in Ids : Goes(j, k) /\ SameWork(before.file[j], file'[k])
    BY <1>0, <1>1, <1>2, <2>2 DEF FilesKept
  <2> QED
    BY <2>1, <2>2 DEF FilesKept, WriteFile
<1>6. JournalKept'
  <2>1. EntryKept(Wrote(i, file[i])) /\ journal' = Append(journal, Wrote(i, file[i]))
    BY <1>1 DEF EntryKept, Wrote, WriteFile
  <2>2. Wrote(i, file[i]) \in JournalEntry
    BY <1>2 DEF Wrote, JournalEntry
  <2> QED
    BY <1>0, <2>1, <2>2, JournalKeeps DEF WriteFile
<1>7. AllThere'
  BY <1>0, <1>1, <1>2 DEF CopiesInv, AllThere, SameWork, WriteFile
<1>8. UNCHANGED <<call, before, pc, plan, spent>> /\ todo' \subseteq todo
  BY DEF WriteFile
<1> QED
  BY <1>0, <1>4, <1>5, <1>6, <1>7, <1>8 DEF CopiesInv, Noting, NewId, Moved, Reidentifying, Creating, Deleting

LEMMA CopiesWritten ==
    ASSUME TypeInv, CopiesInv, spent.guests = 0, FilesWritten
    PROVE  CopiesInv'
<1>1. /\ pc = "write" /\ pc' = "move" /\ UNCHANGED <<file, call, plan, before, journal, spent>> /\ Reidentifying
      /\ todo' = IF call.kind = "renameDir" THEN {} ELSE DOMAIN plan \cap MovedIds
  BY DEF FilesWritten, stores, TypeInv, PcFits
<1>2. \A i \in todo' : Noting /\ Moved(i)
  BY <1>1 DEF MovedIds, Reidentifying, Noting
<1>3. /\ FilesKept /\ JournalKept /\ AllThere
      /\ Noting /\ Moved(call.id) => before.file[NewId] = None
  BY <1>1 DEF CopiesInv
<1>4. JournalKept'
  BY <1>1, <1>3, CopiesRest DEF JournalKept
<1> QED
  BY <1>1, <1>2, <1>3, <1>4, CopiesRest DEF CopiesInv, Creating, Deleting, Reidentifying, Noting, Moved

LEMMA CopiesMove ==
    ASSUME TypeInv, TypeInv', CopiesInv, spent.guests = 0, NEW i \in Ids, MoveFile(i)
    PROVE  CopiesInv' /\ Durable \ Durable' \subseteq DeletedWork
<1>0. /\ TypeOK /\ Reidentifying /\ pc = "move" /\ i \in todo /\ FilesKept /\ JournalKept
      /\ Noting /\ Moved(i) /\ file[i] # None /\ draft' = draft
  BY DEF TypeInv, PcFits, MoveFile, CopiesInv
<1>1. /\ i = call.id /\ NewId = call.move[i] /\ NewId \in Ids /\ NewId # i
      /\ before.file[NewId] = None
  BY <1>0, NotingFacts DEF NewId, Moved, CopiesInv
<1>2. /\ \A k \in Ids : file'[k] = IF k = NewId THEN file[i] ELSE IF k = i THEN None ELSE file[k]
      /\ file \in [Ids -> Text \cup {None}]
  BY <1>0, <1>1 DEF MoveFile, TypeOK, Maybe, Renamed
<1>3. SameWork(before.file[i], file[i])
  <2>1. ASSUME NEW j \in Ids, Goes(j, i) PROVE FALSE
    BY <1>0, <1>1, <2>1, GoesFacts
  <2> QED
    BY <1>0, <2>1 DEF FilesKept
<1>4. file[NewId] # None => SameWork(file[NewId], file[i])
  <2>1. \A j \in Ids : Goes(j, NewId) => j = i
    BY <1>0, <1>1, GoesFacts
  <2> QED
    BY <1>0, <1>1, <1>3, <2>1 DEF FilesKept, SameWork
<1>5. \A k \in Ids : file[k] # None => \E j \in Ids : SameWork(file[k], file'[j])
  BY <1>0, <1>1, <1>2, <1>4 DEF SameWork
<1>6. Durable \ Durable' \subseteq DeletedWork
  BY <1>0, <1>5, WorkStays DEF SameWork
<1>7. UNCHANGED <<call, before, pc, plan, spent>> /\ todo' \subseteq todo
  BY DEF MoveFile
<1>8. FilesKept'
  <2>1. \A k, j : Goes(k, j)' = Goes(k, j)
    BY <1>7 DEF Goes, Noting, Moved, NewId
  <2>2. ASSUME NEW k \in Ids, file'[k] # None
        PROVE  \/ SameWork(before.file[k], file'[k])
               \/ before.file[k] = None /\ \E j \in Ids : Goes(j, k) /\ SameWork(before.file[j], file'[k])
    <3>1. CASE k = NewId
      <4>1. Goes(i, NewId)
        BY <1>0, <1>1 DEF Goes
      <4> QED
        BY <1>1, <1>2, <1>3, <3>1, <4>1
    <3>2. CASE k # NewId
      <4>1. file'[k] = file[k] /\ file[k] # None
        BY <1>2, <2>2, <3>2
      <4> QED
        BY <1>0, <4>1 DEF FilesKept
    <3> QED
      BY <3>1, <3>2
  <2> QED
    BY <1>7, <2>1, <2>2 DEF FilesKept
<1>9. JournalKept'
  <2>1. EntryKept(MovedFile(i)) /\ MovedFile(i) \in JournalEntry
    BY <1>0 DEF EntryKept, MovedFile, JournalEntry
  <2> QED
    BY <1>0, <1>7, <2>1, JournalKeeps DEF MoveFile
<1>10. call.kind # "renameDir"
  BY <1>0 DEF Noting
<1> QED
  BY <1>0, <1>1, <1>6, <1>7, <1>8, <1>9, <1>10
     DEF CopiesInv, Noting, NewId, Moved, Reidentifying, Creating, Deleting

(* A Directory renamed over an empty one: what was under the old name is     *)
(* under the new one, the rest stays, and no work goes.                      *)
LEMMA Shifted ==
    ASSUME NEW d \in Dirs, NEW e \in Dirs, d # e, file' = ShiftDir(file, d, e)
    PROVE  /\ \A k \in Ids : k[1] = e =>
                /\ <<d, k[2]>> \in Ids /\ <<d, k[2]>>[1] = d /\ <<d, k[2]>>[2] = k[2]
                /\ file'[k] = file[<<d, k[2]>>]
           /\ \A k \in Ids : k[1] = d =>
                /\ <<e, k[2]>> \in Ids /\ <<e, k[2]>>[1] = e /\ <<e, k[2]>>[2] = k[2]
                /\ file'[<<e, k[2]>>] = file[k]
           /\ \A k \in Ids : k[1] = d => file'[k] = None
           /\ \A k \in Ids : k[1] # d /\ k[1] # e => file'[k] = file[k]
<1>1. \A k \in Ids :
         /\ k = <<k[1], k[2]>>
         /\ <<d, k[2]>> \in Ids /\ <<d, k[2]>>[1] = d /\ <<d, k[2]>>[2] = k[2]
         /\ <<e, k[2]>> \in Ids /\ <<e, k[2]>>[1] = e /\ <<e, k[2]>>[2] = k[2]
  BY IdParts
<1>2. \A j \in Ids : file'[j] = IF j[1] = e THEN file[<<d, j[2]>>]
                                ELSE IF j[1] = d THEN None ELSE file[j]
  BY DEF ShiftDir
<1> SUFFICES ASSUME NEW k \in Ids
             PROVE  /\ k[1] = e => file'[k] = file[<<d, k[2]>>]
                    /\ k[1] = d => file'[k] = None /\ file'[<<e, k[2]>>] = file[k]
                    /\ k[1] # d /\ k[1] # e => file'[k] = file[k]
  BY <1>1
<1>3. k[1] = d => file'[<<e, k[2]>>] = file[k]
  <2>1. k[1] = d => <<d, <<e, k[2]>>[2]>> = k
    BY <1>1
  <2> QED
    BY <1>1, <1>2, <2>1
<1> QED
  BY <1>2, <1>3

LEMMA ShiftKeepsWork ==
    ASSUME NEW d \in Dirs, NEW e \in Dirs, d # e, file' = ShiftDir(file, d, e), draft' = draft, Empty(e)
    PROVE  Durable \ Durable' \subseteq DeletedWork
<1>0. /\ \A k \in Ids : k[1] = d => <<e, k[2]>> \in Ids /\ file'[<<e, k[2]>>] = file[k]
      /\ \A k \in Ids : k[1] # d /\ k[1] # e => file'[k] = file[k]
  BY Shifted
<1>1. ASSUME NEW k \in Ids, file[k] # None PROVE \E j \in Ids : SameWork(file[k], file'[j])
  <2>1. k[1] # e
    BY <1>1 DEF Empty, In
  <2>2. CASE k[1] = d
    <3>1. <<e, k[2]>> \in Ids /\ file'[<<e, k[2]>>] = file[k]
      BY <1>0, <2>2
    <3>2. SameWork(file[k], file'[<<e, k[2]>>])
      BY <1>1, <3>1 DEF SameWork
    <3> QED
      BY <3>1, <3>2
  <2>3. CASE k[1] # d
    <3>1. file'[k] = file[k]
      BY <1>0, <2>1, <2>3
    <3>2. SameWork(file[k], file'[k])
      BY <1>1, <3>1 DEF SameWork
    <3> QED
      BY <3>2
  <2> QED
    BY <2>2, <2>3
<1> QED
  BY <1>1, WorkStays DEF SameWork

LEMMA CopiesMoveDir ==
    ASSUME TypeInv, TypeInv', CopiesInv, spent.guests = 0, MoveDir
    PROVE  CopiesInv' /\ Durable \ Durable' \subseteq DeletedWork
<1> DEFINE d == call.dir
           e == call.newDir
<1>0. /\ Reidentifying /\ pc = "move" /\ FilesKept /\ JournalKept /\ AllThere /\ Empty(e)
      /\ call.kind = "renameDir" /\ ~Noting /\ draft' = draft /\ file' = ShiftDir(file, d, e)
      /\ pc' = "record" /\ UNCHANGED <<call, before, spent>>
  BY DEF TypeInv, PcFits, MoveDir, CopiesInv, Reidentifying, Noting
<1>1. d \in Dirs /\ e \in Dirs /\ d # e
  BY <1>0, NotingFacts
<1> HIDE DEF d, e
<1>2. Durable \ Durable' \subseteq DeletedWork
  BY <1>0, <1>1, ShiftKeepsWork
<1>3. \A k \in Ids : k[1] = e => before.file[k] = None
  BY <1>0 DEF AllThere, Empty, In
<1>4. ASSUME NEW k \in Ids, file[k] # None PROVE SameWork(before.file[k], file[k])
  <2>1. k[1] # e
    BY <1>0, <1>4 DEF Empty, In
  <2>2. ASSUME NEW j \in Ids, Goes(j, k) PROVE FALSE
    BY <1>0, <2>1, <2>2, GoesFacts DEF e
  <2> QED
    BY <1>0, <1>4, <2>2 DEF FilesKept
<1>5. ASSUME NEW k \in Ids, file'[k] # None
      PROVE  \/ SameWork(before.file[k], file'[k])
             \/ before.file[k] = None /\ \E j \in Ids : Goes(j, k) /\ SameWork(before.file[j], file'[k])
  <2>1. CASE k[1] = e
    <3> DEFINE j == <<d, k[2]>>
    <3>1. j \in Ids /\ j[1] = d /\ file'[k] = file[j]
      BY <1>0, <1>1, <2>1, Shifted
    <3>2. Goes(j, k)
      <4>1. k = <<e, j[2]>>
        BY <2>1, IdParts
      <4> QED
        BY <1>0, <3>1, <4>1 DEF Goes, d, e
    <3> HIDE DEF j
    <3> QED
      BY <1>3, <1>4, <1>5, <2>1, <3>1, <3>2
  <2>2. CASE k[1] # e
    <3>1. k[1] # d
      <4>1. \A j \in Ids : j[1] = d => file'[j] = None
        BY <1>0, <1>1, Shifted
      <4> QED
        BY <1>5, <4>1
    <3>2. file'[k] = file[k]
      BY <1>0, <1>1, <2>2, <3>1, Shifted
    <3> QED
      BY <1>4, <1>5, <3>2
  <2> QED
    BY <2>1, <2>2
<1>6. FilesKept'
  <2>1. \A k, j : Goes(k, j)' = Goes(k, j)
    BY <1>0 DEF Goes, Noting, Moved, NewId
  <2> QED
    BY <1>0, <1>5, <2>1 DEF FilesKept
<1>7. JournalKept'
  <2>1. EntryKept(MovedDir) /\ MovedDir \in JournalEntry
    BY <1>3 DEF EntryKept, MovedDir, JournalEntry, In, e
  <2> QED
    BY <1>0, <2>1, JournalKeeps DEF MoveDir
<1> QED
  BY <1>0, <1>2, <1>6, <1>7 DEF CopiesInv, Noting, Creating, Deleting

LEMMA CopiesReidentify ==
    ASSUME TypeInv, TypeInv', CopiesInv, spent.guests = 0, spent'.guests = 0, Reidentifies
    PROVE  CopiesInv'
<1>1. CASE FilesMoved
  <2>1. /\ pc = "move" /\ pc' = "record" /\ UNCHANGED <<file, call, plan, before, journal, spent>>
        /\ Reidentifying
    BY <1>1 DEF FilesMoved, stores, TypeInv, PcFits
  <2>2. /\ FilesKept /\ JournalKept /\ (Noting /\ Moved(call.id) => before.file[NewId] = None)
    BY <2>1 DEF CopiesInv
  <2>3. JournalKept'
    BY <2>1, <2>2, CopiesRest DEF JournalKept
  <2> QED
    BY <2>1, <2>2, <2>3, CopiesRest DEF CopiesInv, Creating, Deleting, Reidentifying
<1>2. CASE PlanFails \/ RecordMove \/ SettleMove \/ Answer \/ AnswerFails
  <2>1. pc' \in {"done", "commit", "answer"}
    BY <1>2 DEF PlanFails, RecordMove, SettleMove, Answer, AnswerFails, Refuse
  <2> QED
    BY <2>1, CopiesElsewhere
<1> QED
  BY <1>1, <1>2, CopiesPlan, CopiesWrite, CopiesWritten, CopiesMove, CopiesMoveDir DEF Reidentifies

LEMMA CopiesDeletes ==
    ASSUME TypeInv, CopiesInv, Deletes
    PROVE  CopiesInv'
<1>1. CASE Park
  <2>1. /\ Deleting /\ call' = call /\ pc' = "record"
        /\ file' = [i \in Ids |-> IF i \in Scope THEN None ELSE file[i]]
        /\ journal = <<>> /\ journal' \in {journal, Append(journal, Parked)}
    BY <1>1 DEF Park, TypeInv, PcFits, JournalFits
  <2>2. Scope' = Scope /\ Scope \subseteq Ids
    BY <2>1 DEF Scope, In, TypeInv, CallFits, CallType
  <2>3. Len(journal') <= 1
    <3>1. CASE journal' = <<>>
      BY <3>1
    <3>2. CASE journal' = Append(<<>>, Parked)
      <4>1. Parked \in JournalEntry /\ <<>> \in Seq(JournalEntry) /\ Len(<<>>) = 0
        BY DEF Parked, JournalEntry
      <4>2. Len(Append(<<>>, Parked)) = 0 + 1
        BY <4>1, AppendProperties
      <4> QED
        BY <3>2, <4>2
    <3> QED
      BY <2>1, <3>1, <3>2
  <2> QED
    BY <2>1, <2>2, <2>3 DEF CopiesInv, Deleting, Creating, Reidentifying
<1>2. CASE RecordDeletion \/ SettleDeletion
  BY <1>2, CopiesElsewhere DEF RecordDeletion, SettleDeletion
<1> QED
  BY <1>1, <1>2 DEF Deletes

LEMMA CopiesCreates ==
    ASSUME TypeInv, CopiesInv, spent.guests = 0, Creates
    PROVE  CopiesInv'
<1>0. TypeOK /\ Creating /\ call' = call /\ call.id \in Ids
  <2>1. TypeOK /\ Creating /\ call' = call
    BY DEF Creates, Publish, PublishFails, RecordCreation, RecordCreationFails, OpenCreated,
         OpenCreatedFails, TakeBack, TakeBackFails, TypeInv, PcFits
  <2> QED
    BY <2>1 DEF TypeInv, CallFits
<1>1. CASE Publish
  <2>1. pc' = "record" /\ file'[call.id] = FreshText
    BY <1>0, <1>1 DEF Publish, TypeOK, Maybe
  <2> QED
    BY <1>0, <2>1 DEF CopiesInv, Creating, Deleting, Reidentifying
<1>2. CASE RecordCreation \/ RecordCreationFails \/ OpenCreatedFails
  <2>1. file' = file /\ pc \in {"record", "open"} /\ pc' \in {"open", "takeback"}
    BY <1>2 DEF RecordCreation, RecordCreationFails, OpenCreatedFails, stores
  <2> QED
    BY <1>0, <2>1 DEF CopiesInv, Creating, Deleting, Reidentifying
<1>3. CASE PublishFails \/ OpenCreated \/ TakeBack \/ TakeBackFails
  <2>1. pc' \in {"done", "commit"}
    BY <1>3 DEF PublishFails, OpenCreated, TakeBack, TakeBackFails, Refuse
  <2> QED
    BY <2>1, CopiesElsewhere
<1> QED
  BY <1>1, <1>2, <1>3 DEF Creates

LEMMA CopiesUndo ==
    ASSUME TypeInv, TypeInv', CopiesInv, spent.guests = 0, Undo, Reidentifying
    PROVE  CopiesInv' /\ Durable \ Durable' \subseteq DeletedWork
<1>0. /\ TypeOK /\ pc = "undo" /\ pc' = "undo" /\ FilesKept /\ JournalKept /\ journal # <<>> /\ Undoable
      /\ (Noting /\ Moved(call.id) => before.file[NewId] = None)
      /\ file' = UndoFile /\ UNCHANGED <<draft, call, before, spent>> /\ ~Creating /\ ~Deleting
      /\ journal' = SubSeq(journal, 1, Len(journal) - 1)
  BY NotingFacts DEF TypeInv, Undo, CopiesInv
<1>1. /\ Len(journal') = Len(journal) - 1 /\ Len(journal) \in Nat \ {0}
      /\ \A n \in 1..Len(journal') : journal'[n] = journal[n]
  BY <1>0, JournalShrinks
<1>2. JournalKept'
  <2>1. \A n \in 1..Len(journal') : n \in 1..Len(journal)
    BY <1>1
  <2> QED
    BY <1>0, <1>1, <2>1 DEF JournalKept, EntryKept, Noting, Moved, In
<1>3. EntryKept(Last) /\ Last.step \in {"wrote", "moved", "movedDir"}
  <2>1. Len(journal) \in 1..Len(journal)
    BY <1>1
  <2>2. Last.step \in {"wrote", "moved", "movedDir"}
    BY <1>0, LastType DEF JournalEntry
  <2> QED
    BY <1>0, <2>1, <2>2 DEF JournalKept, Last
<1>4. ASSUME Durable \ Durable' \subseteq DeletedWork,
             \A k \in Ids : file'[k] # None =>
                \/ SameWork(before.file[k], file'[k])
                \/ before.file[k] = None /\ \E j \in Ids : Goes(j, k) /\ SameWork(before.file[j], file'[k])
      PROVE  CopiesInv' /\ Durable \ Durable' \subseteq DeletedWork
  <2>1. \A k, j : Goes(k, j)' = Goes(k, j)
    BY <1>0 DEF Goes, Noting, Moved, NewId
  <2>2. FilesKept'
    BY <1>0, <1>4, <2>1 DEF FilesKept
  <2> QED
    BY <1>0, <1>2, <1>4, <2>2 DEF CopiesInv, Noting, NewId, Moved, Reidentifying, Creating, Deleting
<1>5. CASE Last.step = "wrote"
  <2>1. Last.id \in Ids /\ SameWork(before.file[Last.id], Last.prev)
    BY <1>0, <1>3, <1>5, LastType DEF EntryKept
  <2>2. file' = [file EXCEPT ![Last.id] = Last.prev] /\ file \in [Ids -> Text \cup {None}]
    BY <1>0, <1>5 DEF UndoFile, TypeOK, Maybe
  <2>3. file[Last.id] # None => SameWork(before.file[Last.id], file[Last.id])
    BY <1>0, <2>1 DEF FilesKept, SameWork
  <2>4. \A k \in Ids : file[k] # None => SameWork(file[k], file'[k])
    BY <2>1, <2>2, <2>3 DEF SameWork
  <2>5. Durable \ Durable' \subseteq DeletedWork
    BY <1>0, <2>4, WorkStays DEF SameWork
  <2>6. \A k \in Ids : k = Last.id \/ file'[k] = file[k]
    BY <2>2
  <2>7. SameWork(before.file[Last.id], file'[Last.id])
    BY <2>1, <2>2
  <2> QED
    BY <1>0, <1>4, <2>5, <2>6, <2>7 DEF FilesKept
<1>6. CASE Last.step = "moved"
  <2> DEFINE i == Last.id
  <2>1. /\ i \in Ids /\ Noting /\ Moved(i) /\ i = call.id /\ NewId = call.move[i] /\ NewId \in Ids
        /\ NewId # i /\ before.file[NewId] = None /\ file[NewId] # None
    <3>1. i \in Ids /\ Noting /\ Moved(i)
      BY <1>0, <1>3, <1>6, LastType DEF EntryKept
    <3>2. i = call.id /\ NewId \in Ids
      BY <3>1, NotingFacts
    <3> QED
      BY <1>0, <1>6, <3>1, <3>2 DEF NewId, Moved, Undoable
  <2>2. \A k \in Ids : file'[k] = IF k = i THEN file[NewId] ELSE IF k = NewId THEN None ELSE file[k]
    BY <1>0, <1>6, <2>1 DEF UndoFile
  <2> HIDE DEF i
  <2>3. SameWork(before.file[i], file[NewId])
    <3>1. \A j \in Ids : Goes(j, NewId) => j = i
      BY <2>1, GoesFacts
    <3> QED
      BY <1>0, <2>1, <3>1 DEF FilesKept, SameWork
  <2>4. file[i] # None => SameWork(file[i], file[NewId])
    BY <1>0, <2>1, <2>3 DEF FilesKept, SameWork
  <2>5. \A k \in Ids : file[k] # None => \E j \in Ids : SameWork(file[k], file'[j])
    BY <2>1, <2>2, <2>4 DEF SameWork
  <2>6. Durable \ Durable' \subseteq DeletedWork
    BY <1>0, <2>5, WorkStays DEF SameWork
  <2>7. \A k \in Ids : file'[k] # None => k = i \/ file'[k] = file[k]
    BY <2>2
  <2>8. SameWork(before.file[i], file'[i])
    BY <2>1, <2>2, <2>3
  <2> QED
    BY <1>0, <1>4, <2>6, <2>7, <2>8 DEF FilesKept
<1>7. CASE Last.step = "movedDir"
  <2> DEFINE d == call.dir
             e == call.newDir
  <2>1. /\ call.kind = "renameDir" /\ ~Noting /\ Empty(d) /\ d \in Dirs /\ e \in Dirs /\ d # e
        /\ file' = ShiftDir(file, e, d) /\ \A k \in In(e) : before.file[k] = None
    BY <1>0, <1>3, <1>7, LastType, NotingFacts DEF EntryKept, Undoable, UndoFile
  <2> HIDE DEF d, e
  <2>2. Durable \ Durable' \subseteq DeletedWork
    BY <1>0, <2>1, ShiftKeepsWork
  <2>3. ASSUME NEW k \in Ids, file'[k] # None
        PROVE  \/ SameWork(before.file[k], file'[k])
               \/ before.file[k] = None /\ \E j \in Ids : Goes(j, k) /\ SameWork(before.file[j], file'[k])
    <3>1. CASE k[1] = d
      <4> DEFINE j == <<e, k[2]>>
      <4>1. j \in Ids /\ j[1] = e /\ j[2] = k[2] /\ file'[k] = file[j]
        BY <2>1, <3>1, Shifted
      <4>2. \A i \in Ids : Goes(i, j) => i = k
        <5>1. k = <<d, j[2]>>
          BY <3>1, IdParts
        <5> HIDE DEF j
        <5> QED
          BY <2>1, <4>1, <5>1, GoesFacts DEF d
      <4> HIDE DEF j
      <4>3. before.file[j] = None
        BY <2>1, <4>1 DEF In
      <4> QED
        BY <1>0, <2>3, <4>1, <4>2, <4>3 DEF FilesKept, SameWork
    <3>2. CASE k[1] # d
      <4>1. \A j \in Ids : j[1] = e => file'[j] = None
        BY <2>1, Shifted
      <4>2. \A j \in Ids : j[1] # e /\ j[1] # d => file'[j] = file[j]
        BY <2>1, Shifted
      <4>3. file'[k] = file[k]
        BY <2>3, <3>2, <4>1, <4>2
      <4> QED
        BY <1>0, <2>3, <4>3 DEF FilesKept
    <3> QED
      BY <3>1, <3>2
  <2> QED
    BY <1>4, <2>2, <2>3
<1> QED
  BY <1>3, <1>5, <1>6, <1>7

(* What a deletion parked comes back to where nothing is.                    *)
LEMMA CopiesUnpark ==
    ASSUME TypeInv, TypeInv', CopiesInv, spent.guests = 0, Undo, ~Reidentifying
    PROVE  CopiesInv' /\ Durable \ Durable' \subseteq DeletedWork
<1>1. /\ TypeOK /\ pc = "undo" /\ pc' = "undo" /\ journal # <<>> /\ ~Creating
      /\ file' = UndoFile /\ UNCHANGED <<draft, call, spent>>
      /\ journal' = SubSeq(journal, 1, Len(journal) - 1)
  BY DEF TypeInv, PcFits, Undo
<1>2. Last.step = "parked" /\ Deleting
  BY <1>1, LastType DEF JournalEntry, Reidentifying
<1>3. Len(journal) <= 1 /\ \A i \in Scope : file[i] = None
  BY <1>1, <1>2 DEF CopiesInv
<1>4. journal' = <<>>
  <2>1. Len(journal') = Len(journal) - 1 /\ Len(journal) \in Nat \ {0} /\ JournalFits'
    BY <1>1, JournalShrinks
  <2>2. Len(journal') = 0 /\ journal' \in Seq(JournalEntry)
    BY <1>3, <2>1 DEF JournalFits
  <2> QED
    BY <2>2
<1>5. \A k \in Ids : file'[k] = IF k \in Scope THEN trash[k] ELSE file[k]
  BY <1>1, <1>2 DEF UndoFile
<1>6. \A k \in Ids : file[k] # None => SameWork(file[k], file'[k])
  BY <1>3, <1>5 DEF SameWork
<1>7. Durable \ Durable' \subseteq DeletedWork
  BY <1>1, <1>6, WorkStays DEF SameWork
<1> QED
  BY <1>1, <1>4, <1>7 DEF CopiesInv, Reidentifying, Creating, Deleting

LEMMA CopiesUnwinds ==
    ASSUME TypeInv, TypeInv', CopiesInv, spent.guests = 0, Unwinds
    PROVE  CopiesInv' /\ Durable \ Durable' \subseteq DeletedWork
<1>1. CASE StepFails \/ UndoFails
  <2>1. /\ pc \in {"write", "move", "record", "park", "undo"} /\ pc' = "undo" /\ ~Creating
        /\ UNCHANGED <<file, draft, call, plan, before>>
    BY <1>1 DEF StepFails, UndoFails, stores, TypeInv, PcFits
  <2>2. /\ Len(journal') \in Nat /\ Len(journal) \in Nat /\ Len(journal') <= Len(journal)
        /\ \A n \in 1..Len(journal') : journal'[n] = journal[n]
        /\ journal' # <<>> => journal # <<>>
    <3>1. CASE StepFails
      BY <3>1 DEF StepFails, TypeInv, JournalFits
    <3>2. CASE UndoFails
      <4>1. journal # <<>> /\ journal' = SubSeq(journal, 1, Len(journal) - 1)
        BY <3>2 DEF UndoFails
      <4> QED
        BY <2>1, <4>1, JournalShrinks
    <3> QED
      BY <1>1, <3>1, <3>2
  <2>3. ASSUME Reidentifying PROVE FilesKept' /\ JournalKept' /\ (Noting /\ Moved(call.id) => before.file[NewId] = None)
    <3>1. pc \in {"write", "move", "record", "undo"}
      BY <2>1, <2>3, NotingFacts DEF TypeInv, PcFits
    <3>2. FilesKept /\ JournalKept /\ (Noting /\ Moved(call.id) => before.file[NewId] = None)
      BY <2>3, <3>1 DEF CopiesInv
    <3>3. \A n \in 1..Len(journal') : n \in 1..Len(journal)
      BY <2>2
    <3> QED
      BY <2>1, <2>2, <3>2, <3>3, CopiesRest DEF JournalKept
  <2>4. ASSUME Deleting PROVE Len(journal') <= 1 /\ (journal' # <<>> => \A i \in Scope : file[i] = None)
    <3>1. CASE pc = "park"
      BY <2>1, <2>2, <3>1 DEF TypeInv, JournalFits
    <3>2. CASE pc # "park"
      <4>1. pc \in {"record", "undo"}
        BY <2>1, <2>4, <3>2, NotingFacts DEF TypeInv, PcFits
      <4> QED
        BY <2>2, <2>4, <4>1 DEF CopiesInv
    <3> QED
      BY <3>1, <3>2
  <2>5. CopiesInv'
    BY <2>1, <2>3, <2>4, CopiesRest DEF CopiesInv
  <2> QED
    BY <2>1, <2>5, WorkUntouched
<1>2. CASE Undone
  BY <1>2, CopiesElsewhere, WorkUntouched DEF Undone, Refuse, stores
<1> QED
  BY <1>1, <1>2, CopiesUndo, CopiesUnpark DEF Unwinds

LEMMA CopiesNext ==
    ASSUME TypeInv, TypeInv', DraftsInv, RowsInv, CopiesInv, [Next]_vars
    PROVE  CopiesInv'
<1> SUFFICES ASSUME spent'.guests = 0 PROVE CopiesInv'
  BY DEF CopiesInv
<1>0. spent.guests = 0 /\ ~Guests
  BY GuestsCounted
<1>1. CASE UNCHANGED vars
  <2>1. UNCHANGED <<file, call, before, plan, journal, pc, spent, todo>>
    BY <1>1 DEF vars
  <2> QED
    BY <2>1, CopiesRest DEF CopiesInv, JournalKept
<1>2. CASE Commit \/ Return \/ Crash \/ Rescan \/ Reindex
  <2>1. pc' \in {"done", "settle", "idle", "rescan"}
    BY <1>2 DEF Commit, Return, Crash, Rescan, Reindex
  <2> QED
    BY <2>1, CopiesElsewhere
<1> QED
  BY <1>0, <1>1, <1>2, CopiesSessions, CopiesStarts, CopiesReidentify, CopiesDeletes, CopiesCreates,
     CopiesUnwinds DEF Next, Operates

(* The transaction of a rename or move carries every draft row, and no two   *)
(* to one id.                                                                *)
LEMMA RecordKeepsWork ==
    ASSUME TypeInv, RowsInv, RecordMove
    PROVE  Durable \ Durable' \subseteq DeletedWork
<1>0. /\ Reidentifying /\ DraftsPlanned /\ draft' = RecordedDraft /\ file' = file
      /\ \A i \in Ids : call.move[i] \in Ids
  BY NotingFacts DEF RecordMove, RowsInv
<1>1. /\ \A i \in DOMAIN plan : draft[i] # None =>
            /\ \E j \in Arrived(call.move[i]) : draft[j] # None
            /\ (CHOOSE j \in Arrived(call.move[i]) : draft[j] # None) = i
      /\ \A i \in Ids \ DOMAIN plan : draft[i] # None /\ ~Moved(i) =>
            ~ \E j \in Arrived(i) : draft[j] # None
  BY <1>0, Arrivals DEF DraftsPlanned
<1>2. \A k \in Ids : draft'[k] = IF \E i \in Arrived(k) : draft[i] # None
                                 THEN DraftAfter(CHOOSE i \in Arrived(k) : draft[i] # None)
                                 ELSE IF k \in DOMAIN plan /\ Moved(k) THEN None ELSE draft[k]
  BY <1>0 DEF RecordedDraft
<1>3. ASSUME NEW i \in Ids, draft[i] # None PROVE \E k \in Ids : SameWork(draft[i], draft'[k])
  <2>1. CASE i \in DOMAIN plan
    <3>1. draft'[call.move[i]] = DraftAfter(i)
      BY <1>0, <1>1, <1>2, <1>3, <2>1
    <3>2. SameWork(draft[i], DraftAfter(i))
      BY <1>0, <1>3, <2>1 DEF DraftAfter, DraftsPlanned, SameWork
    <3> QED
      BY <1>0, <3>1, <3>2
  <2>2. CASE i \notin DOMAIN plan
    <3>1. draft'[i] = draft[i]
      BY <1>0, <1>1, <1>2, <1>3, <2>2 DEF DraftsPlanned
    <3> QED
      BY <1>3, <3>1 DEF SameWork
  <2> QED
    BY <2>1, <2>2
<1> QED
  BY <1>0, <1>3, WorkStays DEF SameWork

(* A deletion takes what it was asked to delete.                             *)
LEMMA DeletesKeepWork ==
    ASSUME TypeInv, Park \/ RecordDeletion
    PROVE  Durable \ Durable' \subseteq DeletedWork
<1> DEFINE lost == {FreshText.body} \cup {t.body : t \in GuestTexts}
<1>0. Deleting /\ Scope \subseteq Ids /\ call.ids \subseteq Ids /\ TypeOK
  BY DEF TypeInv, Park, RecordDeletion, PcFits, Scope, In, CallFits, CallType, Deleting
<1> SUFFICES ASSUME NEW x \in Durable, x \notin Durable' PROVE x \in DeletedWork
  OBVIOUS
<1>1. /\ x \notin lost
      /\ \/ \E i \in Ids : file[i] # None /\ x = file[i].body
         \/ \E i \in Ids : draft[i] # None /\ x = draft[i].body
  BY DEF Durable, Work
<1>2. /\ \A i \in Ids : file'[i] # None => x # file'[i].body
      /\ \A i \in Ids : draft'[i] # None => x # draft'[i].body
  BY <1>1 DEF Durable, Work
<1>3. /\ \A i \in Ids : file'[i] = file[i] \/ i \in Scope
      /\ \A i \in Ids : draft'[i] = draft[i] \/ i \in call.ids
  BY <1>0 DEF Park, RecordDeletion, TypeOK, Maybe
<1>4. \/ \E i \in Scope : file[i] # None /\ x = file[i].body
      \/ \E i \in call.ids : draft[i] # None /\ x = draft[i].body
  BY <1>1, <1>2, <1>3
<1>5. CASE \E i \in Scope : file[i] # None /\ x = file[i].body
  <2> DEFINE f == [i \in Ids |-> IF Deleting /\ i \in Scope \cup call.ids THEN file[i] ELSE None]
  <2>1. \E i \in Ids : f[i] # None /\ x = f[i].body
    BY <1>0, <1>5
  <2> HIDE DEF f
  <2>2. x \in Work(f)
    BY <1>1, <2>1 DEF Work
  <2> QED
    BY <2>2 DEF DeletedWork, f
<1>6. CASE \E i \in call.ids : draft[i] # None /\ x = draft[i].body
  <2> DEFINE f == [i \in Ids |-> IF Deleting /\ i \in call.ids THEN draft[i] ELSE None]
  <2>1. \E i \in Ids : f[i] # None /\ x = f[i].body
    BY <1>0, <1>6
  <2> HIDE DEF f
  <2>2. x \in Work(f)
    BY <1>1, <2>1 DEF Work
  <2> QED
    BY <2>2 DEF DeletedWork, f
<1> QED
  BY <1>4, <1>5, <1>6

LEMMA CreatesKeepWork ==
    ASSUME TypeInv, RowsInv, CopiesInv, spent.guests = 0, Creates
    PROVE  Durable \ Durable' \subseteq DeletedWork
<1>0. TypeOK /\ Creating /\ call.id \in Ids
  <2>1. TypeOK /\ Creating
    BY DEF Creates, Publish, PublishFails, RecordCreation, RecordCreationFails, OpenCreated,
         OpenCreatedFails, TakeBack, TakeBackFails, TypeInv, PcFits
  <2> QED
    BY <2>1 DEF TypeInv, CallFits
<1>1. \A i \in Ids : file'[i] = file[i] \/ file[i] \in {None, FreshText}
  BY <1>0 DEF CopiesInv, Creates, Publish, PublishFails, RecordCreation, RecordCreationFails, OpenCreated,
         OpenCreatedFails, TakeBack, TakeBackFails, stores, TypeOK, Maybe
<1>2. \A i \in Ids : draft'[i] = draft[i] \/ draft[i] = None
  BY <1>0 DEF RowsInv, Creates, Publish, PublishFails, RecordCreation, RecordCreationFails, OpenCreated,
         OpenCreatedFails, TakeBack, TakeBackFails, stores, TypeOK, Maybe
<1> QED
  BY <1>1, <1>2, WorkStays DEF SameWork

LEMMA StepsKeepWork ==
    ASSUME TypeInv, TypeInv', RowsInv, CopiesInv, [Next]_vars, spent.guests = 0,
           pc' # pc \/ journal' # journal
    PROVE  Durable \ Durable' \subseteq DeletedWork
<1>1. CASE Starts
  <2>1. UNCHANGED <<file, draft>>
    BY ZenonT(60), <1>1 DEF Starts, RenameNote, MoveNote, RenameDirectory, DeleteNote, DeleteDraft, DeleteDirectory,
         CreateNote, CreateTarget, CreateDirectory, Begin
  <2> QED
    BY <2>1, WorkUntouched
<1>2. CASE Reidentifies
  <2>1. CASE Plan \/ PlanFails \/ FilesWritten \/ FilesMoved \/ SettleMove \/ Answer \/ AnswerFails
    BY <2>1, WorkUntouched DEF Plan, PlanFails, FilesWritten, FilesMoved, SettleMove, Answer, AnswerFails, stores
  <2> QED
    BY <1>2, <2>1, CopiesWrite, CopiesMove, CopiesMoveDir, RecordKeepsWork DEF Reidentifies
<1>3. CASE Deletes
  <2>1. CASE SettleDeletion
    BY <2>1, WorkUntouched DEF SettleDeletion
  <2> QED
    BY <1>3, <2>1, DeletesKeepWork DEF Deletes
<1>4. CASE Commit \/ Return \/ Crash \/ Rescan \/ Reindex
  BY <1>4, WorkUntouched DEF Commit, Return, Crash, Rescan, Reindex, stores
<1>5. ~UNCHANGED vars /\ ~Sessions /\ ~Guests
  BY Zenon DEF vars, Sessions, Open, Flush, Close, Guests, GuestWrites, GuestRemoves, Guest
<1> QED
  BY <1>1, <1>2, <1>3, <1>4, <1>5, CreatesKeepWork, CopiesUnwinds DEF Next, Operates

(* No step of an operation of lifecycle.rs, no undo of                       *)
(* FileJournal::rollback, failed or not, no creation taken back and no kill  *)
(* takes the last copy of what a user wrote out of the files and the draft   *)
(* rows, but for what a deletion was asked to delete; in whatever state      *)
(* failed rollbacks and kills before it have left the bundle, as long as no  *)
(* other tool has written to it.                                             *)
THEOREM NoWorkIsLost == Spec => WorkKept
<1>1. Init => RowsInv /\ CopiesInv
  BY RowsInit, CopiesInit
<1>2. OperationInv /\ OperationInv' /\ RowsInv /\ CopiesInv /\ [Next]_vars => RowsInv' /\ CopiesInv'
  BY RowsNext, CopiesNext DEF OperationInv
<1>3. OperationInv /\ OperationInv' /\ RowsInv /\ CopiesInv /\ [Next]_vars
        => [spent.guests = 0 /\ (pc' # pc \/ journal' # journal) =>
              Durable \ Durable' \subseteq DeletedWork]_vars
  BY StepsKeepWork DEF OperationInv
<1> QED
  BY <1>1, <1>2, <1>3, OperationsHold, PTL DEF Spec, WorkKept
=============================================================================
