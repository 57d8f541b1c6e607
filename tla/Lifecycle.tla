----------------------------- MODULE Lifecycle -----------------------------
(***************************************************************************)
(* The lifecycle operations of a Workspace (rust/src/workspace/            *)
(* lifecycle.rs): create, follow a Link to a missing Note, rename, move    *)
(* and delete a Note; create, rename and delete a Directory.  Each takes   *)
(* several steps in several stores -- files, index, draft rows, HEAD and   *)
(* open sessions -- any of which may fail, between which the process may   *)
(* be killed, and around which sessions write and other tools change       *)
(* files.  One step here is one file operation, one transaction, one       *)
(* commit or one exchange of sessions.                                     *)
(*                                                                         *)
(* A concept id is a Directory and a name.  A text is a body, which stands *)
(* for what a user wrote, and at most one Link.  Opens, writes and closes  *)
(* are single steps: NoteSession takes them apart, and LifecycleGate the   *)
(* locks that keep them out of an operation.  Edits wait outside every     *)
(* operation, so unwritten work is part of the initial states: a draft row *)
(* and, once it is opened, a buffer ahead of its file.                     *)
(***************************************************************************)
EXTENDS Naturals, Sequences, FiniteSets

CONSTANTS
    Dirs, Root,       \* Directories, all children of Root; Root is one of them
    Here,             \* the Directory of a relative Link: that of its Note
    Titles,           \* names of Notes
    Bodies,           \* what users write
    None,             \* no file, row, session, Link or Directory
    FreshText,        \* the text of a Note that was just created
    GuestIds,         \* the Notes another tool may change
    GuestTexts,       \* and what it may write
    Bundles,          \* initial states: records of file, draft and dirs
    AnswersFail,      \* whether reading back a renamed Note may fail
    RescanRaces,      \* whether a write may land inside a full reindex
    \* bounds: operations, changes by other tools, failures and kills
    MaxOps, MaxGuests, MaxFaults

Ids == Dirs \X Titles
Link == [dir : Dirs \cup {Here}, title : Titles]
Text == [body : Bodies, link : Link \cup {None}]
SessionState == [buf : Text, rev : Text \cup {None}, recreate : BOOLEAN, dirty : BOOLEAN]
Unlinked == <<None, None>>          \* the row of a Note without a Link

ASSUME RootAssumption == Root \in Dirs /\ Here \notin Dirs
ASSUME NoneAssumption ==
    /\ None \notin Text
    /\ None \notin Link
    /\ None \notin Dirs
    /\ None \notin Ids
    /\ None \notin SessionState
    /\ None # Unlinked
ASSUME TextsAssumption ==
    /\ FreshText \in Text
    /\ GuestTexts \subseteq Text
    /\ GuestIds \subseteq Ids
ASSUME BundlesAssumption ==
    Bundles \subseteq [file : [Ids -> Text \cup {None}],
                       draft : [Ids -> Text \cup {None}],
                       dirs : SUBSET Dirs]
ASSUME FoldersAssumption ==
    \A b \in Bundles, i \in Ids : b.file[i] # None => i[1] \in b.dirs \cup {Root}
ASSUME BoundsAssumption ==
    {MaxOps, MaxGuests, MaxFaults} \subseteq Nat

(***************************************************************************)
(* Links.  A Link is resolved against the Directory its Note is in.        *)
(***************************************************************************)
In(d) == {i \in Ids : i[1] = d}

Resolve(l, d) == <<IF l.dir = Here THEN d ELSE l.dir, l.title>>

Target(t, d) == IF t.link = None THEN None ELSE Resolve(t.link, d)

LinkTo(i) == [dir |-> i[1], title |-> i[2]]

\* Links of the text whose targets move are spelled anew, from the root; the
\* text of a Note that changes Directory first has its relative Links so spelled.
AbsolutizeLinks(t, d) ==
    IF t.link = None THEN t ELSE [t EXCEPT !.link = LinkTo(Resolve(t.link, d))]

RewriteTargets(t, d, move) ==
    LET i == Target(t, d) IN
    IF i = None \/ move[i] = i THEN t ELSE [t EXCEPT !.link = LinkTo(move[i])]

Rewrite(t, i, move, absolutize) ==
    RewriteTargets(IF absolutize THEN AbsolutizeLinks(t, i[1]) ELSE t, i[1], move)

-----------------------------------------------------------------------------
VARIABLES
    file, dirs,       \* the bundle: Notes' files, and the folders that exist
    trash,            \* files parked in dot-prefixed entries
    index, dirRow,    \* the index: the target of each Note's Link; Directories
    draft,            \* the drafts table
    session,          \* the registry of open sessions
    head,             \* the tree of the latest commit
    pc, call,         \* where the operation in progress is, and its arguments
    plan, todo,       \* what it will write, and the ids whose step is to come
    journal,          \* the file steps it has taken
    outcome,          \* what it will answer
    \* for the properties only:
    before,           \* the stores as the operation found them
    tidy,             \* nothing but burlmd changed the bundle since its index
                      \* was built, and no clean-up has failed
    foreign,          \* Notes whose file holds bytes no session has shown
    spent             \* how much of each bound is used

stores == <<file, dirs, trash, index, dirRow, draft, session, head>>
vars == <<file, dirs, trash, index, dirRow, draft, session, head, pc, call,
          plan, todo, journal, outcome, before, tidy, foreign, spent>>

Entry(t, i) ==
    IF t = None THEN None
    ELSE IF t.link = None THEN Unlinked ELSE Target(t, i[1])

IndexOf(f) == [i \in Ids |-> Entry(f[i], i)]

Same == [i \in Ids |-> i]
NoCall == [kind |-> "none", id |-> None, dir |-> None, newDir |-> None,
           move |-> Same, ids |-> {}, retitled |-> FALSE,
           absolutize |-> FALSE, rows |-> {}, made |-> FALSE]
NoPlan == [i \in {} |-> None]
Pending == [result |-> "none", warned |-> FALSE, torn |-> FALSE]
Nothing == [i \in Ids |-> None]
NoStores == [file |-> Nothing, index |-> Nothing, draft |-> Nothing,
             session |-> Nothing, head |-> Nothing, dirs |-> {}, dirRow |-> {}]
Stores == [file |-> file, index |-> index, draft |-> draft,
           session |-> session, head |-> head, dirs |-> dirs, dirRow |-> dirRow]

Init ==
    /\ \E b \in Bundles :
         /\ file = b.file
         /\ draft = b.draft
         /\ dirs = b.dirs \cup {Root}
         /\ dirRow = b.dirs \ {Root}
         /\ index = IndexOf(b.file)
         /\ head = b.file
    /\ trash = Nothing
    /\ session = Nothing
    /\ pc = "idle"
    /\ call = NoCall
    /\ plan = NoPlan
    /\ todo = {}
    /\ journal = <<>>
    /\ outcome = Pending
    /\ before = NoStores
    /\ tidy = TRUE
    /\ foreign = {}
    /\ spent = [ops |-> 0, guests |-> 0, faults |-> 0]

Fault ==
    /\ spent.faults < MaxFaults
    /\ spent' = [spent EXCEPT !.faults = @ + 1]

Reidentifying == call.kind \in {"renameNote", "moveNote", "renameDir"}
Deleting == call.kind \in {"deleteNote", "deleteDir"}
Creating == call.kind \in {"createNote", "createTarget"}

\* Whether the operation holds the write lock of every open session.
\* create_note, create_link_target and a reindex take none; rename and move
\* check their arguments before they take them.
WritesLocked == pc \notin {"idle", "begun", "rescan"} /\ ~Creating

(***************************************************************************)
(* Sessions, other tools and the process.                                  *)
(***************************************************************************)
\* A Note is opened from its draft row if it has one.
Open(i) ==
    /\ pc = "idle"
    /\ session[i] = None
    /\ file[i] # None \/ draft[i] # None
    /\ session' = [session EXCEPT ![i] =
         [buf |-> IF draft[i] # None THEN draft[i] ELSE file[i],
          rev |-> file[i], recreate |-> file[i] = None,
          dirty |-> draft[i] # None]]
    /\ foreign' = foreign \ {i}
    /\ UNCHANGED <<file, dirs, trash, index, dirRow, draft, head, pc, call,
                   plan, todo, journal, outcome, before, tidy, spent>>

\* The file still holds what the session last saw there; a session opened over
\* no file may create one.
Unseen(i) ==
    /\ file[i] = session[i].rev
    /\ file[i] = None => session[i].recreate

\* Between the release of the write locks and the answer a write changes
\* nothing the answer reads, so it is taken before or after.
SessionsFree == ~WritesLocked /\ (pc = "rescan" => RescanRaces)

Flush(i) ==
    /\ SessionsFree
    /\ session[i] # None
    /\ session[i].dirty
    /\ Unseen(i)
    /\ file' = [file EXCEPT ![i] = session[i].buf]
    /\ dirs' = dirs \cup {i[1]}
    /\ session' = [session EXCEPT ![i].rev = session[i].buf,
                                  ![i].recreate = FALSE, ![i].dirty = FALSE]
    /\ draft' = [draft EXCEPT ![i] = None]
    /\ index' = [index EXCEPT ![i] = Entry(session[i].buf, i)]
    /\ dirRow' = (dirRow \cup {i[1]}) \ {Root}
    /\ foreign' = foreign \ {i}
    /\ UNCHANGED <<trash, head, pc, call, plan, todo, journal, outcome,
                   before, tidy, spent>>

\* Whether the session was edited, and so commits, is left open.
Close(i) ==
    /\ SessionsFree
    /\ session[i] # None
    /\ ~session[i].dirty
    /\ session' = [session EXCEPT ![i] = None]
    /\ \/ head' = head
       \/ file[i] # None /\ head' = [head EXCEPT ![i] = file[i]]
    /\ UNCHANGED <<file, dirs, trash, index, dirRow, draft, pc, call, plan,
                   todo, journal, outcome, before, tidy, foreign, spent>>

Guest ==
    /\ spent.guests < MaxGuests
    /\ spent' = [spent EXCEPT !.guests = @ + 1]
    /\ tidy' = FALSE
    /\ UNCHANGED <<trash, index, dirRow, draft, session, head, pc, call, plan,
                   todo, journal, outcome, before>>

GuestWrites(i, t) ==
    /\ Guest
    /\ i[1] \in dirs
    /\ file[i] # t
    /\ file' = [file EXCEPT ![i] = t]
    /\ foreign' = IF t = None THEN foreign \ {i} ELSE foreign \cup {i}
    /\ UNCHANGED dirs

GuestRemoves(d) ==
    /\ Guest
    /\ d \in dirs \ {Root}
    /\ dirs' = dirs \ {d}
    /\ file' = [i \in Ids |-> IF i \in In(d) THEN None ELSE file[i]]
    /\ foreign' = foreign \ In(d)

\* The next start sweeps parked files and builds the index from the bundle.
Crash ==
    /\ Fault
    /\ session' = Nothing
    /\ trash' = Nothing
    /\ index' = IndexOf(file)
    /\ dirRow' = dirs \ {Root}
    /\ pc' = "idle"
    /\ call' = NoCall
    /\ plan' = NoPlan
    /\ todo' = {}
    /\ journal' = <<>>
    /\ outcome' = Pending
    /\ before' = NoStores
    /\ tidy' = TRUE
    /\ UNCHANGED <<file, dirs, draft, head, foreign>>

\* reindex_workspace reads the bundle with nothing but the lifecycle lock held,
\* and then replaces every row.
Rescan ==
    /\ pc = "idle"
    /\ pc' = "rescan"
    /\ before' = Stores
    /\ tidy' = (trash = Nothing)
    /\ UNCHANGED <<stores, call, plan, todo, journal, outcome, foreign, spent>>

Reindex ==
    /\ pc = "rescan"
    /\ pc' = "idle"
    /\ before' = NoStores
    /\ index' = IndexOf(before.file)
    /\ dirRow' = before.dirs \ {Root}
    /\ UNCHANGED <<file, dirs, trash, draft, session, head, call, plan, todo,
                   journal, outcome, tidy, foreign, spent>>

(***************************************************************************)
(* The checks an operation makes before it changes anything.               *)
(***************************************************************************)
\* ensure_path_available: no file, row, draft or session but the Note's own.
Available(j, held) ==
    j = held \/ (file[j] = None /\ index[j] = None /\ draft[j] = None /\ session[j] = None)

\* ensure_directory_exists also makes a folder that only the index knows.
DirectoryKnown(d) == d \in dirs \cup dirRow

Contained(d) == {i \in In(d) : index[i] # None}
Orphans(d) == {i \in In(d) : draft[i] # None} \ Contained(d)

DestinationsFree(move) ==
    \A i \in {k \in Ids : move[k] # k} :
        /\ draft[move[i]] = None
        /\ session[move[i]] # None => move[move[i]] # move[i]

Begin(newCall, at) ==
    /\ pc = "idle"
    /\ spent.ops < MaxOps
    /\ spent' = [spent EXCEPT !.ops = @ + 1]
    /\ call' = newCall
    /\ pc' = at
    /\ UNCHANGED <<file, trash, index, dirRow, draft, session, head, plan,
                   todo, journal, outcome, tidy, foreign>>

MoveOne(i, j) == [Same EXCEPT ![i] = j]

\* Whether the frontmatter title changes bytes is left open.
RenameNote(i, title) ==
    LET j == <<i[1], title>> IN
    /\ file[i] # None
    /\ Available(j, i)
    /\ \E retitled \in BOOLEAN :
         Begin([NoCall EXCEPT !.kind = "renameNote", !.id = i,
                              !.move = MoveOne(i, j), !.retitled = retitled], "begun")
    /\ UNCHANGED <<dirs, before>>

MoveNote(i, d) ==
    LET j == <<d, i[2]>> IN
    /\ file[i] # None
    /\ DirectoryKnown(d)
    /\ Available(j, i)
    /\ dirs' = dirs \cup {d}
    /\ Begin([NoCall EXCEPT !.kind = "moveNote", !.id = i, !.move = MoveOne(i, j),
                            !.absolutize = i[1] # d], "begun")
    /\ UNCHANGED before

MoveAll(d, e, ids) == [i \in Ids |-> IF i \in ids THEN <<e, i[2]>> ELSE i]

RenameDirectory(d, e) ==
    LET move == MoveAll(d, e, Contained(d) \cup Orphans(d)) IN
    /\ Root \notin {d, e}
    /\ d \in dirs
    /\ e \notin dirs
    /\ DestinationsFree(move)
    /\ Begin([NoCall EXCEPT !.kind = "renameDir", !.dir = d, !.newDir = e,
                            !.move = move, !.ids = Orphans(d)], "begun")
    /\ UNCHANGED <<dirs, before>>

DeleteNote(i) ==
    /\ file[i] # None \/ index[i] # None
    /\ Begin([NoCall EXCEPT !.kind = "deleteNote", !.id = i, !.ids = {i}], "park")
    /\ before' = Stores
    /\ UNCHANGED dirs

\* A draft row may be all that is left of a Note.
DeleteDraft(i) ==
    /\ pc = "idle"
    /\ spent.ops < MaxOps
    /\ spent' = [spent EXCEPT !.ops = @ + 1]
    /\ file[i] = None /\ index[i] = None /\ draft[i] # None
    /\ draft' = [draft EXCEPT ![i] = None]
    /\ session' = [session EXCEPT ![i] = None]
    /\ UNCHANGED <<file, dirs, trash, index, dirRow, head, pc, call, plan,
                   todo, journal, outcome, before, tidy, foreign>>

DeleteDirectory(d) ==
    LET ids == Contained(d) \cup Orphans(d) IN
    /\ d # Root
    /\ d \in dirs \/ ids # {}
    /\ Begin([NoCall EXCEPT !.kind = "deleteDir", !.dir = d, !.ids = ids], "park")
    /\ before' = Stores
    /\ UNCHANGED dirs

CreateNote(d, title) ==
    LET j == <<d, title>> IN
    /\ DirectoryKnown(d)
    /\ Available(j, None)
    /\ dirs' = dirs \cup {d}
    /\ Begin([NoCall EXCEPT !.kind = "createNote", !.id = j, !.ids = {j}], "publish")
    /\ UNCHANGED before

\* create_link_target makes the Directory itself, and remembers whether it and
\* its row were missing.
CreateTarget(j) ==
    /\ index[j] = None
    /\ Available(j, None)
    /\ dirs' = dirs \cup {j[1]}
    /\ Begin([NoCall EXCEPT !.kind = "createTarget", !.id = j, !.ids = {j},
                            !.rows = {j[1]} \ (dirRow \cup {Root}),
                            !.made = j[1] \notin dirs], "publish")
    /\ UNCHANGED before

CreateDirectory(d) ==
    /\ pc = "idle"
    /\ spent.ops < MaxOps
    /\ spent' = [spent EXCEPT !.ops = @ + 1]
    /\ d # Root
    /\ dirs' = dirs \cup {d}
    /\ dirRow' = dirRow \cup {d}
    /\ UNCHANGED <<file, trash, index, draft, session, head, pc, call, plan,
                   todo, journal, outcome, before, tidy, foreign>>

(***************************************************************************)
(* Renames and moves: plan, write, move, record, commit, settle, answer.   *)
(***************************************************************************)
Moved(i) == call.move[i] # i
MovedIds == {i \in Ids : Moved(i)}

Rewritten(t, i) == Rewrite(t, i, call.move, call.absolutize /\ i = call.id)

\* The bytes to write, or None if the text stays as it is.
NewText(t, i) ==
    IF t = None \/ (Rewritten(t, i) = t /\ ~(call.retitled /\ i = call.id))
    THEN None
    ELSE Rewritten(t, i)

\* Mutant: the sweep trusts the links table, and misses drafts and buffers.
CandidatesIndexed ==
    MovedIds
      \cup (IF call.retitled THEN {call.id} ELSE {})
      \cup {i \in Ids : index[i] \in MovedIds}

\* Notes that move, that the index says link to one that moves, that have a
\* draft row, or that are open.
Candidates ==
    MovedIds
      \cup (IF call.retitled THEN {call.id} ELSE {})
      \cup {i \in Ids : index[i] \in MovedIds}
      \cup {i \in Ids : draft[i] # None \/ session[i] # None}

PlanFor(i) ==
    LET new == NewText(file[i], i) IN
    [file |-> new,
     buf |-> IF session[i] = None THEN None ELSE NewText(session[i].buf, i),
     draft |-> NewText(draft[i], i),
     had |-> file[i] # None,
     rev |-> IF new # None THEN new ELSE file[i]]

Held(i) == file[i] # None \/ draft[i] # None \/ session[i] # None

Touched(i) ==
    /\ Held(i)
    /\ \/ Moved(i)
       \/ PlanFor(i).file # None
       \/ PlanFor(i).buf # None
       \/ PlanFor(i).draft # None

Refuse(torn) ==
    /\ pc' = "done"
    /\ outcome' = [outcome EXCEPT !.result = "refused", !.torn = @ \/ torn]

\* A Note that is to move and has no file refuses the operation, unless only
\* its draft row was there to begin with.
Plan ==
    /\ pc = "begun"
    /\ before' = Stores
    /\ IF \E i \in MovedIds \ call.ids : file[i] = None
       THEN Refuse(FALSE) /\ UNCHANGED <<plan, todo>>
       ELSE /\ plan' = [i \in {k \in Candidates : Touched(k)} |-> PlanFor(i)]
            /\ todo' = {i \in DOMAIN plan' : plan'[i].file # None}
            /\ pc' = "write"
            /\ UNCHANGED outcome
    /\ UNCHANGED <<stores, call, journal, tidy, foreign, spent>>

\* A Note that cannot be read, or a Link that cannot be rewritten.
PlanFails ==
    /\ pc = "begun"
    /\ Fault
    /\ before' = Stores
    /\ Refuse(FALSE)
    /\ UNCHANGED <<stores, call, plan, todo, journal, tidy, foreign>>

Wrote(i, t) == [step |-> "wrote", id |-> i, prev |-> t]
MovedFile(i) == [step |-> "moved", id |-> i, prev |-> None]
MovedDir == [step |-> "movedDir", id |-> None, prev |-> None]
Parked == [step |-> "parked", id |-> None, prev |-> None]

WriteFile(i) ==
    /\ pc = "write"
    /\ i \in todo
    /\ i[1] \in dirs
    /\ file' = [file EXCEPT ![i] = plan[i].file]
    /\ journal' = Append(journal, Wrote(i, file[i]))
    /\ todo' = todo \ {i}
    /\ foreign' = foreign \ {i}
    /\ UNCHANGED <<dirs, trash, index, dirRow, draft, session, head, pc, call,
                   plan, outcome, before, tidy, spent>>

FilesWritten ==
    /\ pc = "write"
    /\ todo = {}
    /\ pc' = "move"
    /\ todo' = IF call.kind = "renameDir" THEN {} ELSE DOMAIN plan \cap MovedIds
    /\ UNCHANGED <<stores, call, plan, journal, outcome, before, tidy, foreign, spent>>

Renamed(i) == [k \in Ids |-> IF k = call.move[i] THEN file[i]
                             ELSE IF k = i THEN None ELSE file[k]]

MoveFile(i) ==
    /\ pc = "move"
    /\ i \in todo
    /\ file[i] # None
    /\ file' = Renamed(i)
    /\ dirs' = dirs \cup {call.move[i][1]}
    /\ journal' = Append(journal, MovedFile(i))
    /\ todo' = todo \ {i}
    /\ foreign' = {IF k = i THEN call.move[i] ELSE k : k \in foreign \ {call.move[i]}}
    /\ UNCHANGED <<trash, index, dirRow, draft, session, head, pc, call,
                   plan, outcome, before, tidy, spent>>

\* One rename carries every file of the Directory, known to the index or not;
\* it lands on a folder only if that is empty.
Empty(d) == \A i \in In(d) : file[i] = None

ShiftDir(f, d, e) ==
    [i \in Ids |-> IF i[1] = e THEN f[<<d, i[2]>>] ELSE IF i[1] = d THEN None ELSE f[i]]

ShiftSet(s, d, e) == {IF i[1] = d THEN <<e, i[2]>> ELSE i : i \in s}

MoveDir ==
    /\ pc = "move"
    /\ call.kind = "renameDir"
    /\ call.dir \in dirs
    /\ Empty(call.newDir)
    /\ file' = ShiftDir(file, call.dir, call.newDir)
    /\ dirs' = (dirs \ {call.dir}) \cup {call.newDir}
    /\ journal' = Append(journal, MovedDir)
    /\ foreign' = ShiftSet(foreign, call.dir, call.newDir)
    /\ pc' = "record"
    /\ UNCHANGED <<trash, index, dirRow, draft, session, head, call, plan, todo,
                   outcome, before, tidy, spent>>

FilesMoved ==
    /\ pc = "move"
    /\ call.kind # "renameDir"
    /\ todo = {}
    /\ pc' = "record"
    /\ UNCHANGED <<stores, call, plan, todo, journal, outcome, before, tidy,
                   foreign, spent>>

\* What the step needs is gone: another tool took it away.
Impossible ==
    \/ pc = "write" /\ \E i \in todo : i[1] \notin dirs
    \/ pc = "move" /\ call.kind = "renameDir"
         /\ (call.dir \notin dirs \/ ~Empty(call.newDir))
    \/ pc = "move" /\ \E i \in todo : file[i] = None
    \/ pc = "record" /\ Reidentifying
         /\ \E i \in DOMAIN plan : plan[i].had /\ plan[i].file = None
                                   /\ file[call.move[i]] = None

\* A write, a rename, the read that derives the rows or the transaction fails.
StepFails ==
    /\ pc \in {"write", "move", "record", "park"}
    /\ ~Creating
    /\ Fault \/ (Impossible /\ UNCHANGED spent)
    /\ pc' = "undo"
    /\ UNCHANGED <<stores, call, plan, todo, journal, outcome, before, tidy, foreign>>

\* rewrite_index: inbound edges, draft rows, the rows of what moved, Directories.
Retargeted(r) == IF r \in MovedIds THEN call.move[r] ELSE r

FinalText(i) == IF plan[i].file # None THEN plan[i].file ELSE file[call.move[i]]

Arrived(k) == {i \in DOMAIN plan : call.move[i] = k}

\* Mutant: the rows of the old ids stay.
RecordedIndexKeepsOld ==
    [k \in Ids |->
       IF \E i \in Arrived(k) : plan[i].had
       THEN Entry(FinalText(CHOOSE i \in Arrived(k) : plan[i].had), k)
       ELSE Retargeted(index[k])]

RecordedIndex ==
    [k \in Ids |->
       IF \E i \in Arrived(k) : plan[i].had
       THEN Entry(FinalText(CHOOSE i \in Arrived(k) : plan[i].had), k)
       ELSE IF k \in DOMAIN plan /\ Moved(k) THEN None
       ELSE Retargeted(index[k])]

DraftAfter(i) == IF plan[i].draft # None THEN plan[i].draft ELSE draft[i]

\* Mutant: draft rows are taken for rows that go with their Note.
RecordedDraftDropped ==
    [k \in Ids |-> IF k \in DOMAIN plan /\ Moved(k) THEN None ELSE draft[k]]

RecordedDraft ==
    [k \in Ids |->
       IF \E i \in Arrived(k) : draft[i] # None
       THEN DraftAfter(CHOOSE i \in Arrived(k) : draft[i] # None)
       ELSE IF k \in DOMAIN plan /\ Moved(k) THEN None
       ELSE draft[k]]

RecordedDirs ==
    LET rekeyed == IF call.kind = "renameDir"
                   THEN (dirRow \ {call.dir}) \cup {call.newDir} ELSE dirRow
    IN (rekeyed \cup {call.move[i][1] : i \in {k \in DOMAIN plan : plan[k].had}}) \ {Root}

RecordMove ==
    /\ pc = "record"
    /\ Reidentifying
    /\ \A i \in DOMAIN plan : plan[i].had => FinalText(i) # None
    /\ index' = RecordedIndex
    /\ draft' = RecordedDraft
    /\ dirRow' = RecordedDirs
    /\ pc' = "commit"
    /\ UNCHANGED <<file, dirs, trash, session, head, call, plan, todo, journal,
                   outcome, before, tidy, foreign, spent>>

\* Mutant: the buffer becomes the new source whether there is one or not.
CarriedOutright(i) ==
    [session[i] EXCEPT !.buf = plan[i].buf, !.rev = plan[i].rev]

\* carry_session_forward for every Note of the plan.  The baseline becomes what
\* the plan read or wrote, whatever the session had seen.
Carried(i) ==
    [session[i] EXCEPT !.buf = IF plan[i].buf # None THEN plan[i].buf ELSE @,
                       !.rev = plan[i].rev]

CarriedSessions ==
    [k \in Ids |->
       IF \E i \in Arrived(k) : session[i] # None
       THEN Carried(CHOOSE i \in Arrived(k) : session[i] # None)
       ELSE IF k \in DOMAIN plan /\ Moved(k) THEN None
       ELSE session[k]]

Applied == [outcome EXCEPT !.result = "applied"]

SettleMove ==
    /\ pc = "settle"
    /\ Reidentifying
    /\ session' = CarriedSessions
    /\ journal' = <<>>
    /\ outcome' = Applied
    /\ pc' = IF call.kind = "renameDir" THEN "done" ELSE "answer"
    /\ UNCHANGED <<file, dirs, trash, index, dirRow, draft, head, call, plan,
                   todo, before, tidy, foreign, spent>>

\* settled_state: from the session, or read back from the file.
NewId == call.move[call.id]

Answer ==
    /\ pc = "answer"
    /\ session[NewId] # None \/ file[NewId] # None
    /\ pc' = "done"
    /\ UNCHANGED <<stores, call, plan, todo, journal, outcome, before, tidy,
                   foreign, spent>>

AnswerFails ==
    /\ pc = "answer"
    /\ AnswersFail \/ file[NewId] = None
    /\ session[NewId] = None
    /\ Refuse(FALSE)
    /\ UNCHANGED <<stores, call, plan, todo, journal, before, tidy, foreign, spent>>

(***************************************************************************)
(* Deletions: park, record, commit, settle.                                *)
(***************************************************************************)
\* The files that go: a Note's, or all of a Directory's.
Scope == IF call.kind = "deleteDir" THEN In(call.dir) ELSE call.ids

\* A bound: nothing is parked at a name where an earlier entry still is.
Park ==
    /\ pc = "park"
    /\ \A i \in Scope : trash[i] = None
    /\ trash' = [i \in Ids |-> IF i \in Scope THEN file[i] ELSE trash[i]]
    /\ file' = [i \in Ids |-> IF i \in Scope THEN None ELSE file[i]]
    /\ dirs' = dirs \ {call.dir}
    /\ foreign' = foreign \ Scope
    /\ journal' = IF call.dir \in dirs \/ \E i \in Scope : file[i] # None
                  THEN Append(journal, Parked) ELSE journal
    /\ pc' = "record"
    /\ UNCHANGED <<index, dirRow, draft, session, head, call, plan, todo,
                   outcome, before, tidy, spent>>

RecordDeletion ==
    /\ pc = "record"
    /\ Deleting
    /\ index' = [i \in Ids |-> IF i \in call.ids THEN None ELSE index[i]]
    /\ draft' = [i \in Ids |-> IF i \in call.ids THEN None ELSE draft[i]]
    /\ dirRow' = dirRow \ {call.dir}
    /\ pc' = "commit"
    /\ UNCHANGED <<file, dirs, trash, session, head, call, plan, todo, journal,
                   outcome, before, tidy, foreign, spent>>

\* The parked files go, and the sessions of what was deleted are retired.
SettleDeletion ==
    /\ pc = "settle"
    /\ Deleting
    /\ \/ /\ trash' = [i \in Ids |-> IF i \in Scope THEN None ELSE trash[i]]
          /\ outcome' = Applied
          /\ UNCHANGED <<tidy, spent>>
       \/ /\ Fault
          /\ outcome' = [Applied EXCEPT !.warned = TRUE]
          /\ tidy' = FALSE
          /\ UNCHANGED trash
    /\ session' = [i \in Ids |-> IF i \in call.ids THEN None ELSE session[i]]
    /\ journal' = <<>>
    /\ pc' = "done"
    /\ UNCHANGED <<file, dirs, index, dirRow, draft, head, call, plan, todo,
                   before, foreign>>

(***************************************************************************)
(* The commit of any operation.  A named path that is absent is removed    *)
(* from the tree; a failure is a warning.                                  *)
(***************************************************************************)
\* Mutant: only the paths where something is now.
StagedArrivals ==
    IF Reidentifying THEN {i \in Ids : file[i] # None}
    ELSE IF Deleting THEN Scope ELSE {call.id}

Staged ==
    IF Reidentifying
    THEN LET noted == {i \in DOMAIN plan : plan[i].had}
         IN noted \cup {call.move[i] : i \in noted}
              \cup (IF call.kind = "renameDir"
                    THEN In(call.dir) \cup {i \in In(call.newDir) : file[i] # None}
                    ELSE {})
    ELSE IF Deleting THEN Scope ELSE {call.id}

Committed(ids) == [i \in Ids |-> IF i \in ids THEN file[i] ELSE head[i]]

Commit ==
    /\ pc = "commit"
    /\ pc' = IF Creating THEN "done" ELSE "settle"
    /\ \/ /\ head' = Committed(Staged)
          /\ outcome' = IF Creating THEN Applied ELSE outcome
          /\ UNCHANGED spent
       \/ /\ Fault
          /\ outcome' = [(IF Creating THEN Applied ELSE outcome) EXCEPT !.warned = TRUE]
          /\ UNCHANGED head
    /\ UNCHANGED <<file, dirs, trash, index, dirRow, draft, session, call, plan,
                   todo, journal, before, tidy, foreign>>

(***************************************************************************)
(* The journal unwound, newest step first; a step that cannot be undone is *)
(* passed over and reported.                                               *)
(***************************************************************************)
Last == journal[Len(journal)]

\* Mutant: only the renames are undone.
UndoFileRenames ==
    CASE Last.step = "wrote" -> file
      [] Last.step = "moved" -> [k \in Ids |-> IF k = Last.id THEN file[call.move[k]]
                                               ELSE IF k = call.move[Last.id] THEN None
                                               ELSE file[k]]
      [] Last.step = "movedDir" -> ShiftDir(file, call.newDir, call.dir)
      [] Last.step = "parked" -> [i \in Ids |-> IF i \in Scope THEN trash[i] ELSE file[i]]

UndoFile ==
    CASE Last.step = "wrote" -> [file EXCEPT ![Last.id] = Last.prev]
      [] Last.step = "moved" -> [k \in Ids |-> IF k = Last.id THEN file[call.move[k]]
                                               ELSE IF k = call.move[Last.id] THEN None
                                               ELSE file[k]]
      [] Last.step = "movedDir" -> ShiftDir(file, call.newDir, call.dir)
      [] Last.step = "parked" -> [i \in Ids |-> IF i \in Scope THEN trash[i] ELSE file[i]]

UndoDirs ==
    CASE Last.step = "movedDir" -> (dirs \ {call.newDir}) \cup {call.dir}
      [] Last.step = "parked" -> IF call.dir \in before.dirs THEN dirs \cup {call.dir} ELSE dirs
      [] OTHER -> dirs

UndoForeign ==
    CASE Last.step = "moved" ->
             {IF k = call.move[Last.id] THEN Last.id ELSE k : k \in foreign}
      [] Last.step = "movedDir" -> ShiftSet(foreign, call.newDir, call.dir)
      [] OTHER -> foreign

Undoable ==
    CASE Last.step = "wrote" -> IF Last.prev = None THEN file[Last.id] # None
                                ELSE Last.id[1] \in dirs
      [] Last.step = "moved" -> file[call.move[Last.id]] # None /\ Last.id[1] \in dirs
      [] Last.step = "movedDir" -> call.newDir \in dirs /\ Empty(call.dir)
      [] Last.step = "parked" -> call.id # None => call.id[1] \in dirs

Undo ==
    /\ pc = "undo"
    /\ journal # <<>>
    /\ Undoable
    /\ foreign' = UndoForeign
    /\ file' = UndoFile
    /\ dirs' = UndoDirs
    /\ trash' = IF Last.step = "parked"
                THEN [i \in Ids |-> IF i \in Scope THEN None ELSE trash[i]] ELSE trash
    /\ journal' = SubSeq(journal, 1, Len(journal) - 1)
    /\ UNCHANGED <<index, dirRow, draft, session, head, pc, call, plan, todo,
                   outcome, before, tidy, spent>>

UndoFails ==
    /\ pc = "undo"
    /\ journal # <<>>
    /\ Fault \/ (~Undoable /\ UNCHANGED spent)
    /\ journal' = SubSeq(journal, 1, Len(journal) - 1)
    /\ outcome' = [outcome EXCEPT !.torn = TRUE]
    /\ tidy' = FALSE
    /\ UNCHANGED <<stores, pc, call, plan, todo, before, foreign>>

Undone ==
    /\ pc = "undo"
    /\ journal = <<>>
    /\ Refuse(FALSE)
    /\ UNCHANGED <<stores, call, plan, todo, journal, before, tidy, foreign, spent>>

(***************************************************************************)
(* Creations: publish, record, open, commit; before the commit a failure   *)
(* is rolled back.                                                         *)
(***************************************************************************)
\* The folder this call made goes unless something else is in it by now.
Cleaned(f) ==
    IF call.made /\ \A i \in In(call.id[1]) : f[i] = None
    THEN dirs \ {call.id[1]} ELSE dirs

Publish ==
    /\ pc = "publish"
    /\ file[call.id] = None
    /\ call.id[1] \in dirs
    /\ file' = [file EXCEPT ![call.id] = FreshText]
    /\ pc' = "record"
    /\ UNCHANGED <<dirs, trash, index, dirRow, draft, session, head, call, plan,
                   todo, journal, outcome, before, tidy, foreign, spent>>

\* The file appeared meanwhile, its folder is gone, or it cannot be written.
PublishFails ==
    /\ pc = "publish"
    /\ \/ file[call.id] # None /\ UNCHANGED spent
       \/ call.id[1] \notin dirs /\ UNCHANGED spent
       \/ Fault
    /\ dirs' = Cleaned(file)
    /\ Refuse(FALSE)
    /\ UNCHANGED <<file, trash, index, dirRow, draft, session, head, call, plan,
                   todo, journal, before, tidy, foreign>>

RecordCreation ==
    /\ pc = "record"
    /\ Creating
    /\ index' = [index EXCEPT ![call.id] = Entry(FreshText, call.id)]
    /\ dirRow' = (dirRow \cup {call.id[1]}) \ {Root}
    /\ pc' = "open"
    /\ UNCHANGED <<file, dirs, trash, draft, session, head, call, plan, todo,
                   journal, outcome, before, tidy, foreign, spent>>

RecordCreationFails ==
    /\ pc = "record"
    /\ Creating
    /\ Fault
    /\ pc' = "takeback"
    /\ UNCHANGED <<stores, call, plan, todo, journal, outcome, before, tidy, foreign>>

OpenCreated ==
    /\ pc = "open"
    /\ file[call.id] # None
    /\ session' = [session EXCEPT ![call.id] =
         [buf |-> file[call.id], rev |-> file[call.id], recreate |-> FALSE, dirty |-> FALSE]]
    /\ foreign' = foreign \ {call.id}
    /\ pc' = "commit"
    /\ UNCHANGED <<file, dirs, trash, index, dirRow, draft, head, call, plan,
                   todo, journal, outcome, before, tidy, spent>>

OpenCreatedFails ==
    /\ pc = "open"
    /\ \/ file[call.id] = None /\ UNCHANGED spent
       \/ Fault
    /\ pc' = "takeback"
    /\ UNCHANGED <<stores, call, plan, todo, journal, outcome, before, tidy, foreign>>

\* rollback_created_note and rollback_link_target_creation: the row, a draft
\* row and the Directory rows this call found missing go in one transaction,
\* and then the file and the folder.
TakeBack ==
    /\ pc = "takeback"
    /\ index' = [index EXCEPT ![call.id] = None]
    /\ draft' = [draft EXCEPT ![call.id] = None]
    /\ dirRow' = dirRow \ call.rows
    /\ file' = [file EXCEPT ![call.id] = None]
    /\ dirs' = Cleaned(file')
    /\ foreign' = foreign \ {call.id}
    /\ Refuse(FALSE)
    /\ UNCHANGED <<trash, session, head, call, plan, todo, journal, before,
                   tidy, spent>>

\* The transaction fails, or the removal of the file after it.  A Note whose
\* own transaction failed is removed without a word if that fails.
TakeBackFails ==
    /\ pc = "takeback"
    /\ Fault
    /\ \/ UNCHANGED <<index, draft, dirRow>>
       \/ /\ index' = [index EXCEPT ![call.id] = None]
          /\ draft' = [draft EXCEPT ![call.id] = None]
          /\ dirRow' = dirRow \ call.rows
    /\ Refuse(call.kind = "createTarget" \/ index[call.id] # None)
    /\ tidy' = FALSE
    /\ UNCHANGED <<file, dirs, trash, session, head, call, plan, todo, journal,
                   before, foreign>>

\* The answer is given and the lifecycle lock released.
Return ==
    /\ pc = "done"
    /\ pc' = "idle"
    /\ call' = NoCall
    /\ plan' = NoPlan
    /\ todo' = {}
    /\ journal' = <<>>
    /\ outcome' = Pending
    /\ before' = NoStores
    /\ UNCHANGED <<stores, tidy, foreign, spent>>

-----------------------------------------------------------------------------
Starts ==
    \/ \E i \in Ids : \/ \E title \in Titles : RenameNote(i, title)
                      \/ \E d \in Dirs : MoveNote(i, d)
                      \/ DeleteNote(i)
                      \/ DeleteDraft(i)
                      \/ CreateTarget(i)
    \/ \E d \in Dirs : \/ \E e \in Dirs : RenameDirectory(d, e)
                       \/ DeleteDirectory(d)
                       \/ \E title \in Titles : CreateNote(d, title)
                       \/ CreateDirectory(d)

Reidentifies ==
    \/ Plan \/ PlanFails \/ FilesWritten \/ MoveDir \/ FilesMoved \/ RecordMove
    \/ SettleMove \/ Answer \/ AnswerFails
    \/ \E i \in Ids : WriteFile(i) \/ MoveFile(i)

Deletes == Park \/ RecordDeletion \/ SettleDeletion

Creates ==
    \/ Publish \/ PublishFails \/ RecordCreation \/ RecordCreationFails
    \/ OpenCreated \/ OpenCreatedFails \/ TakeBack \/ TakeBackFails

Unwinds == StepFails \/ Undo \/ UndoFails \/ Undone

Sessions ==
    \E i \in Ids : Open(i) \/ Flush(i) \/ Close(i)

Guests ==
    \/ \E i \in GuestIds : \E t \in GuestTexts \cup {None} : GuestWrites(i, t)
    \/ \E d \in Dirs : GuestRemoves(d)

Operates == Starts \/ Reidentifies \/ Deletes \/ Creates \/ Unwinds \/ Commit \/ Return

Next == Operates \/ Sessions \/ Guests \/ Crash \/ Rescan \/ Reindex

Spec == Init /\ [][Next]_vars

-----------------------------------------------------------------------------
Maybe(S) == [Ids -> S \cup {None}]

\* Types of the stores and of the operation in progress.
TypeOK ==
    /\ file \in Maybe(Text)
    /\ trash \in Maybe(Text)
    /\ draft \in Maybe(Text)
    /\ head \in Maybe(Text)
    /\ index \in Maybe(Ids \cup {Unlinked})
    /\ session \in Maybe(SessionState)
    /\ dirs \subseteq Dirs
    /\ dirRow \subseteq Dirs
    /\ foreign \subseteq Ids
    /\ todo \subseteq Ids
    /\ call.move \in [Ids -> Ids]
    /\ outcome.result \in {"none", "applied", "refused"}

Unchanged(i) ==
    /\ file[i] = before.file[i]
    /\ index[i] = before.index[i]
    /\ draft[i] = before.draft[i]
    /\ session[i] = before.session[i]
    /\ head[i] = before.head[i]

\* An operation that answers with an error has changed nothing: no file, row,
\* draft, session or commit (lifecycle.rs header: "either completes or changes
\* nothing"), unless it said that undoing it failed.
AllOrNothing ==
    pc = "done" /\ outcome.result = "refused" /\ ~outcome.torn /\ tidy =>
        IF Creating
        THEN /\ file[call.id] = None /\ index[call.id] = None
             /\ draft[call.id] = None /\ session[call.id] = None
        ELSE /\ \A i \in Ids : Unchanged(i)
             /\ dirs = before.dirs /\ dirRow = before.dirRow
             /\ trash = Nothing

\* u at k says what t said at i, its Link naming the Note it named under its
\* new id.  A relative Link to no Note stays with its Directory.
Follows(t, i, u, k) ==
    IF t = None THEN u = None \/ \E m \in MovedIds : call.move[m] = i
    ELSE /\ u # None
         /\ u.body = t.body
         /\ LET was == Target(t, i[1])
                is == Target(u, k[1])
            IN IF was = None THEN is = None
               ELSE \/ is = call.move[was]
                    \/ call.kind = "renameDir" /\ t.link.dir = Here /\ t = u
                         /\ before.file[was] = None /\ before.draft[was] = None

Buffer(s) == IF s = None THEN None ELSE s.buf

\* A rename or move that completes has carried every file, draft row and open
\* buffer to its new id, and every Link in them names the Note it named; no
\* other Note's work was in the way (risk 8 of architecture/risks.md).
LinksFollow ==
    pc \in {"answer", "done"} /\ Reidentifying /\ outcome.result = "applied" /\ tidy =>
        \A i \in Ids :
            LET k == call.move[i] IN
            /\ Follows(before.file[i], i, file[k], k)
            /\ Follows(before.draft[i], i, draft[k], k)
            /\ Follows(Buffer(before.session[i]), i, Buffer(session[k]), k)
            /\ Moved(i) => file[i] = None /\ draft[i] = None /\ session[i] = None

\* Whenever no operation runs, the index describes the files, it lists no folder
\* that is gone, and no deleted text is left parked -- through failures,
\* rollbacks, kills and concurrent writes.
Settled ==
    pc = "idle" /\ tidy =>
        /\ index = IndexOf(file)
        /\ dirRow \subseteq dirs
        /\ trash = Nothing

\* Whenever no operation runs, every folder has its row: the tree is rendered
\* from the rows alone (index/incremental.rs:136, "an ancestor missing there is
\* a Note the sidebar cannot reach without a full rebuild").
SidebarReaches ==
    pc = "idle" /\ tidy => dirs \ {Root} \subseteq dirRow

\* An operation that completes without a warning has committed every file it
\* changed, so nothing it did waits for a commit of something else.
ChangesCommitted ==
    pc = "done" /\ outcome.result = "applied" /\ ~outcome.warned /\ tidy =>
        IF Creating THEN head[call.id] = file[call.id]
        ELSE \A i \in Ids : file[i] # before.file[i] => head[i] = file[i]

Work(f) == {f[i].body : i \in {k \in Ids : f[k] # None}}
                \ ({FreshText.body} \cup {t.body : t \in GuestTexts})
Durable == Work(file) \cup Work(draft)
DeletedWork == Work([i \in Ids |-> IF Deleting /\ i \in Scope \cup call.ids
                                   THEN file[i] ELSE None])
                 \cup Work([i \in Ids |-> IF Deleting /\ i \in call.ids
                                          THEN draft[i] ELSE None])

\* No step of an operation, no rollback and no kill takes the last copy of what
\* a user wrote out of the files and the draft rows, but for what a deletion
\* was asked to delete.  (Of files another tool takes away nothing is said.)
WorkKept ==
    [][spent.guests = 0 /\ (pc' # pc \/ journal' # journal) =>
          Durable \ Durable' \subseteq DeletedWork]_vars

\* A session does not write over bytes of another tool that no session has
\* shown (persist.rs:2449, "The file is left exactly as it is").
ShownBeforeOverwritten ==
    [][\A i \in Ids : Flush(i) => i \notin foreign]_vars
=============================================================================
