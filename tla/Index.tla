------------------------------- MODULE Index -------------------------------
(***************************************************************************)
(* The index of one Workspace and the files it indexes: the rows of        *)
(* `index/`, the full scan, the incremental write after an idle write, and *)
(* what each lifecycle operation does to the bundle and to the rows.       *)
(*                                                                         *)
(* Lifecycle.tla takes one operation apart, step by step, with its faults, *)
(* sessions and drafts, over a flat bundle.  Here an operation that        *)
(* succeeds is one step and the bundle is a tree: the subject is what      *)
(* paths, Directories, rows and the text of Links become.  An operation    *)
(* that is refused, or rolls back, leaves everything as it was and is no   *)
(* step, save that a known Directory a refused move or create brought back  *)
(* stays.  What interleaves is what the lifecycle lock does not exclude:   *)
(* the phases of an idle write, the reads of a scan, and other programs.   *)
(***************************************************************************)
EXTENDS Links

CONSTANTS
    Here, There,    \* this Workspace, and another one in the same database
    Dotted,         \* the names that begin with a dot
    Reserved,       \* index and log: the names OKF reserves
    Linked,         \* names at the root that are symbolic links out of it
    Blocked,        \* names at the root that are files with no extension
    Bodies,         \* the bodies an editor or another program writes
    StartFiles,     \* the bundle at the start: [id -> text]
    StartFolders,   \* the Directories there are at the start
    Folders,        \* the Directories operations name
    Noted,          \* the concept ids operations and other programs name
    Titles,         \* the names operations give
    RescanRaces,    \* whether an idle write may land inside a scan
    MaxOps, MaxWrites, MaxGuests

Paths == Seq(Names)
Text(block, title, body) == [front |-> [block |-> block, title |-> title], body |-> body]

ASSUME BundleStarts ==
    /\ Here # There
    /\ Dotted \cup Reserved \cup Linked \cup Blocked \subseteq Names
    /\ RescanRaces \in BOOLEAN
    /\ {MaxOps, MaxWrites, MaxGuests} \subseteq Nat

(* A Note has a name, there are finitely many, and a file is in a folder.  *)
ASSUME BundleIsATree ==
    /\ IsFiniteSet(DOMAIN StartFiles)
    /\ DOMAIN StartFiles \cup Noted \subseteq Paths \ {<<>>}
    /\ StartFolders \subseteq Paths \ {<<>>} /\ Folders \subseteq Paths /\ Titles \subseteq Names
    /\ \A id \in DOMAIN StartFiles : Prefixes(Front(id)) \subseteq {<<>>} \cup StartFolders
    /\ \A d \in StartFolders : Prefixes(d) \subseteq {<<>>} \cup StartFolders

VARIABLES
    files,      \* [concept id -> text]: the .md files
    folders,    \* the Directories on disk, the root left out
    db,         \* the index's tables
    writer,     \* an idle write: [pc, id, text]
    scan,       \* a full scan: [pc, todo, found, dirs, clean]
    tidy,       \* nothing but this program has changed the bundle since a scan
    did,        \* the re-identification the last step made, if it made one
    spent       \* the steps taken: [ops, writes, guests]

vars == <<files, folders, db, writer, scan, tidy, did, spent>>

-----------------------------------------------------------------------------
(* Paths.                                                                  *)

ContainingDir(id) == Front(id)
Under(dir, p) == IsStrictPrefix(dir, p)
Ancestors(dir) == Prefixes(dir) \ {<<>>}            \* dir itself included
Moved(p, old, new) == new \o SubSeq(p, Len(old) + 1, Len(p))

ValidSegment(name) == name \in Names \ Dotted
ValidTitle(name) == ValidSegment(name) /\ name \notin Reserved
NormalDirectory(dir) == \A i \in DOMAIN dir : ValidSegment(dir[i])
Contained(p) == \A i \in DOMAIN p : i = 1 => p[i] \notin Linked

-----------------------------------------------------------------------------
(* The rows.  `notes`, `fts` (full text by row number), `mapping` (from a  *)
(* Note to its row of `fts`), `links` and `directories`.  Deleting a Note  *)
(* takes its mapping and its outbound links along, by foreign key; nothing *)
(* but a statement of its own takes the full text.                         *)

Without(f, gone) == [k \in DOMAIN f \ gone |-> f[k]]
Updated(f, new) == [k \in DOMAIN f \cup DOMAIN new |-> IF k \in DOMAIN new THEN new[k] ELSE f[k]]
RowNumbers(t, keys) == {t.mapping[k] : k \in DOMAIN t.mapping \cap keys}
KeysOf(t, ws) == {k \in DOMAIN t.notes : k[1] = ws}

Title(id, text) == IF text.front.title \in Names THEN text.front.title ELSE Last(id)

(* An image, and a Link with no text of its own, leave no edge. *)
Edges(id, text) ==
    {Classify(e.dest, ContainingDir(id)) : e \in {l \in LinksOf(text.body) : ~l.image /\ l.inner = None}}
    \ {None}

DeriveNote(id, text) ==
    [id |-> id, edges |-> Edges(id, text),
     row |-> [hash |-> text, title |-> Title(id, text), conforms |-> text.front.block = "typed"]]

PurgeText(t, keys) == [t EXCEPT !.fts = Without(@, RowNumbers(t, keys))]

DeleteNotes(t, keys) ==
    [t EXCEPT !.notes = Without(@, keys), !.mapping = Without(@, keys),
              !.links = {l \in @ : <<l.ws, l.source>> \notin keys}]

(* A loop over Notes or Directories is one step over the set of them: the  *)
(* rows of one are none of another's.                                      *)
NoteKeys(ws, ids) == {ws} \X ids
IdsOf(notes) == {notes[i].id : i \in DOMAIN notes}

(* Mutation: the rows of the Notes go first, and their mapping with them. *)
RemoveNoteRowsFirst(t, ws, ids) == PurgeText(DeleteNotes(t, NoteKeys(ws, ids)), NoteKeys(ws, ids))

RemoveNoteRows(t, ws, ids) == DeleteNotes(PurgeText(t, NoteKeys(ws, ids)), NoteKeys(ws, ids))

(* Mutation: no row for the Directories above. *)
RecordDirectoriesAlone(t, ws, dirs) ==
    [t EXCEPT !.dirs = @ \cup {<<ws, d>> : d \in dirs \ {<<>>}}]

RecordDirectories(t, ws, dirs) ==
    [t EXCEPT !.dirs = @ \cup {<<ws, a>> : a \in UNION {Ancestors(d) : d \in dirs}}]

(* The rows of `fts` are numbered on from the last one. *)
InsertNoteRows(t, ws, notes) ==
    LET last == Max({0} \cup DOMAIN t.fts)
        at == [k \in NoteKeys(ws, IdsOf(notes)) |-> CHOOSE i \in DOMAIN notes : notes[i].id = k[2]]
        edges(i) == {[ws |-> ws, source |-> notes[i].id, target |-> e] : e \in notes[i].edges}
    IN  [t EXCEPT !.notes = Updated(@, [k \in DOMAIN at |-> notes[at[k]].row]),
                  !.fts = Updated(@, [n \in {last + i : i \in DOMAIN notes} |-> notes[n - last].row]),
                  !.mapping = Updated(@, [k \in DOMAIN at |-> last + at[k]]),
                  !.links = @ \cup UNION {edges(i) : i \in DOMAIN notes}]

WriteNoteRows(t, ws, notes) ==
    InsertNoteRows(RecordDirectories(RemoveNoteRows(t, ws, IdsOf(notes)), ws,
                                     {ContainingDir(id) : id \in IdsOf(notes)}), ws, notes)

PurgeWorkspaceText(t, ws) == PurgeText(t, KeysOf(t, ws))

WriteScannedBundle(t, ws, dirs, notes) ==
    LET purged == DeleteNotes(PurgeWorkspaceText(t, ws), KeysOf(t, ws))
        placed == [purged EXCEPT !.dirs = {d \in @ : d[1] # ws} \cup {<<ws, d>> : d \in dirs}]
    IN  InsertNoteRows(placed, ws, notes)

NoteExists(t, ws, id) == <<ws, id>> \in DOMAIN t.notes
StoredContentHash(t, ws, id) == IF NoteExists(t, ws, id) THEN t.notes[<<ws, id>>].hash ELSE None
LinkSources(t, ws, id) == {l.source : l \in {k \in t.links : k.ws = ws /\ k.target = id}}
IdsWithPrefix(t, ws, dir) == {k[2] : k \in {n \in KeysOf(t, ws) : Under(dir, n[2])}}

-----------------------------------------------------------------------------
(* Reading the bundle.  The walk passes over dotted names and links, and   *)
(* takes no Note from a reserved name.                                     *)

Walkable(p) == /\ \A i \in DOMAIN p : p[i] \notin Dotted
               /\ Contained(p)

WalkDirectories(dirs) == {d \in dirs : Walkable(d)}
WalkNotes(held) == {id \in DOMAIN held : Walkable(id) /\ Last(id) \notin Reserved}

(* The order of the ids is fixed and immaterial. *)
SortedIds(ids) == SetToSeq(ids)

ScanBundle(held, dirs) ==
    [dirs |-> WalkDirectories(dirs),
     notes |-> LET ids == SortedIds(WalkNotes(held))
               IN  [i \in DOMAIN ids |-> DeriveNote(ids[i], held[ids[i]])]]

-----------------------------------------------------------------------------
(* What the lifecycle operations check.                                    *)

DirectoryKnown(dir) == dir = <<>> \/ dir \in folders \/ <<Here, dir>> \in db.dirs
EnsureDirectoryExists(dir) == NormalDirectory(dir) /\ Contained(dir) /\ DirectoryKnown(dir)

PlainFileAt(dir) == Len(dir) = 1 /\ dir[1] \in Blocked
CanMaterialize(dir) == Contained(dir) /\ \A a \in Ancestors(dir) : ~PlainFileAt(a)

(* `held` is the Note that gives up its own name, if there is one. *)
EnsurePathAvailable(id, held) ==
    /\ Contained(id)
    /\ id \in DOMAIN files \/ NoteExists(db, Here, id) => id \in held

ConformantNote(title) == Text("typed", title, <<>>)

Quiet == [kind |-> "none"]

(* An operation runs under the lifecycle lock, which a scan holds; one     *)
(* that moves or removes Notes also takes every session's write lock.      *)
Serialized == scan.pc = "idle" /\ spent.ops < MaxOps
WritersOut == writer.pc = "idle"

Operated == /\ spent' = [spent EXCEPT !.ops = @ + 1]
            /\ UNCHANGED <<writer, scan, tidy>>

-----------------------------------------------------------------------------
(* Lifecycle operations.                                                   *)

(* A new Note with its file, its rows and its Directories. *)
Publish(id) ==
    /\ files' = Updated(files, [p \in {id} |-> ConformantNote(Last(id))])
    /\ folders' = folders \cup Ancestors(ContainingDir(id))
    /\ db' = WriteNoteRows(db, Here, <<DeriveNote(id, ConformantNote(Last(id)))>>)
    /\ did' = Quiet

CreateNote(dir, title) ==
    /\ Serialized
    /\ ValidTitle(title)
    /\ EnsureDirectoryExists(dir)
    /\ CanMaterialize(dir)
    /\ EnsurePathAvailable(Append(dir, title), {})
    /\ Publish(Append(dir, title))
    /\ Operated

(* The id of a ghost Link is the Note it creates, Directories included. *)
LinkTargetIdentity(id) == ValidTitle(Last(id)) /\ NormalDirectory(ContainingDir(id))

CreateLinkTarget(id) ==
    /\ Serialized
    /\ LinkTargetIdentity(id)
    /\ ~NoteExists(db, Here, id)
    /\ CanMaterialize(ContainingDir(id))
    /\ EnsurePathAvailable(id, {})
    /\ Publish(id)
    /\ Operated

CreateDirectory(dir) ==
    /\ Serialized
    /\ dir # <<>> /\ NormalDirectory(dir)
    /\ CanMaterialize(dir)
    /\ folders' = folders \cup Ancestors(dir)
    /\ db' = RecordDirectories(db, Here, {dir})
    /\ did' = Quiet
    /\ Operated
    /\ UNCHANGED files

DeleteNote(id) ==
    /\ Serialized /\ WritersOut
    /\ Contained(id)
    /\ id \in DOMAIN files \/ NoteExists(db, Here, id)
    /\ files' = Without(files, {id})
    /\ db' = RemoveNoteRows(db, Here, {id})
    /\ did' = Quiet
    /\ Operated
    /\ UNCHANGED folders

DeleteDirectory(dir) ==
    LET rows == IdsWithPrefix(db, Here, dir) IN
    /\ Serialized /\ WritersOut
    /\ dir # <<>> /\ NormalDirectory(dir) /\ Contained(dir) /\ ~PlainFileAt(dir)
    /\ dir \in folders \/ rows # {}
    /\ files' = Without(files, {id \in DOMAIN files : Under(dir, id)})
    /\ folders' = {f \in folders : ~IsPrefix(dir, f)}
    /\ db' = [RemoveNoteRows(db, Here, rows) EXCEPT
                !.dirs = {d \in @ : d[1] # Here \/ ~IsPrefix(dir, d[2])}]
    /\ did' = Quiet
    /\ Operated

-----------------------------------------------------------------------------
(* Renames and moves.  A plan says which ids change, which Note is         *)
(* retitled or has its relative destinations made absolute, and which      *)
(* Directory moves as a whole.                                             *)

NoteOnly == [old |-> None, new |-> None]

Plan(remap, retitled, title, absolutize, directory) ==
    [remap |-> remap, retitled |-> retitled, title |-> title,
     absolutize |-> absolutize, directory |-> directory]

Lands(plan, p) ==
    IF p \in DOMAIN plan.remap THEN plan.remap[p]
    ELSE IF plan.directory # NoteOnly /\ Under(plan.directory.old, p)
    THEN Moved(p, plan.directory.old, plan.directory.new) ELSE p

Targets(plan) == DOMAIN plan.remap \cup ({plan.retitled} \ {None})

Candidates(plan) ==
    Targets(plan) \cup UNION {LinkSources(db, Here, old) : old \in DOMAIN plan.remap}

(* What becomes of a candidate's text, and whether it changes. *)
Rewritten(plan, id) ==
    RewriteNoteText(files[id], ContainingDir(id), plan.remap,
                    IF plan.retitled = id THEN plan.title ELSE None, id \in plan.absolutize)

(* The candidates whose text changes or whose id does, each with the text  *)
(* it has in the end.                                                      *)
FinalTexts(plan, rewritten) ==
    [id \in {c \in DOMAIN rewritten : rewritten[c].changed \/ c \in DOMAIN plan.remap} |-> rewritten[id].text]

Retarget(t, ws, remap) ==
    [t EXCEPT !.links = {IF l.ws = ws /\ l.target \in DOMAIN remap
                         THEN [l EXCEPT !.target = remap[@]] ELSE l : l \in @}]

RekeyDirectories(t, ws, old, new) ==
    RecordDirectories([t EXCEPT !.dirs = {IF d[1] = ws /\ IsPrefix(old, d[2])
                                          THEN <<ws, Moved(d[2], old, new)>> ELSE d : d \in @}], ws, {new})

RewriteIndex(t, plan, final) ==
    LET affected == SetToSeq(DOMAIN final)
        indexed == [i \in DOMAIN affected |-> DeriveNote(Lands(plan, affected[i]), final[affected[i]])]
        left == RemoveNoteRows(Retarget(t, Here, plan.remap), Here,
                               {id \in DOMAIN final : Lands(plan, id) # id})
        rows == WriteNoteRows(left, Here, indexed)
    IN  IF plan.directory = NoteOnly THEN rows
        ELSE RekeyDirectories(rows, Here, plan.directory.old, plan.directory.new)

Install(plan, final) ==
    /\ files' = [q \in {Lands(plan, p) : p \in DOMAIN files} |->
                   LET p == CHOOSE o \in DOMAIN files : Lands(plan, o) = q
                   IN  IF p \in DOMAIN final THEN final[p] ELSE files[p]]
    /\ db' = RewriteIndex(db, plan, final)
    /\ did' = [kind |-> IF plan.directory = NoteOnly THEN "note" ELSE "directory",
               lands |-> [p \in DOMAIN files |-> Lands(plan, p)], directory |-> plan.directory]

Carry(plan, rewritten) ==
    /\ \A id \in DOMAIN rewritten : rewritten[id] # Refused
    /\ Install(plan, FinalTexts(plan, rewritten))

ApplyReidentify(plan) ==
    /\ Serialized /\ WritersOut
    /\ DOMAIN plan.remap \subseteq DOMAIN files
    /\ Carry(plan, [id \in Candidates(plan) \cap DOMAIN files |-> Rewritten(plan, id)])
    /\ Operated

Renamed(id, new) == [p \in {id} \ {new} |-> new]

RenameNote(id, title) ==
    LET new == Append(ContainingDir(id), title) IN
    /\ ValidTitle(title)
    /\ id \in DOMAIN files
    /\ EnsurePathAvailable(new, {id})
    /\ ApplyReidentify(Plan(Renamed(id, new), id, title, {}, NoteOnly))
    /\ UNCHANGED folders

MoveNote(id, dir) ==
    LET new == Append(dir, Last(id)) IN
    /\ id \in DOMAIN files /\ Contained(id)
    /\ EnsureDirectoryExists(dir)
    /\ CanMaterialize(dir)
    /\ EnsurePathAvailable(new, {id})
    /\ ApplyReidentify(Plan(Renamed(id, new), None, None,
                            IF ContainingDir(id) # dir THEN {id} ELSE {}, NoteOnly))
    /\ folders' = folders \cup Ancestors(dir)

RenameDirectory(dir, name) ==
    LET new == Append(Front(dir), name) IN
    /\ dir # <<>> /\ NormalDirectory(dir) /\ ValidSegment(name)
    /\ Contained(dir) /\ Contained(new)
    /\ dir \in folders
    /\ new # dir /\ new \notin folders /\ ~PlainFileAt(new)
    /\ ApplyReidentify(Plan([id \in IdsWithPrefix(db, Here, dir) |-> Moved(id, dir, new)],
                            None, None, {}, [old |-> dir, new |-> new]))
    /\ folders' = {IF IsPrefix(dir, f) THEN Moved(f, dir, new) ELSE f : f \in folders}

-----------------------------------------------------------------------------
(* An idle write.  The file is written, then the stored hash is compared,  *)
(* then the rows are written, each a statement of its own.                 *)

Rest == [pc |-> "idle", id |-> None, text |-> None]

WriteFile(id, body) ==
    /\ writer.pc = "idle" /\ spent.writes < MaxWrites
    /\ scan.pc # "idle" => RescanRaces
    /\ id \in WalkNotes(files)
    /\ LET text == [files[id] EXCEPT !.body = body] IN
         /\ files' = [files EXCEPT ![id] = text]
         /\ writer' = [pc |-> "written", id |-> id, text |-> text]
    /\ spent' = [spent EXCEPT !.writes = @ + 1]
    /\ did' = Quiet
    /\ UNCHANGED <<folders, db, scan, tidy>>

(* Mutation: a Note the index knows is taken to be unchanged. *)
CompareHashKnown ==
    /\ writer.pc = "written"
    /\ writer' = IF NoteExists(db, Here, writer.id) THEN Rest ELSE [writer EXCEPT !.pc = "stale"]
    /\ did' = Quiet
    /\ UNCHANGED <<files, folders, db, scan, tidy, spent>>

CompareHash ==
    /\ writer.pc = "written"
    /\ writer' = IF StoredContentHash(db, Here, writer.id) = writer.text
                 THEN Rest ELSE [writer EXCEPT !.pc = "stale"]
    /\ did' = Quiet
    /\ UNCHANGED <<files, folders, db, scan, tidy, spent>>

IndexWrittenSource ==
    /\ writer.pc = "stale"
    /\ db' = WriteNoteRows(db, Here, <<DeriveNote(writer.id, writer.text)>>)
    /\ writer' = Rest
    /\ did' = Quiet
    /\ UNCHANGED <<files, folders, scan, tidy, spent>>

-----------------------------------------------------------------------------
(* A full scan, under the lifecycle lock: the walk, the Notes one at a     *)
(* time (one that has gone is skipped), and one transaction.               *)

Still == [pc |-> "idle", todo |-> <<>>, found |-> <<>>, dirs |-> {}, clean |-> FALSE]

ScanWalk ==
    /\ scan.pc = "idle" /\ ~tidy
    /\ writer.pc = "idle" \/ RescanRaces
    /\ scan' = [pc |-> "read", todo |-> SortedIds(WalkNotes(files)), found |-> <<>>,
                dirs |-> WalkDirectories(folders), clean |-> TRUE]
    /\ did' = Quiet
    /\ UNCHANGED <<files, folders, db, writer, tidy, spent>>

ScanRead ==
    /\ scan.pc = "read" /\ scan.todo # <<>>
    /\ LET id == Head(scan.todo) IN
         scan' = [scan EXCEPT !.todo = Tail(@),
                              !.found = IF id \in DOMAIN files
                                        THEN Append(@, DeriveNote(id, files[id])) ELSE @]
    /\ did' = Quiet
    /\ UNCHANGED <<files, folders, db, writer, tidy, spent>>

ScanWrite ==
    /\ scan.pc = "read" /\ scan.todo = <<>>
    /\ db' = WriteScannedBundle(db, Here, scan.dirs, scan.found)
    /\ tidy' = scan.clean
    /\ scan' = Still
    /\ did' = Quiet
    /\ UNCHANGED <<files, folders, writer, spent>>

-----------------------------------------------------------------------------
(* Other programs write and remove the bundle's files and Directories.     *)

Foreign == /\ spent.guests < MaxGuests
           /\ spent' = [spent EXCEPT !.guests = @ + 1]
           /\ tidy' = FALSE
           /\ scan' = [scan EXCEPT !.clean = FALSE]
           /\ did' = Quiet
           /\ UNCHANGED <<db, writer>>

GuestWrites(id, body) ==
    /\ Foreign
    /\ files' = Updated(files, [p \in {id} |-> Text("none", None, body)])
    /\ folders' = folders \cup Ancestors(ContainingDir(id))

GuestRemoves(id) ==
    /\ Foreign
    /\ id \in DOMAIN files
    /\ files' = Without(files, {id})
    /\ UNCHANGED folders

GuestRemovesFolder(dir) ==
    /\ Foreign
    /\ dir \in folders
    /\ files' = Without(files, {id \in DOMAIN files : Under(dir, id)})
    /\ folders' = {f \in folders : ~IsPrefix(dir, f)}

-----------------------------------------------------------------------------
NoRows == [notes |-> <<>>, fts |-> <<>>, mapping |-> <<>>, links |-> {}, dirs |-> {}]

(* The other Workspace has indexed a Note of the same id as one of ours. *)
Elsewhere ==
    LET id == CHOOSE p \in DOMAIN StartFiles : TRUE
    IN  WriteNoteRows(NoRows, There, <<DeriveNote(id, ConformantNote(Last(id)))>>)

Init ==
    /\ files = StartFiles
    /\ folders = StartFolders
    /\ db = LET scanned == ScanBundle(StartFiles, StartFolders)
            IN  WriteScannedBundle(Elsewhere, Here, scanned.dirs, scanned.notes)
    /\ writer = Rest
    /\ scan = Still
    /\ tidy = TRUE
    /\ did = Quiet
    /\ spent = [ops |-> 0, writes |-> 0, guests |-> 0]

Lifecycle ==
    \/ \E dir \in Folders, title \in Titles : CreateNote(dir, title)
    \/ \E id \in Noted : CreateLinkTarget(id)
    \/ \E dir \in Folders : CreateDirectory(dir)
    \/ \E id \in Noted : DeleteNote(id)
    \/ \E dir \in Folders : DeleteDirectory(dir)
    \/ \E id \in Noted, title \in Titles : RenameNote(id, title)
    \/ \E id \in Noted, dir \in Folders : MoveNote(id, dir)
    \/ \E dir \in Folders, name \in Titles : RenameDirectory(dir, name)

Indexing ==
    \/ \E id \in Noted, body \in Bodies : WriteFile(id, body)
    \/ CompareHash
    \/ IndexWrittenSource
    \/ ScanWalk
    \/ ScanRead
    \/ ScanWrite

Guests ==
    \/ \E id \in Noted, body \in Bodies : GuestWrites(id, body)
    \/ \E id \in Noted : GuestRemoves(id)
    \/ \E dir \in Folders : GuestRemovesFolder(dir)

Next == Lifecycle \/ Indexing \/ Guests

Spec == Init /\ [][Next]_vars

-----------------------------------------------------------------------------
(* What readers are shown.                                                 *)

(* The Directories of the tree are built from the root down, so one whose  *)
(* parent has no row is shown nowhere, and nor is what it holds.           *)
ShownDirectories(t, ws) == {d \in {r[2] : r \in t.dirs} :
                              \A a \in Ancestors(d) : <<ws, a>> \in t.dirs}
ShownNotes(t, ws) == {id \in {k[2] : k \in KeysOf(t, ws)} :
                        ContainingDir(id) \in {<<>>} \cup ShownDirectories(t, ws)}

Backlinks(t, ws, id) == {source \in LinkSources(t, ws, id) : NoteExists(t, ws, source)}

ResolveLinkTarget(t, ws, id) ==
    IF ~LinkTargetIdentity(id) THEN Refused
    ELSE IF NoteExists(t, ws, id) THEN "existing" ELSE "missing"

(* The titles the query begins; which of them the limit keeps is free. *)
FindNotesByTitle(t, ws, query) ==
    {k[2] : k \in {n \in KeysOf(t, ws) : IsPrefix(Glyphs[query], Glyphs[t.notes[n].title])}}

Completion(kind, title, id) ==
    [kind |-> kind, id |-> id, insert |-> SerializeLink(FoldWhitespace(Glyphs[title]), id)]

Prospective(t, ws, id, query) ==
    LET new == Append(ContainingDir(id), query)
    IN  IF LinkTargetIdentity(new) /\ ~NoteExists(t, ws, new)
        THEN {Completion("prospective", query, new)} ELSE {}

(* What a completion list of `cap` entries may hold: the prospective one,  *)
(* if there is one, has a place of its own.                                *)
LinkCompletions(t, ws, id, query, cap) ==
    LET prospective == Prospective(t, ws, id, query)
        found == {Completion("existing", t.notes[<<ws, n>>].title, n) :
                    n \in FindNotesByTitle(t, ws, query)}
        room == Min({cap - Cardinality(prospective), Cardinality(found)})
    IN  {prospective \cup kept : kept \in {f \in SUBSET found : Cardinality(f) = room}}

-----------------------------------------------------------------------------
(* Properties.                                                             *)

(* The shape of the state: every file's Directories are on disk with it. *)
TypeOK ==
    /\ DOMAIN files \subseteq Paths /\ folders \subseteq Paths
    /\ \A id \in DOMAIN files : \A a \in Ancestors(ContainingDir(id)) : a \in folders
    /\ writer.pc \in {"idle", "written", "stale"}
    /\ scan.pc \in {"idle", "read"}
    /\ tidy \in BOOLEAN

(* Full text is reachable from exactly one Note, and no Note lacks it: a   *)
(* row of `fts` nothing maps to would be found by every search and could   *)
(* never be removed.  No foreign key does this (purge_note_text runs       *)
(* before the delete that takes the mapping away), and none of it touches  *)
(* the rows of another Workspace, even of a Note with the same id.         *)
RowsReachable ==
    /\ DOMAIN db.mapping = DOMAIN db.notes
    /\ {db.mapping[k] : k \in DOMAIN db.mapping} = DOMAIN db.fts
    /\ \A k \in DOMAIN db.notes : db.fts[db.mapping[k]] = db.notes[k]
    /\ \A l \in db.links : l.source \in Backlinks(db, l.ws, l.target)
    /\ \A k \in KeysOf(Elsewhere, There) :
          k \in DOMAIN db.notes /\ db.notes[k] = Elsewhere.notes[k]
    /\ KeysOf(db, There) = KeysOf(Elsewhere, There)

(* The tree shows every indexed Note and every recorded Directory: each    *)
(* Directory above it has a row, whichever operation wrote it, and however *)
(* deep the first file of a new Directory was created.                     *)
TreeReaches ==
    /\ ShownNotes(db, Here) = {k[2] : k \in KeysOf(db, Here)}
    /\ \A d \in db.dirs : d[1] = Here => d[2] \in ShownDirectories(db, Here)

Rows(t) == [notes |-> [k \in KeysOf(t, Here) |-> t.notes[k]],
            links |-> {l \in t.links : l.ws = Here},
            dirs |-> {d \in t.dirs : d[1] = Here}]

(* Incremental indexing is a scan done in pieces: with nothing in flight   *)
(* and no change by another program since a scan, the rows are those a     *)
(* scan of the bundle would write, after any sequence of operations, idle  *)
(* writes and scans.                                                       *)
RowsMatchBundle ==
    (tidy /\ writer.pc = "idle" /\ scan.pc = "idle") =>
        LET now == ScanBundle(files, folders)
        IN  Rows(db) = Rows(WriteScannedBundle(db, Here, now.dirs, now.notes))

(* What a destination that names something of the bundle names. *)
Meaning(d, dir) ==
    IF Classify(d, dir) # None THEN <<"note", Classify(d, dir)>>
    ELSE IF d.kind # "file" THEN None
    ELSE <<"file", IF d.rooted THEN d.segs ELSE ResolveBundlePath(d, dir)>>

(* Where a destination may lead after a step that re-identified Notes.  A  *)
(* Note's new id is followed.  Under a renamed Directory what is not a     *)
(* Note is followed only by who moved with it.                             *)
Follows(before, after, step) ==
    IF before = None THEN TRUE
    ELSE IF before[1] = "note" /\ before[2] \in DOMAIN step.lands
    THEN after = <<"note", step.lands[before[2]]>>
    ELSE \/ after = before
         \/ /\ step.kind = "directory" /\ Under(step.directory.old, before[2])
            /\ after = <<before[1], Moved(before[2], step.directory.old, step.directory.new)>>

SameBut(e, f, dir, newDir, step) ==
    /\ [e EXCEPT !.dest = None, !.form = None, !.inner = None]
       = [f EXCEPT !.dest = None, !.form = None, !.inner = None]
    /\ Follows(Meaning(e.dest, dir), Meaning(f.dest, newDir), step)
    /\ Meaning(e.dest, dir) = None => e.dest = f.dest

(* After a rename or a move every destination of every indexed Note names  *)
(* what it named before, under its new name, and nothing else of the text  *)
(* has changed: labels, titles, images, prose, and the Links beside it.    *)
(* The rewriting is done on the source by offsets found by hand, in Notes  *)
(* the rows pick out, so it takes both to be right.                        *)
DestinationsFollow == [][
    (did'.kind # "none" /\ tidy) =>
        \A p \in WalkNotes(files) :
            LET q == did'.lands[p]
                before == Contents(files[p].body)
                after == Contents(files'[q].body)
            IN  /\ Len(before) = Len(after)
                /\ \A i \in DOMAIN before :
                     IF "dest" \notin DOMAIN before[i] THEN after[i] = before[i]
                     ELSE /\ "dest" \in DOMAIN after[i]
                          /\ SameBut(before[i], after[i], ContainingDir(p), ContainingDir(q), did')
                          /\ before[i].inner # None =>
                               SameBut(before[i].inner, after[i].inner,
                                       ContainingDir(p), ContainingDir(q), did')
    ]_vars

(* A completion leads where it says: what it inserts reads as one Link to  *)
(* the id it offers, whatever its title holds; an id it offers to create   *)
(* is not taken, resolves to be created, and is in the Note's Directory;   *)
(* and a full list never crowds it out.                                    *)
CompletionsLead ==
    \A k \in KeysOf(db, Here), query \in Titles, cap \in 1..2 :
        \A offered \in LinkCompletions(db, Here, k[2], query, cap) :
            /\ Cardinality(offered) <= cap
            /\ \A c \in offered :
                 /\ c.insert \in DOMAIN Reading
                 /\ Classify(Reading[c.insert].dest, ContainingDir(k[2])) = c.id
                 /\ Reading[c.insert].label # <<>>
                 /\ c.kind = "prospective" =>
                      /\ ResolveLinkTarget(db, Here, c.id) = "missing"
                      /\ ContainingDir(c.id) = ContainingDir(k[2])
            /\ Prospective(db, Here, k[2], query) \subseteq offered
=============================================================================
