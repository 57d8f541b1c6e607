---------------------------- MODULE NoteSession ----------------------------
(***************************************************************************)
(* The persistence of one Note (rust/src/workspace/persist.rs): the         *)
(* working buffer of an open session, the crash-safe row it keeps in the    *)
(* `drafts` table (tier 1), the file the idle timer and `flush_note` write  *)
(* under the optimistic concurrency check (tier 2), and the Git commit a    *)
(* close makes (tier 3).                                                    *)
(*                                                                          *)
(* Three kinds of threads step:                                             *)
(*   - the editor: the Dart isolate, whose synchronous calls mutate the     *)
(*     buffer one at a time (`update_block` and the structural mutators);   *)
(*   - one idle-timer thread per session;                                   *)
(*   - the bridge's worker threads, which run open, flush, reload, close.   *)
(* A step is what a thread does between two points where another thread can *)
(* intervene: one critical section of the state lock, one SQL statement,    *)
(* one file operation. Outside the program, a guest (another tool, or the   *)
(* sync manager's merge) changes the file, and a crash ends the process.    *)
(*                                                                          *)
(* A text stands for the bytes, their decoding and their content hash, so   *)
(* an OCC revision is the text it is the hash of. Spans, AST and metadata   *)
(* are left out: they are functions of the text. `commit_block`, the caret  *)
(* and the status calls leave every variable here unchanged.                *)
(***************************************************************************)
EXTENDS Naturals, FiniteSets

CONSTANTS
    Texts,        \* what a Note can hold
    Empty,        \* the text of no bytes; its hash is also that of no file
    Absent,       \* the state of a path with no file
    Conflicts,    \* the texts that hold unresolved merge-conflict markers
    Sessions,     \* identities of sessions, each used by at most one open
    Workers,      \* the bridge's worker threads
    None,         \* no session, no row, no lock holder
    MaxSeq,       \* bound: the highest edit sequence
    MaxGuest,     \* bound: changes made to the file from outside
    MaxCrash,     \* bound: kills of the process
    DraftFaults,  \* may the `drafts` upsert fail?
    SqlFaults,    \* may another statement fail?
    FileFaults,   \* may a file operation or a commit fail?
    CloseRaces,   \* the calls that may arrive at a session that is closing
    Stragglers    \* may a Note reopen before the flushes of its past end?

ASSUME TextsAssumption ==
    /\ Empty \in Texts
    /\ Conflicts \subseteq Texts
    /\ Absent \notin Texts
    /\ None \notin Texts \cup Sessions \cup Workers \cup {Absent}
ASSUME NoRowAssumption == None \notin [seq: Nat, text: Texts]
ASSUME ThreadsAssumption == Sessions \cap Workers = {}
ASSUME BoundsAssumption == MaxSeq \in Nat /\ MaxGuest \in Nat /\ MaxCrash \in Nat
ASSUME SwitchesAssumption ==
    /\ DraftFaults \in BOOLEAN /\ SqlFaults \in BOOLEAN
    /\ FileFaults \in BOOLEAN /\ Stragglers \in BOOLEAN
ASSUME RacesAssumption == CloseRaces \subseteq {"edit", "flush", "reload", "close"}

VARIABLES
    disk,      \* the Note's file
    draft,     \* the Note's `drafts` row, or None
    head,      \* what the commit at HEAD records for the Note's path
    opened,    \* the sessions that exist or have existed
    cur,       \* the session the registry holds for the Note, or None
    sess,      \* session -> what its state lock guards
    wlock,     \* session -> the holder of its tier 2 write lock, or None
    tier1,     \* session -> the worker that holds its tier 1 lock, or None
    armed,     \* session -> its idle timer has a deadline
    opening,   \* an open in progress: the file it read; None when there is none
    ed,        \* the editor's call in progress
    wr,        \* thread -> its call in progress
    acked,     \* history: the last text the program told its user it holds
    known,     \* history: the texts the program has shown its user
    byGuest,   \* history: the file is as a guest left it
    foreign,   \* history: ... and the program has not read it since
    overruled, \* history: the texts a guest replaced in the file since they were promised
    guests, crashes

store   == <<disk, draft, head>>
locks   == <<wlock, tier1>>
history == <<acked, known, byGuest, foreign, overruled>>
bounds  == <<guests, crashes>>
vars    == <<store, opened, cur, sess, locks, armed, opening, ed, wr, history, bounds>>

Files == Texts \cup {Absent}

(* The idle timer's thread of a session is named by the session. *)
Threads == Workers \cup Sessions

Hash(file) == IF file = Absent THEN Empty ELSE file

DraftRow == [seq: Nat, text: Texts]

Row(seq, text) == [seq |-> seq, text |-> text]

(* `SessionState`, without what the text determines. *)
SessionState ==
    [buf: Texts, seq: Nat, rev: Texts, restored: BOOLEAN, awaiting: BOOLEAN,
     edited: BOOLEAN, unwritten: BOOLEAN, conflicted: BOOLEAN,
     error: BOOLEAN, closed: BOOLEAN]

(* A session that was never opened, or died with its process. *)
NoSession ==
    [buf |-> Empty, seq |-> 0, rev |-> Empty, restored |-> FALSE, awaiting |-> FALSE,
     edited |-> FALSE, unwritten |-> FALSE, conflicted |-> FALSE,
     error |-> FALSE, closed |-> TRUE]

(* What a mutation replaces, kept while its draft row is being written. *)
Rollback == [buf: Texts, seq: Nat, rev: Texts, edited: BOOLEAN, unwritten: BOOLEAN]

RollbackOf(state) ==
    [buf |-> state.buf, seq |-> state.seq, rev |-> state.rev,
     edited |-> state.edited, unwritten |-> state.unwritten]

(* The editor's mutation in flight, and the call a thread is working on.     *)
EditorState ==
    [pc: {"idle", "draft", "undo"}, s: Sessions \cup {None}, text: Texts,
     seq: Nat, prev: Rollback]

ThreadState ==
    [pc: {"rest", "flush", "check", "write", "record", "clear", "index",
          "reload", "discard", "install",
          "close", "commit", "unstage", "retire", "remove"},
     call: {"none", "timer", "flush", "reload", "close"},
     s: Sessions \cup {None}, text: Texts, seq: Nat, rev: Texts,
     edited: BOOLEAN, vanished: BOOLEAN]

(* The text last acknowledged, and the one a mutation in progress brings:    *)
(* when that one lands, the acknowledged one is superseded.                  *)
Promised == {acked} \cup (IF ed.pc = "idle" THEN {} ELSE {ed.text})

EditorIdle == [pc |-> "idle", s |-> None, text |-> Empty, seq |-> 0,
               prev |-> RollbackOf(NoSession)]

AtRest == [pc |-> "rest", call |-> "none", s |-> None, text |-> Empty, seq |-> 0,
           rev |-> Empty, edited |-> FALSE, vanished |-> FALSE]

Init ==
    /\ disk \in Texts
    /\ draft = None
    /\ head = disk
    /\ opened = {}
    /\ cur = None
    /\ sess = [s \in Sessions |-> NoSession]
    /\ wlock = [s \in Sessions |-> None]
    /\ tier1 = [s \in Sessions |-> None]
    /\ armed = [s \in Sessions |-> FALSE]
    /\ opening = None
    /\ ed = EditorIdle
    /\ wr = [w \in Threads |-> AtRest]
    /\ acked = None
    /\ known = {}
    /\ byGuest = FALSE
    /\ foreign = FALSE
    /\ overruled = {}
    /\ guests = 0
    /\ crashes = 0

-----------------------------------------------------------------------------
(* Opening: the whole open holds the lifecycle lock, so no edit is admitted  *)
(* while it runs and it waits for the edits already admitted. An open of a   *)
(* registered Note returns the session it finds and changes nothing.         *)

Quiet == ~Stragglers => \A w \in Threads : wr[w].pc = "rest"

OpenRead ==
    /\ cur = None
    /\ opening = None
    /\ ed.pc = "idle"
    /\ opened # Sessions
    /\ Quiet
    /\ opening' = disk
    /\ UNCHANGED <<store, opened, cur, sess, locks, armed, ed, wr, history, bounds>>

(* Mutation: the sequence starts over beside a recovered row. *)
OpenedStateResetSeq ==
    [NoSession EXCEPT
        !.buf = IF draft # None THEN draft.text ELSE opening,
        !.rev = Hash(opening),
        !.restored = draft # None, !.awaiting = opening = Absent,
        !.edited = draft # None, !.unwritten = draft # None, !.closed = FALSE]

(* The session built from the file that was read and the draft row, if any:  *)
(* the row's text wins, the revision stays the hash of the file.             *)
OpenedState ==
    [NoSession EXCEPT
        !.buf = IF draft # None THEN draft.text ELSE opening,
        !.seq = IF draft # None THEN draft.seq ELSE 0,
        !.rev = Hash(opening),
        !.restored = draft # None,
        !.awaiting = opening = Absent,
        !.edited = draft # None,
        !.unwritten = draft # None,
        !.closed = FALSE]

OpenInstall ==
    /\ opening # None
    /\ draft # None \/ opening # Absent
    /\ \E s \in Sessions \ opened :
        /\ opened' = opened \cup {s}
        /\ cur' = s
        /\ sess' = [sess EXCEPT ![s] = OpenedState]
        /\ armed' = [armed EXCEPT ![s] = draft # None]
        /\ acked' = OpenedState.buf
        /\ known' = known \cup {OpenedState.buf}
    /\ opening' = None
    /\ foreign' = (foreign /\ disk # opening)
    /\ overruled' = IF foreign' /\ draft = None THEN {opening} ELSE {}
    /\ UNCHANGED <<store, locks, ed, wr, byGuest, bounds>>

(* No file and no row is NotFound; a failing query is the other way out. *)
OpenRefused ==
    /\ opening # None
    /\ SqlFaults \/ (draft = None /\ opening = Absent)
    /\ opening' = None
    /\ UNCHANGED <<store, opened, cur, sess, locks, armed, ed, wr, history, bounds>>

-----------------------------------------------------------------------------
(* Tier 1: one mutation, from its edit lease to its answer. The tier 1 lock  *)
(* of the session is held throughout (`ed.pc # "idle"`), so a reload waits.  *)

Closing(s) == \E w \in Workers : wr[w].call = "close" /\ wr[w].s = s

(* The mutation is installed under the state lock, after what it replaces is *)
(* remembered and before the row is written.                                 *)
EditInstall(text) ==
    /\ ed.pc = "idle"
    /\ opening = None
    /\ cur # None
    /\ tier1[cur] = None
    /\ ~sess[cur].closed /\ ~sess[cur].conflicted
    /\ Closing(cur) => "edit" \in CloseRaces
    /\ sess[cur].seq < MaxSeq
    /\ ed' = [pc |-> "draft", s |-> cur, text |-> text, seq |-> sess[cur].seq + 1,
              prev |-> RollbackOf(sess[cur])]
    /\ sess' = [sess EXCEPT ![cur].buf = text, ![cur].seq = @ + 1,
                            ![cur].edited = TRUE, ![cur].unwritten = TRUE]
    /\ known' = known \cup {text}
    /\ overruled' = overruled \ ({text} \ {acked})
    /\ UNCHANGED <<store, opened, cur, locks, armed, opening, wr,
                   acked, byGuest, foreign, bounds>>

(* The upsert, guarded so that the row's sequence never goes back.           *)
WriteDraft(seq, text) ==
    IF draft = None \/ (draft # None /\ draft.seq < seq) THEN Row(seq, text) ELSE draft

(* Mutation: the idle timer is not armed. *)
AcknowledgeUnarmed ==
    /\ armed' = armed
    /\ acked' = ed.text
    /\ ed' = EditorIdle

(* The call answers Ok: from here its text is a promise to the user.         *)
Acknowledge ==
    /\ armed' = [armed EXCEPT ![ed.s] = TRUE]
    /\ acked' = ed.text
    /\ ed' = EditorIdle

EditDraft ==
    /\ ed.pc = "draft"
    /\ draft' = WriteDraft(ed.seq, ed.text)
    /\ Acknowledge
    /\ UNCHANGED <<disk, head, opened, cur, sess, locks, opening, wr,
                   known, byGuest, foreign, overruled, bounds>>

EditDraftFails ==
    /\ ed.pc = "draft"
    /\ DraftFaults
    /\ ed' = [ed EXCEPT !.pc = "undo"]
    /\ UNCHANGED <<store, opened, cur, sess, locks, armed, opening, wr, history, bounds>>

(* Whether the mutation may no longer be undone: another one followed it, or *)
(* tier 2 has moved the revision.                                            *)
Published == sess[ed.s].seq # ed.seq \/ sess[ed.s].rev # ed.prev.rev

(* The mutation stays, its answer is Ok, and the timer is armed for it.      *)
EditRetain ==
    /\ ed.pc = "undo"
    /\ Published
    /\ Acknowledge
    /\ UNCHANGED <<store, opened, cur, sess, locks, opening, wr,
                   known, byGuest, foreign, overruled, bounds>>

(* Mutation: the sequence and flags go back, the buffer does not. *)
EditUndoKeepsBuffer ==
    /\ ed.pc = "undo"
    /\ ~Published
    /\ sess' = [sess EXCEPT ![ed.s].seq = ed.prev.seq, ![ed.s].edited = ed.prev.edited,
                            ![ed.s].unwritten = ed.prev.unwritten]
    /\ ed' = EditorIdle
    /\ UNCHANGED <<store, opened, cur, locks, armed, opening, wr, history, bounds>>

(* The mutation is undone and its answer is the error.                       *)
EditUndo ==
    /\ ed.pc = "undo"
    /\ ~Published
    /\ sess' = [sess EXCEPT ![ed.s].buf = ed.prev.buf, ![ed.s].seq = ed.prev.seq,
                            ![ed.s].edited = ed.prev.edited,
                            ![ed.s].unwritten = ed.prev.unwritten]
    /\ ed' = EditorIdle
    /\ UNCHANGED <<store, opened, cur, locks, armed, opening, wr, history, bounds>>

-----------------------------------------------------------------------------
(* Tier 2: a flush, by the idle timer, by `flush_note` or inside a close.    *)

Goto(w, pc) == wr' = [wr EXCEPT ![w].pc = pc]
Rest(w) == wr' = [wr EXCEPT ![w] = AtRest]

(* The deadline passes: it is cleared, and not set again by a failed flush.  *)
TimerFires(s) ==
    /\ armed[s]
    /\ wr[s].pc = "rest"
    /\ armed' = [armed EXCEPT ![s] = FALSE]
    /\ wr' = [wr EXCEPT ![s] = [AtRest EXCEPT !.pc = "flush", !.call = "timer", !.s = s]]
    /\ UNCHANGED <<store, opened, cur, sess, locks, opening, ed, history, bounds>>

(* A worker looks the session up in the registry and starts `call` on it.    *)
Call(w, call) ==
    /\ wr[w].pc = "rest"
    /\ cur # None
    /\ Closing(cur) => call \in CloseRaces
    /\ wr' = [wr EXCEPT ![w] = [AtRest EXCEPT !.pc = call, !.call = call, !.s = cur]]
    /\ UNCHANGED <<store, opened, cur, sess, locks, armed, opening, ed, history, bounds>>

(* Where a flush that ended well, or found the file gone, leaves its thread. *)
AfterFlush(w) == IF wr[w].call = "close" THEN Goto(w, "commit") ELSE Rest(w)

(* Under the write lock: the snapshot. A closed session is written no more.  *)
FlushSnapshot(w) ==
    LET s == wr[w].s IN
    /\ wr[w].pc = "flush"
    /\ wlock[s] = None
    /\ ~sess[s].closed
    /\ wlock' = [wlock EXCEPT ![s] = w]
    /\ wr' = [wr EXCEPT ![w].pc = "check", ![w].text = sess[s].buf,
                        ![w].seq = sess[s].seq, ![w].rev = sess[s].rev]
    /\ UNCHANGED <<store, opened, cur, sess, tier1, armed, opening, ed, history, bounds>>

FlushClosed(w) ==
    LET s == wr[w].s IN
    /\ wr[w].pc = "flush"
    /\ wlock[s] = None
    /\ sess[s].closed
    /\ IF wr[w].call = "close"
       THEN wr' = [wr EXCEPT ![w].pc = "commit", ![w].seq = sess[s].seq]
       ELSE Rest(w)
    /\ UNCHANGED <<store, opened, cur, sess, locks, armed, opening, ed, history, bounds>>

(* The session was opened on, or has since seen, the file as it is now.      *)
Missing(s) == disk = Absent /\ ~sess[s].awaiting
(* Mutation: the bytes on disk are not compared with the revision. *)
CurrentUnchecked(w) == ~Missing(wr[w].s)

Current(w) == ~Missing(wr[w].s) /\ Hash(disk) = wr[w].rev

FlushCheck(w) ==
    /\ wr[w].pc = "check"
    /\ Current(w)
    /\ Goto(w, "write")
    /\ UNCHANGED <<store, opened, cur, sess, locks, armed, opening, ed, history, bounds>>

(* The rename. Bytes that are already there are not written again, unless    *)
(* the session owes the path a file.                                         *)
FlushWrite(w) ==
    LET s == wr[w].s IN
    /\ wr[w].pc = "write"
    /\ IF wr[w].text # wr[w].rev \/ sess[s].awaiting
       THEN /\ disk' = wr[w].text
            /\ byGuest' = FALSE
            /\ foreign' = FALSE
       ELSE UNCHANGED <<disk, byGuest, foreign>>
    /\ Goto(w, "record")
    /\ UNCHANGED <<draft, head, opened, cur, sess, locks, armed, opening, ed,
                   acked, known, overruled, bounds>>

(* Mutation: the baseline stays behind the write. *)
FlushRecordForgotten(w) ==
    /\ wr[w].pc = "record"
    /\ Goto(w, "clear")
    /\ UNCHANGED <<store, opened, cur, sess, locks, armed, opening, ed, history, bounds>>

(* The baseline moves at once, whatever becomes of the two statements below. *)
FlushRecord(w) ==
    LET s == wr[w].s IN
    /\ wr[w].pc = "record"
    /\ sess' = [sess EXCEPT ![s].rev = wr[w].text, ![s].awaiting = FALSE]
    /\ Goto(w, "clear")
    /\ UNCHANGED <<store, opened, cur, locks, armed, opening, ed, history, bounds>>

(* Mutation: the row is cleared outright. *)
ClearOutright(seq) == None

(* DELETE ... WHERE edit_seq <= seq                                          *)
ClearThrough(seq) == IF draft # None /\ draft.seq <= seq THEN None ELSE draft

FlushClear(w) ==
    /\ wr[w].pc = "clear"
    /\ draft' = ClearThrough(wr[w].seq)
    /\ Goto(w, "index")
    /\ UNCHANGED <<disk, head, opened, cur, sess, locks, armed, opening, ed, history, bounds>>

(* The index takes the new bytes and the session settles.                    *)
FlushSettle(w) ==
    LET s == wr[w].s IN
    /\ wr[w].pc = "index"
    /\ sess' = [sess EXCEPT ![s].error = FALSE, ![s].unwritten = sess[s].seq > wr[w].seq]
    /\ wlock' = [wlock EXCEPT ![s] = None]
    /\ AfterFlush(w)
    /\ UNCHANGED <<store, opened, cur, tier1, armed, opening, ed, history, bounds>>

(* A flush stops at its first error, which the session keeps for the status  *)
(* poll. A close takes a missing file for the deletion it is and goes on;    *)
(* any other error refuses it.                                               *)
FlushError(w) ==
    \/ wr[w].pc = "check" /\ (~Current(w) \/ FileFaults)
    \/ wr[w].pc = "write" /\ FileFaults
    \/ wr[w].pc \in {"clear", "index"} /\ SqlFaults

FlushFails(w) ==
    LET s == wr[w].s IN
    /\ FlushError(w)
    /\ sess' = [sess EXCEPT ![s].error = TRUE]
    /\ wlock' = [wlock EXCEPT ![s] = None]
    /\ IF wr[w].call = "close" /\ wr[w].pc = "check" /\ Missing(s)
       THEN wr' = [wr EXCEPT ![w].pc = "retire", ![w].vanished = TRUE]
       ELSE Rest(w)
    /\ UNCHANGED <<store, opened, cur, tier1, armed, opening, ed, history, bounds>>

-----------------------------------------------------------------------------
(* Reload: the exit from a revision mismatch. It discards the buffer for the *)
(* file's bytes, under the write lock, and under the tier 1 lock from the    *)
(* deletion of the row to the installation of what was read.                 *)

ReloadRead(w) ==
    LET s == wr[w].s IN
    /\ wr[w].pc = "reload"
    /\ wlock[s] = None
    /\ IF disk = Absent
       THEN /\ Rest(w)
            /\ UNCHANGED wlock
       ELSE /\ wlock' = [wlock EXCEPT ![s] = w]
            /\ wr' = [wr EXCEPT ![w].pc = "discard", ![w].text = disk]
    /\ UNCHANGED <<store, opened, cur, sess, tier1, armed, opening, ed, history, bounds>>

TierOneFree(s) == tier1[s] = None /\ ~(ed.pc # "idle" /\ ed.s = s)

ReloadDiscard(w) ==
    LET s == wr[w].s IN
    /\ wr[w].pc = "discard"
    /\ TierOneFree(s)
    /\ tier1' = [tier1 EXCEPT ![s] = w]
    /\ draft' = None
    /\ Goto(w, "install")
    /\ acked' = wr[w].text
    /\ foreign' = (foreign /\ disk # wr[w].text)
    /\ overruled' = IF foreign' THEN {wr[w].text} ELSE {}
    /\ UNCHANGED <<disk, head, opened, cur, sess, wlock, armed, opening, ed,
                   known, byGuest, bounds>>

(* A read or a statement fails before anything is replaced.                  *)
ReloadFails(w) ==
    LET s == wr[w].s IN
    /\ \/ wr[w].pc = "reload" /\ wlock[s] = None /\ FileFaults
       \/ wr[w].pc = "discard" /\ TierOneFree(s) /\ SqlFaults
    /\ wlock' = [wlock EXCEPT ![s] = None]
    /\ Rest(w)
    /\ UNCHANGED <<store, opened, cur, sess, tier1, armed, opening, ed, history, bounds>>

ReloadInstall(w) ==
    LET s == wr[w].s
        text == wr[w].text
    IN
    /\ wr[w].pc = "install"
    /\ sess' = [sess EXCEPT ![s].buf = text, ![s].rev = text, ![s].awaiting = FALSE,
                            ![s].restored = FALSE, ![s].unwritten = FALSE,
                            ![s].conflicted = text \in Conflicts, ![s].error = FALSE]
    /\ wlock' = [wlock EXCEPT ![s] = None]
    /\ tier1' = [tier1 EXCEPT ![s] = None]
    /\ Rest(w)
    /\ known' = known \cup {text}
    /\ UNCHANGED <<store, opened, cur, armed, opening, ed,
                   acked, byGuest, foreign, overruled, bounds>>

-----------------------------------------------------------------------------
(* Close: flush, one commit, the clearing of the row, and the retirement of  *)
(* the session. Only a flush that fails on a file that is there refuses it;  *)
(* later failures are reported as warnings by a close that completes.        *)

(* Nothing was edited and nothing is unwritten: there is nothing to flush,   *)
(* to commit or to clear.                                                    *)
CloseBegin(w) ==
    LET s == wr[w].s
        edited == sess[s].edited
    IN
    /\ wr[w].pc = "close"
    /\ wr' = [wr EXCEPT ![w].edited = edited,
                        ![w].pc = IF edited \/ sess[s].unwritten THEN "flush" ELSE "retire"]
    /\ UNCHANGED <<store, opened, cur, sess, locks, armed, opening, ed, history, bounds>>

(* `commit_paths` commits the file as it is on disk at that moment.          *)
CloseCommit(w) ==
    /\ wr[w].pc = "commit"
    /\ head' = IF wr[w].edited THEN disk ELSE head
    /\ Goto(w, "unstage")
    /\ UNCHANGED <<disk, draft, opened, cur, sess, locks, armed, opening, ed, history, bounds>>

CloseCommitFails(w) ==
    /\ wr[w].pc = "commit"
    /\ wr[w].edited /\ FileFaults
    /\ Goto(w, "unstage")
    /\ UNCHANGED <<store, opened, cur, sess, locks, armed, opening, ed, history, bounds>>

(* The row goes only as far as the flush covered.                            *)
CloseClear(w) ==
    /\ wr[w].pc = "unstage"
    /\ draft' \in {ClearThrough(wr[w].seq)} \cup (IF SqlFaults THEN {draft} ELSE {})
    /\ Goto(w, "retire")
    /\ UNCHANGED <<disk, head, opened, cur, sess, locks, armed, opening, ed, history, bounds>>

CloseRetire(w) ==
    LET s == wr[w].s IN
    /\ wr[w].pc = "retire"
    /\ sess' = [sess EXCEPT ![s].closed = TRUE, ![s].edited = FALSE,
                            ![s].unwritten = wr[w].vanished]
    /\ Goto(w, "remove")
    /\ UNCHANGED <<store, opened, cur, locks, armed, opening, ed, history, bounds>>

(* The registry entry is removed by the Note's key.                          *)
CloseRemove(w) ==
    /\ wr[w].pc = "remove"
    /\ cur' = None
    /\ Rest(w)
    /\ UNCHANGED <<store, opened, sess, locks, armed, opening, ed, history, bounds>>

-----------------------------------------------------------------------------
(* Outside the program.                                                      *)

GuestChanges(file) ==
    /\ guests < MaxGuest
    /\ file # disk
    /\ disk' = file
    /\ byGuest' = TRUE
    /\ foreign' = TRUE
    /\ overruled' = overruled \cup ({disk} \cap Promised)
    /\ guests' = guests + 1
    /\ UNCHANGED <<draft, head, opened, cur, sess, locks, armed, opening, ed, wr,
                   acked, known, crashes>>

(* The process is killed: the file, the row and the history of Git remain. A *)
(* mutation that had landed without its answer supersedes the text before it,*)
(* unless the row still holds that one.                                      *)
Crash ==
    /\ crashes < MaxCrash
    /\ crashes' = crashes + 1
    /\ cur' = None
    /\ sess' = [s \in Sessions |-> NoSession]
    /\ wlock' = [s \in Sessions |-> None]
    /\ tier1' = [s \in Sessions |-> None]
    /\ armed' = [s \in Sessions |-> FALSE]
    /\ opening' = None
    /\ ed' = EditorIdle
    /\ wr' = [w \in Threads |-> AtRest]
    /\ acked' = IF /\ ed.pc # "idle" /\ ed.text \in {disk} \cup overruled
                   /\ draft = None \/ (draft # None /\ draft.text # acked)
                THEN ed.text ELSE acked
    /\ UNCHANGED <<store, opened, known, byGuest, foreign, overruled, guests>>

-----------------------------------------------------------------------------

Open == OpenRead \/ OpenInstall \/ OpenRefused

EditSettles == EditDraft \/ EditDraftFails \/ EditRetain \/ EditUndo

Flush(w) ==
    \/ FlushSnapshot(w) \/ FlushClosed(w) \/ FlushCheck(w) \/ FlushWrite(w)
    \/ FlushRecord(w) \/ FlushClear(w) \/ FlushSettle(w) \/ FlushFails(w)

Reload(w) == ReloadRead(w) \/ ReloadDiscard(w) \/ ReloadFails(w) \/ ReloadInstall(w)

Close(w) ==
    \/ CloseBegin(w) \/ CloseCommit(w) \/ CloseCommitFails(w)
    \/ CloseClear(w) \/ CloseRetire(w) \/ CloseRemove(w)

Thread(w) == Flush(w) \/ Reload(w) \/ Close(w)

Next ==
    \/ Open
    \/ \E text \in Texts : EditInstall(text)
    \/ EditSettles
    \/ \E s \in Sessions : TimerFires(s)
    \/ \E w \in Workers, call \in {"flush", "reload", "close"} : Call(w, call)
    \/ \E w \in Threads : Thread(w)
    \/ \E file \in Files : GuestChanges(file)
    \/ Crash

Spec == Init /\ [][Next]_vars

(* What the threads' scheduling justifies: a call that was started goes on   *)
(* as far as its locks let it, a deadline fires, and a thread that waits for *)
(* a lock that is released again and again gets it in the end (its other     *)
(* takers are a person's calls, which leave it free in between). Nothing     *)
(* obliges the user to open, edit, reload or close, or a guest to act.       *)
Fairness ==
    /\ WF_vars(OpenInstall \/ OpenRefused)
    /\ WF_vars(EditSettles)
    /\ \A s \in Sessions : WF_vars(TimerFires(s))
    /\ \A w \in Threads : /\ WF_vars(Thread(w))
                           /\ SF_vars(FlushSnapshot(w) \/ FlushClosed(w))
                           /\ SF_vars(ReloadRead(w))
                           /\ SF_vars(ReloadDiscard(w))

FairSpec == Spec /\ Fairness

-----------------------------------------------------------------------------
(* Properties.                                                               *)

TypeOK ==
    /\ disk \in Files
    /\ draft \in {None} \cup DraftRow
    /\ head \in Files
    /\ opened \subseteq Sessions
    /\ cur \in opened \cup {None}
    /\ sess \in [Sessions -> SessionState]
    /\ wlock \in [Sessions -> Threads \cup {None}]
    /\ tier1 \in [Sessions -> Threads \cup {None}]
    /\ armed \in [Sessions -> BOOLEAN]
    /\ opening \in Files \cup {None}
    /\ ed \in EditorState
    /\ wr \in [Threads -> ThreadState]
    /\ acked \in Texts \cup {None}
    /\ known \subseteq Texts
    /\ byGuest \in BOOLEAN
    /\ foreign \in BOOLEAN
    /\ overruled \subseteq Texts
    /\ guests \in Nat
    /\ crashes \in Nat

(* Whatever the process does next, a kill included, the text it last         *)
(* acknowledged (or the one that is replacing it) is in the file or in the   *)
(* draft row, unless a guest replaced the file that held it. This is what    *)
(* tier 1 and the conditional clear of tier 2 are for.                       *)
Recoverable ==
    \/ acked = None
    \/ overruled \cap Promised # {}
    \/ disk \in Promised
    \/ draft # None /\ draft.text \in Promised

(* The next open, after a close or a kill, hands back the text last          *)
(* acknowledged, unless a guest replaced the file that held it.              *)
OpenRecovers ==
    [][cur = None /\ cur' # None /\ acked # None /\ overruled \cap Promised = {}
          => sess'[cur'].buf = acked]_vars

(* `WHERE excluded.edit_seq > drafts.edit_seq` in write_draft never drops the *)
(* row of a mutation that is about to be acknowledged: no row, of this       *)
(* session or of one before it, is level with the mutation or ahead of it.   *)
RowBehindEdit == ed.pc = "draft" /\ draft # None => draft.seq < ed.seq

(* The inductive form of it. The row is never ahead of the session that is   *)
(* open; a mutation in flight belongs to the open session, or to one that    *)
(* was closed under it with none open since, and has the session's sequence, *)
(* one above what it replaces; and no open runs beside a mutation.           *)
RowNotAhead == cur # None /\ draft # None => draft.seq <= sess[cur].seq

EditInStep ==
    ed.pc # "idle" =>
        /\ ed.s \in opened
        /\ cur \in {ed.s, None}
        /\ sess[ed.s].seq = ed.seq
        /\ ed.seq = ed.prev.seq + 1
        /\ draft # None => draft.seq < ed.seq

OpenAlone == opening # None => cur = None /\ ed.pc = "idle"

SequencesInStep == RowNotAhead /\ EditInStep /\ OpenAlone

(* A draft row that carries the session's own sequence carries its buffer,   *)
(* so recovery after a kill hands back what the user was looking at. This    *)
(* relates the rollback of a failed mutation, which takes its sequence back, *)
(* to the row the next mutation writes under the same sequence.              *)
RowIsBuffer ==
    cur # None /\ ed.pc = "idle" /\ draft # None /\ draft.seq = sess[cur].seq
        => draft.text = sess[cur].buf

(* No tier 2 write is running and nobody else changed the file since the     *)
(* program read or wrote it: then the recorded revision is the file's, so    *)
(* the next write is not refused. write_locked re-records it before the two  *)
(* statements that can fail for the sake of this.                            *)
BaselineIsDisk ==
    cur # None /\ wlock[cur] = None /\ ~foreign => Hash(disk) = sess[cur].rev

(* `has_unwritten_edits = false` in note_write_status is the truth until the *)
(* session is retired: the buffer is on disk.                                *)
StatusHonest ==
    /\ cur # None /\ ~sess[cur].closed /\ ~sess[cur].unwritten
    /\ ed.pc = "idle" /\ wlock[cur] = None /\ ~foreign
    => disk = sess[cur].buf

(* The check of a tier 2 write passes only over bytes the program has shown  *)
(* its user, in a session that started from the file: what a guest wrote is  *)
(* answered by RevisionMismatch, never overwritten.                          *)
ShownBeforeOverwritten ==
    [][\A w \in Threads :
          wr[w].pc = "check" /\ wr'[w].pc = "write" /\ ~sess[wr[w].s].restored
              => disk \in known]_vars

(* The same of every session, one that started from a draft row included.    *)
GuestBytesSurvive ==
    [][\A w \in Threads :
          wr[w].pc = "check" /\ wr'[w].pc = "write" /\ disk # Absent
              => disk \in known]_vars

(* The conditional clear of the draft row keeps newer work: it removes no    *)
(* row that is the only copy of the text last acknowledged.                  *)
ClearKeepsNewerWork ==
    [][(\E w \in Threads : wr[w].pc \in {"clear", "unstage"} /\ wr'[w] # wr[w])
          /\ draft # None /\ draft' = None /\ draft.text \in Promised
       => disk \in Promised \/ overruled \cap Promised # {}]_vars

(* A close that completes leaves nothing of the program's own writing out of *)
(* history: HEAD records the file, unless the file is a guest's.             *)
CloseCommits ==
    \A w \in Workers :
        wr[w].pc = "remove" /\ ~wr[w].vanished => head = disk \/ byGuest

(* Unwritten work reaches the file, or the session says why it does not, or  *)
(* the session ends.                                                         *)
EventuallyWritten ==
    \A s \in Sessions :
        cur = s /\ ed.pc = "idle" /\ sess[s].unwritten
            ~> cur # s \/ ~sess[s].unwritten \/ sess[s].error

(* The three tiers, their locks and their recovery implement what DurableNote *)
(* promises, as long as no guest changes the file and draft statements do not *)
(* fail: a kill at any step changes nothing that the next open hands back.    *)
Durable ==
    INSTANCE DurableNote WITH
        row       <- IF draft = None THEN None ELSE draft.text,
        file      <- disk,
        recorded  <- head,
        pending   <- IF ed.pc = "idle" THEN None ELSE ed.text,
        told      <- acked,
        seen      <- known,
        reverting <- \E w \in Threads : wr[w].pc = "discard"

KeepsItsPromise == Durable!Spec
=============================================================================
