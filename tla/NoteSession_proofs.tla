------------------------- MODULE NoteSession_proofs -------------------------
(* Proofs about NoteSession for every number of texts, sessions and workers, *)
(* every bound and every setting of the switches; then, under "What          *)
(* survives", about orderly use of it and the refinement of DurableNote.     *)
EXTENDS NoteSession, TLAPS

-----------------------------------------------------------------------------
(* Type correctness. Beside the types it takes two facts about threads: one  *)
(* that is not at rest works for a session, and the editor's call has one.   *)

Working ==
    /\ \A w \in Threads : wr[w].pc # "rest" => wr[w].s \in Sessions
    /\ ed.pc # "idle" => ed.s \in Sessions

TypeInv == TypeOK /\ Working

(* What the helper operators return.                                         *)
LEMMA HashType == \A file \in Files : Hash(file) \in Texts
BY TextsAssumption DEF Hash, Files

LEMMA NoSessionType == NoSession \in SessionState
BY TextsAssumption DEF NoSession, SessionState

LEMMA RollbackType == \A state \in SessionState : RollbackOf(state) \in Rollback
BY DEF RollbackOf, Rollback, SessionState

LEMMA NothingIsSomething == None \notin Texts /\ None \notin Sessions /\ None \notin Threads
                            /\ None # Absent /\ None \notin Files
BY TextsAssumption DEF Threads, Files
(* The sets the types are made of.                                           *)
LEMMA IdleTypes ==
    /\ EditorIdle \in EditorState /\ EditorIdle.pc = "idle"
    /\ AtRest \in ThreadState /\ AtRest.pc = "rest"
BY TextsAssumption, NoSessionType, RollbackType DEF EditorIdle, AtRest, EditorState, ThreadState

LEMMA TypeInit == Init => TypeInv
<1> SUFFICES ASSUME Init PROVE TypeInv
  OBVIOUS
<1>1. disk \in Files /\ head \in Files
  BY DEF Init, Files
<1>2. sess \in [Sessions -> SessionState]
  BY NoSessionType DEF Init
<1>3. wr \in [Threads -> ThreadState] /\ \A w \in Threads : wr[w].pc = "rest"
  BY IdleTypes DEF Init
<1>4. ed \in EditorState /\ ed.pc = "idle"
  BY IdleTypes DEF Init
<1> QED
  BY <1>1, <1>2, <1>3, <1>4 DEF Init, TypeInv, TypeOK, Working

(* The thread of a step that is under way has a session.                     *)
LEMMA AtWork ==
    ASSUME TypeInv, NEW w \in Threads, wr[w].pc # "rest"
    PROVE  wr[w] \in ThreadState /\ wr[w].s \in Sessions /\ sess[wr[w].s] \in SessionState
BY DEF TypeInv, TypeOK, Working

(* The three ways a thread moves: on, to rest, or on with new data.          *)
LEMMA MovesTo ==
    ASSUME TypeInv, NEW w \in Threads, NEW t \in ThreadState, t.pc # "rest" => t.s \in Sessions,
           wr' = [wr EXCEPT ![w] = t], ed' = ed
    PROVE  wr' \in [Threads -> ThreadState] /\ Working'
BY DEF TypeInv, TypeOK, Working

LEMMA MovesOn ==
    ASSUME TypeInv, NEW w \in Threads, wr[w].pc # "rest", ed' = ed,
           NEW pc \in {"check", "write", "record", "clear", "index", "discard", "install",
                       "commit", "unstage", "retire", "remove"},
           Goto(w, pc)
    PROVE  wr' \in [Threads -> ThreadState] /\ Working'
<1> DEFINE t == [wr[w] EXCEPT !.pc = pc]
<1>1. t \in ThreadState /\ t.s \in Sessions
  BY AtWork DEF ThreadState
<1>2. wr' = [wr EXCEPT ![w] = t]
  BY DEF Goto
<1> QED
  BY <1>1, <1>2, MovesTo

LEMMA ComesToRest ==
    ASSUME TypeInv, NEW w \in Threads, ed' = ed, Rest(w)
    PROVE  wr' \in [Threads -> ThreadState] /\ Working'
BY IdleTypes, MovesTo DEF Rest

LEMMA SessionChanges ==
    ASSUME TypeInv, NEW s \in Sessions, NEW t \in SessionState, sess' = [sess EXCEPT ![s] = t]
    PROVE  sess' \in [Sessions -> SessionState]
BY DEF TypeInv, TypeOK

(* A step changes at most one thread, and keeps its state well typed.        *)
LEMMA OpenReadTypes == TypeInv /\ OpenRead => TypeInv'
BY TextsAssumption, BoundsAssumption, NothingIsSomething, HashType, NoSessionType, IdleTypes
   DEF TypeInv, TypeOK, Working, store, locks, history, bounds, OpenRead, Quiet

LEMMA OpenInstallTypes == TypeInv /\ OpenInstall => TypeInv'
<1> SUFFICES ASSUME TypeInv, OpenInstall PROVE TypeInv'
  OBVIOUS
<1>1. opening \in Files /\ Hash(opening) \in Texts
  BY HashType DEF TypeInv, TypeOK, OpenInstall
<1>2. draft # None => draft.seq \in Nat /\ draft.text \in Texts
  BY DEF TypeInv, TypeOK, DraftRow
<1>3. draft = None => opening \in Texts
  BY <1>1 DEF OpenInstall, Files
<1>4. OpenedState \in SessionState
  <2>1. ASSUME NEW text \in Texts, NEW rev \in Texts, NEW seq \in Nat,
               NEW row \in BOOLEAN, NEW gone \in BOOLEAN
        PROVE  [NoSession EXCEPT !.buf = text, !.seq = seq, !.rev = rev, !.restored = row,
                                 !.awaiting = gone, !.edited = row, !.unwritten = row,
                                 !.closed = FALSE] \in SessionState
    <3>1. [NoSession EXCEPT !.buf = text, !.seq = seq, !.rev = rev] \in SessionState
      BY NoSessionType DEF SessionState
    <3>2. \A state \in SessionState :
            [state EXCEPT !.restored = row, !.awaiting = gone] \in SessionState
      BY DEF SessionState
    <3>3. \A state \in SessionState :
            [state EXCEPT !.edited = row, !.unwritten = row, !.closed = FALSE] \in SessionState
      BY DEF SessionState
    <3> QED
      BY <3>1, <3>2, <3>3, Zenon
  <2>2. CASE draft # None
    BY <1>1, <1>2, <2>1, <2>2, Zenon DEF OpenedState
  <2>3. CASE draft = None
    BY <1>1, <1>3, <2>1, <2>3, Zenon DEF OpenedState
  <2> QED
    BY <2>2, <2>3
<1>5. OpenedState.buf \in Texts
  BY <1>4 DEF SessionState
<1>6. PICK s \in Sessions \ opened :
        /\ opened' = opened \cup {s}
        /\ cur' = s
        /\ sess' = [sess EXCEPT ![s] = OpenedState]
        /\ armed' = [armed EXCEPT ![s] = draft # None]
        /\ acked' = OpenedState.buf
        /\ known' = known \cup {OpenedState.buf}
  BY DEF OpenInstall
<1>7. sess' \in [Sessions -> SessionState] /\ armed' \in [Sessions -> BOOLEAN]
  BY <1>4, <1>6 DEF TypeInv, TypeOK
<1>8. foreign' \in BOOLEAN
  BY DEF TypeInv, TypeOK, OpenInstall
<1>9. overruled' \subseteq Texts
  BY <1>3 DEF OpenInstall
<1>10. opening' = None /\ UNCHANGED <<store, locks, ed, wr, byGuest, bounds>>
  BY DEF OpenInstall
<1>11. opened' \subseteq Sessions /\ cur' \in opened'
  BY <1>6 DEF TypeInv, TypeOK
<1>12. acked' \in Texts /\ known' \subseteq Texts
  BY <1>5, <1>6 DEF TypeInv, TypeOK
<1>13. Working'
  BY <1>10 DEF TypeInv, Working
<1>14. UNCHANGED <<disk, draft, head, wlock, tier1, ed, wr, byGuest, guests, crashes>>
  BY <1>10 DEF store, locks, bounds
<1>15. TypeOK'
  BY <1>7, <1>8, <1>9, <1>10, <1>11, <1>12, <1>14, Zenon DEF TypeInv, TypeOK
<1> QED
  BY <1>13, <1>15 DEF TypeInv

LEMMA OpenRefusedTypes == TypeInv /\ OpenRefused => TypeInv'
BY TextsAssumption, BoundsAssumption, NothingIsSomething, HashType, NoSessionType, IdleTypes
   DEF TypeInv, TypeOK, Working, store, locks, history, bounds, OpenRefused

LEMMA EditInstallTypes == \A text \in Texts : TypeInv /\ EditInstall(text) => TypeInv'
<1> SUFFICES ASSUME NEW text \in Texts, TypeInv, EditInstall(text) PROVE TypeInv'
  OBVIOUS
<1> DEFINE t == [sess[cur] EXCEPT !.buf = text, !.seq = @ + 1, !.edited = TRUE, !.unwritten = TRUE]
<1>1. cur \in Sessions /\ sess[cur] \in SessionState
  BY DEF TypeInv, TypeOK, EditInstall
<1>2. t \in SessionState /\ sess[cur].seq + 1 \in Nat
  <2>1. sess[cur].seq + 1 \in Nat
    BY <1>1 DEF SessionState
  <2>2. [sess[cur] EXCEPT !.buf = text, !.seq = @ + 1] \in SessionState
    BY <1>1, <2>1 DEF SessionState
  <2>3. \A state \in SessionState :
          [state EXCEPT !.edited = TRUE, !.unwritten = TRUE] \in SessionState
    BY DEF SessionState
  <2> QED
    BY <2>1, <2>2, <2>3, Zenon
<1>3. sess' = [sess EXCEPT ![cur] = t]
  BY <1>1 DEF EditInstall, TypeInv, TypeOK
<1>4. ed' \in EditorState /\ ed'.s = cur
  BY <1>1, <1>2, RollbackType DEF EditInstall, EditorState
<1>5. known' \subseteq Texts /\ overruled' \subseteq Texts
  BY DEF EditInstall, TypeInv, TypeOK
<1>6. UNCHANGED <<store, opened, cur, locks, armed, opening, wr, acked, byGuest, foreign, bounds>>
  BY DEF EditInstall
<1>7. sess' \in [Sessions -> SessionState]
  BY <1>1, <1>2, <1>3, SessionChanges
<1>8. Working'
  BY <1>1, <1>4, <1>6 DEF TypeInv, Working
<1> QED
  BY <1>4, <1>5, <1>6, <1>7, <1>8 DEF TypeInv, TypeOK, store, locks, bounds

LEMMA EditDraftTypes == TypeInv /\ EditDraft => TypeInv'
BY TextsAssumption, BoundsAssumption, NothingIsSomething, HashType, NoSessionType, IdleTypes
   DEF TypeInv, TypeOK, Working, store, locks, history, bounds, EditDraft, WriteDraft, Row, DraftRow, Acknowledge, EditorState

LEMMA EditDraftFailsTypes == TypeInv /\ EditDraftFails => TypeInv'
BY TextsAssumption, BoundsAssumption, NothingIsSomething, HashType, NoSessionType, IdleTypes
   DEF TypeInv, TypeOK, Working, store, locks, history, bounds, EditDraftFails, EditorState

LEMMA EditRetainTypes == TypeInv /\ EditRetain => TypeInv'
BY TextsAssumption, BoundsAssumption, NothingIsSomething, HashType, NoSessionType, IdleTypes
   DEF TypeInv, TypeOK, Working, store, locks, history, bounds, EditRetain, Acknowledge, EditorState

LEMMA EditUndoTypes == TypeInv /\ EditUndo => TypeInv'
BY TextsAssumption, BoundsAssumption, NothingIsSomething, HashType, NoSessionType, IdleTypes
   DEF TypeInv, TypeOK, Working, store, locks, history, bounds, EditUndo, EditorState, Rollback, SessionState

LEMMA TimerFiresTypes == \A s \in Sessions : TypeInv /\ TimerFires(s) => TypeInv'
<1> SUFFICES ASSUME NEW s \in Sessions, TypeInv, TimerFires(s) PROVE TypeInv'
  OBVIOUS
<1>1. sess' \in [Sessions -> SessionState]
  BY NoSessionType DEF TypeInv, TypeOK, Working, Threads, ThreadState, TimerFires, SessionState
<1>2. wr' \in [Threads -> ThreadState]
  BY IdleTypes DEF TypeInv, TypeOK, Working, SessionState, Files, TimerFires, AtRest, ThreadState, Threads
<1>3. Working'
  BY IdleTypes DEF TypeInv, TypeOK, Working, TimerFires, AtRest, ThreadState, Threads
<1> QED
  BY <1>1, <1>2, <1>3, NothingIsSomething DEF TypeInv, TypeOK, Working, store, locks, history, bounds, ThreadState, TimerFires

LEMMA CallTypes ==
    \A w \in Workers, call \in {"flush", "reload", "close"} : TypeInv /\ Call(w, call) => TypeInv'
<1> SUFFICES ASSUME NEW w \in Workers, NEW call \in {"flush", "reload", "close"},
                    TypeInv, Call(w, call)
             PROVE  TypeInv'
  OBVIOUS
<1> DEFINE new == [AtRest EXCEPT !.pc = call, !.call = call, !.s = cur]
<1>1. cur \in Sessions
  BY DEF TypeInv, TypeOK, Call
<1>2. new \in ThreadState /\ new.s \in Sessions
  BY <1>1, IdleTypes, Zenon DEF ThreadState
<1>3. wr' = [wr EXCEPT ![w] = new] /\ UNCHANGED <<sess, ed>>
  BY DEF Call
<1>4. wr' \in [Threads -> ThreadState] /\ Working'
  BY <1>2, <1>3 DEF TypeInv, TypeOK, Working, Threads
<1> QED
  BY <1>4 DEF TypeInv, TypeOK, store, locks, history, bounds, Call

LEMMA FlushSnapshotTypes == \A w \in Threads : TypeInv /\ FlushSnapshot(w) => TypeInv'
<1> SUFFICES ASSUME NEW w \in Threads, TypeInv, FlushSnapshot(w) PROVE TypeInv'
  OBVIOUS
<1>1. wr[w] \in ThreadState /\ wr[w].s \in Sessions /\ sess[wr[w].s] \in SessionState
  BY AtWork DEF FlushSnapshot
<1>2. wr' \in [Threads -> ThreadState] /\ Working'
  <2> DEFINE t == [wr[w] EXCEPT !.pc = "check", !.text = sess[wr[w].s].buf,
                             !.seq = sess[wr[w].s].seq, !.rev = sess[wr[w].s].rev]
  <2>1. t \in ThreadState /\ t.s \in Sessions
    BY <1>1 DEF ThreadState, SessionState
  <2>2. wr' = [wr EXCEPT ![w] = t] /\ ed' = ed
    BY <1>1 DEF FlushSnapshot, TypeInv, TypeOK
  <2> QED
    BY <2>1, <2>2, MovesTo
<1> QED
  BY <1>1, <1>2, NothingIsSomething, Zenon DEF TypeInv, TypeOK, store, locks, history, bounds, FlushSnapshot, ThreadState

LEMMA FlushClosedTypes == \A w \in Threads : TypeInv /\ FlushClosed(w) => TypeInv'
<1> SUFFICES ASSUME NEW w \in Threads, TypeInv, FlushClosed(w) PROVE TypeInv'
  OBVIOUS
<1>1. wr[w] \in ThreadState /\ wr[w].s \in Sessions /\ sess[wr[w].s] \in SessionState
  BY AtWork DEF FlushClosed
<1>2. UNCHANGED <<store, opened, cur, sess, locks, armed, opening, ed, history, bounds>>
  BY DEF FlushClosed
<1>3. wr' \in [Threads -> ThreadState] /\ Working'
  <2>1. CASE wr[w].call = "close"
    <3> DEFINE t == [wr[w] EXCEPT !.pc = "commit", !.seq = sess[wr[w].s].seq]
    <3>1. t \in ThreadState /\ t.s \in Sessions
      BY <1>1 DEF ThreadState, SessionState
    <3>2. wr' = [wr EXCEPT ![w] = t]
      BY <1>1, <2>1 DEF FlushClosed, TypeInv, TypeOK
    <3> QED
      BY <1>2, <3>1, <3>2, MovesTo
  <2>2. CASE wr[w].call # "close"
    BY <1>2, <2>2, ComesToRest DEF FlushClosed
  <2> QED
    BY <2>1, <2>2
<1> QED
  BY <1>2, <1>3 DEF TypeInv, TypeOK, store, locks, history, bounds

LEMMA FlushCheckTypes == \A w \in Threads : TypeInv /\ FlushCheck(w) => TypeInv'
BY TextsAssumption, BoundsAssumption, NothingIsSomething, HashType, NoSessionType, IdleTypes
   DEF TypeInv, TypeOK, Working, store, locks, history, bounds, FlushCheck, Goto, ThreadState

LEMMA FlushWriteTypes == \A w \in Threads : TypeInv /\ FlushWrite(w) => TypeInv'
<1> SUFFICES ASSUME NEW w \in Threads, TypeInv, FlushWrite(w) PROVE TypeInv'
  OBVIOUS
<1>1. sess' \in [Sessions -> SessionState]
  BY NoSessionType DEF TypeInv, TypeOK, Working, Threads, ThreadState, FlushWrite, SessionState
<1>2. wr' \in [Threads -> ThreadState] /\ Working'
  BY MovesOn DEF FlushWrite
<1>3. disk' \in Files /\ byGuest' \in BOOLEAN /\ foreign' \in BOOLEAN
  BY DEF FlushWrite, TypeInv, TypeOK, ThreadState, Files
<1> QED
  BY <1>1, <1>2, <1>3 DEF TypeInv, TypeOK, locks, bounds, FlushWrite

LEMMA FlushRecordTypes == \A w \in Threads : TypeInv /\ FlushRecord(w) => TypeInv'
<1> SUFFICES ASSUME NEW w \in Threads, TypeInv, FlushRecord(w) PROVE TypeInv'
  OBVIOUS
<1>1. wr[w] \in ThreadState /\ wr[w].s \in Sessions /\ sess[wr[w].s] \in SessionState
  BY AtWork DEF FlushRecord
<1>2. wr' \in [Threads -> ThreadState] /\ Working'
  BY <1>1, MovesOn DEF FlushRecord
<1>3. sess' \in [Sessions -> SessionState]
  <2> DEFINE t == [sess[wr[w].s] EXCEPT !.rev = wr[w].text, !.awaiting = FALSE]
  <2>1. t \in SessionState
    BY <1>1, HashType DEF SessionState, ThreadState
  <2>2. sess' = [sess EXCEPT ![wr[w].s] = t]
    BY <1>1 DEF FlushRecord, TypeInv, TypeOK
  <2> QED
    BY <1>1, <2>1, <2>2, SessionChanges
<1> QED
  BY <1>1, <1>2, <1>3, NothingIsSomething DEF TypeInv, TypeOK, store, locks, history, bounds, FlushRecord, ThreadState

LEMMA FlushClearTypes == \A w \in Threads : TypeInv /\ FlushClear(w) => TypeInv'
BY TextsAssumption, BoundsAssumption, NothingIsSomething, HashType, NoSessionType, IdleTypes
   DEF TypeInv, TypeOK, Working, store, locks, history, bounds, FlushClear, Goto, ClearThrough, ThreadState

LEMMA FlushSettleTypes == \A w \in Threads : TypeInv /\ FlushSettle(w) => TypeInv'
<1> SUFFICES ASSUME NEW w \in Threads, TypeInv, FlushSettle(w) PROVE TypeInv'
  OBVIOUS
<1>1. wr[w] \in ThreadState /\ wr[w].s \in Sessions /\ sess[wr[w].s] \in SessionState
  BY AtWork DEF FlushSettle
<1>2. wr' \in [Threads -> ThreadState] /\ Working'
  BY <1>1, MovesOn, ComesToRest DEF FlushSettle, AfterFlush
<1>3. sess' \in [Sessions -> SessionState]
  <2> DEFINE flag == sess[wr[w].s].seq > wr[w].seq
  <2> DEFINE t == [sess[wr[w].s] EXCEPT !.error = FALSE,
                                   !.unwritten = flag]
  <2>0. flag \in BOOLEAN
    OBVIOUS
  <2>1. t \in SessionState
    <3> HIDE DEF flag
    <3> QED
      BY <1>1, <2>0 DEF SessionState, ThreadState
  <2>2. sess' = [sess EXCEPT ![wr[w].s] = t]
    BY <1>1 DEF FlushSettle, TypeInv, TypeOK
  <2> QED
    BY <1>1, <2>1, <2>2, SessionChanges
<1> QED
  BY <1>1, <1>2, <1>3, NothingIsSomething DEF TypeInv, TypeOK, store, locks, history, bounds, FlushSettle, ThreadState

LEMMA FlushFailsTypes == \A w \in Threads : TypeInv /\ FlushFails(w) => TypeInv'
<1> SUFFICES ASSUME NEW w \in Threads, TypeInv, FlushFails(w) PROVE TypeInv'
  OBVIOUS
<1>1. wr[w] \in ThreadState /\ wr[w].s \in Sessions /\ sess[wr[w].s] \in SessionState
  BY AtWork DEF FlushFails, FlushError
<1>2. wr' \in [Threads -> ThreadState] /\ Working'
  <2>1. CASE Rest(w)
    BY <2>1, ComesToRest DEF FlushFails
  <2>2. CASE wr' = [wr EXCEPT ![w].pc = "retire", ![w].vanished = TRUE]
    <3> DEFINE t == [wr[w] EXCEPT !.pc = "retire", !.vanished = TRUE]
    <3>1. t \in ThreadState /\ t.s \in Sessions
      BY <1>1 DEF ThreadState
    <3>2. wr' = [wr EXCEPT ![w] = t] /\ ed' = ed
      BY <1>1, <2>2 DEF FlushFails, TypeInv, TypeOK
    <3> QED
      BY <3>1, <3>2, MovesTo
  <2> QED
    BY <2>1, <2>2 DEF FlushFails
<1>3. sess' \in [Sessions -> SessionState]
  <2> DEFINE t == [sess[wr[w].s] EXCEPT !.error = TRUE]
  <2>1. t \in SessionState
    BY <1>1, HashType DEF SessionState, ThreadState
  <2>2. sess' = [sess EXCEPT ![wr[w].s] = t]
    BY <1>1 DEF FlushFails, TypeInv, TypeOK
  <2> QED
    BY <1>1, <2>1, <2>2, SessionChanges
<1> QED
  BY <1>1, <1>2, <1>3, NothingIsSomething DEF TypeInv, TypeOK, store, locks, history, bounds, FlushFails, ThreadState

LEMMA ReloadReadTypes == \A w \in Threads : TypeInv /\ ReloadRead(w) => TypeInv'
BY TextsAssumption, BoundsAssumption, NothingIsSomething, HashType, NoSessionType, IdleTypes
   DEF TypeInv, TypeOK, Working, store, locks, history, bounds, ReloadRead, Rest, ThreadState, Files

LEMMA ReloadDiscardTypes == \A w \in Threads : TypeInv /\ ReloadDiscard(w) => TypeInv'
BY TextsAssumption, BoundsAssumption, NothingIsSomething, HashType, NoSessionType, IdleTypes
   DEF TypeInv, TypeOK, Working, store, locks, history, bounds, ReloadDiscard, Goto, ThreadState

LEMMA ReloadFailsTypes == \A w \in Threads : TypeInv /\ ReloadFails(w) => TypeInv'
<1> SUFFICES ASSUME NEW w \in Threads, TypeInv, ReloadFails(w) PROVE TypeInv'
  OBVIOUS
<1>1. sess' \in [Sessions -> SessionState]
  BY NoSessionType DEF TypeInv, TypeOK, Working, Threads, ThreadState, ReloadFails, SessionState
<1>2. wr' \in [Threads -> ThreadState]
  BY IdleTypes DEF TypeInv, TypeOK, Working, SessionState, Files, ReloadFails, Rest, ThreadState
<1>3. Working'
  BY IdleTypes DEF TypeInv, TypeOK, Working, ReloadFails, Rest, ThreadState
<1> QED
  BY <1>1, <1>2, <1>3, NothingIsSomething DEF TypeInv, TypeOK, Working, store, locks, history, bounds, ThreadState, ReloadFails

LEMMA ReloadInstallTypes == \A w \in Threads : TypeInv /\ ReloadInstall(w) => TypeInv'
<1> SUFFICES ASSUME NEW w \in Threads, TypeInv, ReloadInstall(w) PROVE TypeInv'
  OBVIOUS
<1>1. wr[w] \in ThreadState /\ wr[w].s \in Sessions /\ sess[wr[w].s] \in SessionState
  BY AtWork DEF ReloadInstall
<1>2. wr' \in [Threads -> ThreadState] /\ Working'
  BY <1>1, ComesToRest DEF ReloadInstall
<1>3. sess' \in [Sessions -> SessionState]
  <2> DEFINE flag == wr[w].text \in Conflicts
  <2> DEFINE t == [sess[wr[w].s] EXCEPT !.buf = wr[w].text, !.rev = wr[w].text,
         !.awaiting = FALSE, !.restored = FALSE, !.unwritten = FALSE,
         !.conflicted = flag, !.error = FALSE]
  <2>0. flag \in BOOLEAN
    OBVIOUS
  <2>1. t \in SessionState
    <3> HIDE DEF flag
    <3> QED
      BY <1>1, <2>0 DEF SessionState, ThreadState
  <2>2. sess' = [sess EXCEPT ![wr[w].s] = t]
    BY <1>1 DEF ReloadInstall, TypeInv, TypeOK
  <2> QED
    BY <1>1, <2>1, <2>2, SessionChanges
<1> QED
  BY <1>1, <1>2, <1>3, NothingIsSomething DEF TypeInv, TypeOK, store, locks, history, bounds, ReloadInstall, ThreadState

LEMMA CloseBeginTypes == \A w \in Threads : TypeInv /\ CloseBegin(w) => TypeInv'
<1> SUFFICES ASSUME NEW w \in Threads, TypeInv, CloseBegin(w) PROVE TypeInv'
  OBVIOUS
<1>1. wr[w] \in ThreadState /\ wr[w].s \in Sessions /\ sess[wr[w].s] \in SessionState
  BY AtWork DEF CloseBegin
<1>2. wr' \in [Threads -> ThreadState] /\ Working'
  <2> DEFINE edited == sess[wr[w].s].edited
             to == IF edited \/ sess[wr[w].s].unwritten THEN "flush" ELSE "retire"
             t == [wr[w] EXCEPT !.edited = edited, !.pc = to]
  <2>1. t \in ThreadState /\ t.s \in Sessions
    BY <1>1 DEF ThreadState, SessionState
  <2>2. wr' = [wr EXCEPT ![w] = t] /\ ed' = ed
    BY <1>1 DEF CloseBegin, TypeInv, TypeOK
  <2> QED
    BY <2>1, <2>2, MovesTo
<1> QED
  BY <1>2 DEF TypeInv, TypeOK, store, locks, history, bounds, CloseBegin

LEMMA CloseCommitTypes == \A w \in Threads : TypeInv /\ CloseCommit(w) => TypeInv'
<1> SUFFICES ASSUME NEW w \in Threads, TypeInv, CloseCommit(w) PROVE TypeInv'
  OBVIOUS
<1>1. wr[w] \in ThreadState /\ wr[w].s \in Sessions /\ sess[wr[w].s] \in SessionState
  BY AtWork DEF CloseCommit
<1>2. wr' \in [Threads -> ThreadState] /\ Working'
  BY <1>1, MovesOn DEF CloseCommit
<1> QED
  BY <1>1, <1>2, NothingIsSomething DEF TypeInv, TypeOK, store, locks, history, bounds, CloseCommit, ThreadState

LEMMA CloseCommitFailsTypes == \A w \in Threads : TypeInv /\ CloseCommitFails(w) => TypeInv'
BY TextsAssumption, BoundsAssumption, NothingIsSomething, HashType, NoSessionType, IdleTypes
   DEF TypeInv, TypeOK, Working, store, locks, history, bounds, CloseCommitFails, Goto, ThreadState

LEMMA CloseClearTypes == \A w \in Threads : TypeInv /\ CloseClear(w) => TypeInv'
BY TextsAssumption, BoundsAssumption, NothingIsSomething, HashType, NoSessionType, IdleTypes
   DEF TypeInv, TypeOK, Working, store, locks, history, bounds, CloseClear, Goto, ThreadState, ClearThrough

LEMMA CloseRetireTypes == \A w \in Threads : TypeInv /\ CloseRetire(w) => TypeInv'
<1> SUFFICES ASSUME NEW w \in Threads, TypeInv, CloseRetire(w) PROVE TypeInv'
  OBVIOUS
<1>1. wr[w] \in ThreadState /\ wr[w].s \in Sessions /\ sess[wr[w].s] \in SessionState
  BY AtWork DEF CloseRetire
<1>2. wr' \in [Threads -> ThreadState] /\ Working'
  BY <1>1, MovesOn DEF CloseRetire
<1>3. sess' \in [Sessions -> SessionState]
  <2> DEFINE t == [sess[wr[w].s] EXCEPT !.closed = TRUE, !.edited = FALSE,
                                   !.unwritten = wr[w].vanished]
  <2>1. t \in SessionState
    BY <1>1, HashType DEF SessionState, ThreadState
  <2>2. sess' = [sess EXCEPT ![wr[w].s] = t]
    BY <1>1 DEF CloseRetire, TypeInv, TypeOK
  <2> QED
    BY <1>1, <2>1, <2>2, SessionChanges
<1> QED
  BY <1>1, <1>2, <1>3, NothingIsSomething DEF TypeInv, TypeOK, store, locks, history, bounds, CloseRetire, ThreadState

LEMMA CloseRemoveTypes == \A w \in Threads : TypeInv /\ CloseRemove(w) => TypeInv'
BY TextsAssumption, BoundsAssumption, NothingIsSomething, HashType, NoSessionType, IdleTypes
   DEF TypeInv, TypeOK, Working, store, locks, history, bounds, CloseRemove, Rest

LEMMA GuestChangesTypes == \A file \in Files : TypeInv /\ GuestChanges(file) => TypeInv'
BY TextsAssumption, BoundsAssumption, NothingIsSomething, HashType, NoSessionType, IdleTypes
   DEF TypeInv, TypeOK, Working, store, locks, history, bounds, GuestChanges, Files, Promised, EditorState

LEMMA CrashTypes == TypeInv /\ Crash => TypeInv'
BY TextsAssumption, BoundsAssumption, NothingIsSomething, HashType, NoSessionType, IdleTypes
   DEF TypeInv, TypeOK, Working, store, locks, history, bounds, Crash, EditorState, Files

(* A step of the editor, of a worker, of a timer, of a guest or a crash.     *)
LEMMA TypeNext == TypeInv /\ [Next]_vars => TypeInv'
<1> SUFFICES ASSUME TypeInv, [Next]_vars PROVE TypeInv'
  OBVIOUS
<1>1. CASE Open
  BY <1>1, OpenReadTypes, OpenInstallTypes, OpenRefusedTypes DEF Open
<1>2. CASE \E text \in Texts : EditInstall(text)
  BY <1>2, EditInstallTypes
<1>3. CASE EditSettles
  BY <1>3, EditDraftTypes, EditDraftFailsTypes, EditRetainTypes, EditUndoTypes DEF EditSettles
<1>4. CASE \E s \in Sessions : TimerFires(s)
  BY <1>4, TimerFiresTypes
<1>5. CASE \E w \in Workers, call \in {"flush", "reload", "close"} : Call(w, call)
  BY <1>5, CallTypes
<1>6. CASE \E w \in Threads : Thread(w)
  <2>1. PICK w \in Threads : Flush(w) \/ Reload(w) \/ Close(w)
    BY <1>6 DEF Thread
  <2>2. CASE Flush(w)
    BY <2>2, FlushSnapshotTypes, FlushClosedTypes, FlushCheckTypes, FlushWriteTypes,
       FlushRecordTypes, FlushClearTypes, FlushSettleTypes, FlushFailsTypes DEF Flush
  <2>3. CASE Reload(w)
    BY <2>3, ReloadReadTypes, ReloadDiscardTypes, ReloadFailsTypes, ReloadInstallTypes DEF Reload
  <2>4. CASE Close(w)
    BY <2>4, CloseBeginTypes, CloseCommitTypes, CloseCommitFailsTypes, CloseClearTypes,
       CloseRetireTypes, CloseRemoveTypes DEF Close
  <2> QED
    BY <2>1, <2>2, <2>3, <2>4
<1>7. CASE \E file \in Files : GuestChanges(file)
  BY <1>7, GuestChangesTypes
<1>8. CASE Crash
  BY <1>8, CrashTypes
<1>9. CASE UNCHANGED vars
  BY <1>9 DEF TypeInv, TypeOK, Working, vars, store, locks, history, bounds
<1> QED
  BY <1>1, <1>2, <1>3, <1>4, <1>5, <1>6, <1>7, <1>8, <1>9 DEF Next

(* Every variable keeps its type: in particular no session's revision is the *)
(* absent file, and every thread at work has a session to work on.           *)
THEOREM TypeCorrect == Spec => []TypeInv
BY TypeInit, TypeNext, PTL DEF Spec

THEOREM TypesHold == Spec => []TypeOK
<1>1. TypeInv => TypeOK
  BY DEF TypeInv
<1> QED
  BY <1>1, TypeCorrect, PTL

-----------------------------------------------------------------------------
(* What each step does to its thread and to the sessions, without EXCEPT:    *)
(* the proofs below work from these facts.                                   *)

(* The other threads stay put; a thread moves on, with or without its work  *)
(* in hand, or comes to rest.                                               *)
Others(w) == \A v \in Threads \ {w} : wr'[v] = wr[v]

Becomes(w, pc) ==
    /\ wr'[w].pc = pc /\ wr'[w].call = wr[w].call /\ wr'[w].s = wr[w].s
    /\ Others(w)

KeepsWork(w) ==
    wr'[w].text = wr[w].text /\ wr'[w].seq = wr[w].seq /\ wr'[w].rev = wr[w].rev

Rests(w) == wr'[w] = AtRest /\ Others(w)

(* The two assignments the actions are written with do this.                *)
LEMMA RestRests == ASSUME TypeInv, NEW w \in Threads, Rest(w) PROVE Rests(w)
BY DEF Rest, Rests, Others, TypeInv, TypeOK

LEMMA GotoBecomes ==
    ASSUME TypeInv, NEW w \in Threads, NEW pc, Goto(w, pc)
    PROVE  Becomes(w, pc) /\ KeepsWork(w)
BY DEF Goto, Becomes, KeepsWork, Others, TypeInv, TypeOK, ThreadState

(* One lemma per action that does more than Goto or Rest: its thread after  *)
(* the step, and the one session it touches.                                *)
LEMMA SnapshotEffect ==
    ASSUME TypeInv, NEW w \in Threads, FlushSnapshot(w)
    PROVE  /\ Becomes(w, "check")
           /\ wr'[w].text = sess[wr[w].s].buf
           /\ wr'[w].seq = sess[wr[w].s].seq
           /\ wr'[w].rev = sess[wr[w].s].rev
BY AtWork DEF FlushSnapshot, Becomes, KeepsWork, Others, TypeInv, TypeOK, ThreadState

LEMMA ClosedEffect ==
    ASSUME TypeInv, NEW w \in Threads, FlushClosed(w)
    PROVE  IF wr[w].call = "close"
           THEN Becomes(w, "commit") /\ wr'[w].seq = sess[wr[w].s].seq
           ELSE Rests(w)
BY AtWork, RestRests DEF FlushClosed, Becomes, KeepsWork, Others, TypeInv, TypeOK, ThreadState

SameSessionsBut(s) == \A t \in Sessions \ {s} : sess'[t] = sess[t]

LEMMA RecordEffect ==
    ASSUME TypeInv, NEW w \in Threads, FlushRecord(w)
    PROVE  /\ Becomes(w, "clear") /\ KeepsWork(w)
           /\ SameSessionsBut(wr[w].s)
           /\ sess'[wr[w].s] = [sess[wr[w].s] EXCEPT !.rev = wr[w].text, !.awaiting = FALSE]
BY AtWork, GotoBecomes DEF FlushRecord, SameSessionsBut, TypeInv, TypeOK

LEMMA SettleEffect ==
    ASSUME TypeInv, NEW w \in Threads, FlushSettle(w)
    PROVE  /\ IF wr[w].call = "close" THEN Becomes(w, "commit") /\ KeepsWork(w) ELSE Rests(w)
           /\ SameSessionsBut(wr[w].s)
           /\ \E late \in BOOLEAN :
                sess'[wr[w].s] = [sess[wr[w].s] EXCEPT !.error = FALSE, !.unwritten = late]
<1>1. IF wr[w].call = "close" THEN Becomes(w, "commit") /\ KeepsWork(w) ELSE Rests(w)
  BY GotoBecomes, RestRests DEF FlushSettle, AfterFlush
<1>2. wr[w].s \in Sessions /\ sess[wr[w].s] \in SessionState
  BY AtWork DEF FlushSettle
<1> DEFINE late == sess[wr[w].s].seq > wr[w].seq
<1>3. late \in BOOLEAN /\ sess' = [sess EXCEPT ![wr[w].s].error = FALSE, ![wr[w].s].unwritten = late]
  BY <1>2 DEF FlushSettle
<1> HIDE DEF late
<1>4. sess'[wr[w].s] = [sess[wr[w].s] EXCEPT !.error = FALSE, !.unwritten = late]
  BY <1>2, <1>3 DEF TypeInv, TypeOK
<1>5. SameSessionsBut(wr[w].s)
  BY <1>3 DEF SameSessionsBut, TypeInv, TypeOK
<1> QED
  BY <1>1, <1>3, <1>4, <1>5, Zenon

LEMMA FailsEffect ==
    ASSUME TypeInv, NEW w \in Threads, FlushFails(w)
    PROVE  /\ IF wr[w].call = "close" /\ wr[w].pc = "check" /\ Missing(wr[w].s)
              THEN Becomes(w, "retire") ELSE Rests(w)
           /\ SameSessionsBut(wr[w].s)
           /\ sess'[wr[w].s] = [sess[wr[w].s] EXCEPT !.error = TRUE]
           /\ wr[w].pc \in {"check", "write", "clear", "index"}
<1>1. wr[w].pc # "rest" /\ wr[w].pc \in {"check", "write", "clear", "index"}
  BY DEF FlushFails, FlushError
<1>2. SameSessionsBut(wr[w].s) /\ sess'[wr[w].s] = [sess[wr[w].s] EXCEPT !.error = TRUE]
  BY <1>1, AtWork DEF FlushFails, SameSessionsBut, TypeInv, TypeOK
<1>3. CASE wr[w].call = "close" /\ wr[w].pc = "check" /\ Missing(wr[w].s)
  <2>1. wr' = [wr EXCEPT ![w].pc = "retire", ![w].vanished = TRUE]
    BY <1>3 DEF FlushFails
  <2>2. Becomes(w, "retire")
    BY <2>1, <1>1, AtWork DEF Becomes, Others, TypeInv, TypeOK, ThreadState
  <2> QED
    BY <1>1, <1>2, <1>3, <2>2
<1>4. CASE ~(wr[w].call = "close" /\ wr[w].pc = "check" /\ Missing(wr[w].s))
  BY <1>1, <1>2, <1>4, RestRests DEF FlushFails
<1> QED
  BY <1>3, <1>4

LEMMA ReadEffect ==
    ASSUME TypeInv, NEW w \in Threads, ReloadRead(w)
    PROVE  IF disk = Absent THEN Rests(w) ELSE Becomes(w, "discard") /\ wr'[w].text = disk
BY AtWork, RestRests DEF ReloadRead, Becomes, Others, TypeInv, TypeOK, ThreadState

LEMMA InstallEffect ==
    ASSUME TypeInv, NEW w \in Threads, ReloadInstall(w)
    PROVE  /\ Rests(w)
           /\ SameSessionsBut(wr[w].s)
           /\ \E conflicted \in BOOLEAN :
                sess'[wr[w].s] = [sess[wr[w].s] EXCEPT
                    !.buf = wr[w].text, !.rev = wr[w].text, !.awaiting = FALSE,
                    !.restored = FALSE, !.unwritten = FALSE, !.conflicted = conflicted,
                    !.error = FALSE]
<1>1. wr[w].s \in Sessions /\ sess[wr[w].s] \in SessionState
  BY AtWork DEF ReloadInstall
<1> DEFINE s == wr[w].s
           text == wr[w].text
           conflicted == text \in Conflicts
<1>a. conflicted \in BOOLEAN
  OBVIOUS
<1>2. sess' = [sess EXCEPT ![s].buf = text, ![s].rev = text, ![s].awaiting = FALSE,
                           ![s].restored = FALSE, ![s].unwritten = FALSE,
                           ![s].conflicted = conflicted, ![s].error = FALSE]
  BY Zenon DEF ReloadInstall
<1>3. Rests(w)
  BY RestRests DEF ReloadInstall
<1>b. s = wr[w].s
  OBVIOUS
<1> HIDE DEF s, conflicted, text
<1>4. SameSessionsBut(wr[w].s)
  BY <1>2, <1>b DEF SameSessionsBut, TypeInv, TypeOK
<1>5. sess'[wr[w].s] = [sess[wr[w].s] EXCEPT
            !.buf = text, !.rev = text, !.awaiting = FALSE, !.restored = FALSE,
            !.unwritten = FALSE, !.conflicted = conflicted, !.error = FALSE]
  BY <1>1, <1>2, <1>b DEF TypeInv, TypeOK
<1> QED
  BY <1>a, <1>3, <1>4, <1>5, Zenon DEF text

LEMMA BeginEffect ==
    ASSUME TypeInv, NEW w \in Threads, CloseBegin(w)
    PROVE  KeepsWork(w) /\ (Becomes(w, "flush") \/ Becomes(w, "retire"))
<1> DEFINE edited == sess[wr[w].s].edited
           to == IF edited \/ sess[wr[w].s].unwritten THEN "flush" ELSE "retire"
<1>1. wr[w].s \in Sessions /\ wr[w] \in ThreadState
  BY AtWork DEF CloseBegin
<1>2. wr' = [wr EXCEPT ![w].edited = edited, ![w].pc = to] /\ to \in {"flush", "retire"}
  BY DEF CloseBegin
<1> HIDE DEF edited, to
<1>3. KeepsWork(w) /\ Becomes(w, to)
  BY <1>1, <1>2 DEF KeepsWork, Becomes, Others, TypeInv, TypeOK, ThreadState
<1> QED
  BY <1>2, <1>3

LEMMA RetireEffect ==
    ASSUME TypeInv, NEW w \in Threads, CloseRetire(w)
    PROVE  /\ Becomes(w, "remove")
           /\ SameSessionsBut(wr[w].s)
           /\ sess'[wr[w].s] = [sess[wr[w].s] EXCEPT !.closed = TRUE, !.edited = FALSE,
                                                     !.unwritten = wr[w].vanished]
BY AtWork, GotoBecomes DEF CloseRetire, SameSessionsBut, TypeInv, TypeOK

LEMMA TimerEffect ==
    ASSUME TypeInv, NEW s \in Sessions, TimerFires(s)
    PROVE  /\ Others(s) /\ s \in Threads
           /\ wr'[s].pc = "flush" /\ wr'[s].call = "timer" /\ wr'[s].s = s
           /\ wr[s].pc = "rest"
BY IdleTypes DEF TimerFires, Others, Threads, TypeInv, TypeOK, AtRest, ThreadState

LEMMA CallEffect ==
    ASSUME TypeInv, NEW w \in Workers, NEW call \in {"flush", "reload", "close"}, Call(w, call)
    PROVE  /\ Others(w) /\ w \in Threads
           /\ wr'[w].pc = call /\ wr'[w].call = call /\ wr'[w].s = cur
           /\ wr[w].pc = "rest" /\ cur \in Sessions
BY IdleTypes DEF Call, Others, Threads, TypeInv, TypeOK, AtRest, ThreadState

LEMMA EditEffect ==
    ASSUME TypeInv, NEW text \in Texts, EditInstall(text)
    PROVE  /\ cur \in Sessions /\ sess[cur] \in SessionState
           /\ SameSessionsBut(cur)
           /\ sess'[cur] = [sess[cur] EXCEPT !.buf = text, !.seq = @ + 1,
                                             !.edited = TRUE, !.unwritten = TRUE]
           /\ ed'.pc = "draft" /\ ed'.s = cur /\ ed'.text = text /\ ed'.seq = sess[cur].seq + 1
           /\ ed'.prev.seq = sess[cur].seq /\ ed'.prev.buf = sess[cur].buf
BY DEF EditInstall, RollbackOf, SameSessionsBut, TypeInv, TypeOK

LEMMA UndoEffect ==
    ASSUME TypeInv, EditUndo
    PROVE  /\ ed.s \in Sessions /\ SameSessionsBut(ed.s) /\ ed' = EditorIdle
           /\ sess'[ed.s] = [sess[ed.s] EXCEPT !.buf = ed.prev.buf, !.seq = ed.prev.seq,
                                               !.edited = ed.prev.edited,
                                               !.unwritten = ed.prev.unwritten]
BY Zenon DEF EditUndo, SameSessionsBut, TypeInv, TypeOK, Working

LEMMA OpenEffect ==
    ASSUME TypeInv, OpenInstall
    PROVE  /\ cur' \in Sessions \ opened /\ opened' = opened \cup {cur'}
           /\ SameSessionsBut(cur') /\ sess'[cur'] = OpenedState
           /\ acked' = OpenedState.buf /\ known' = known \cup {OpenedState.buf}
           /\ \A s \in Sessions \ {cur'} : armed'[s] = armed[s]
BY DEF OpenInstall, SameSessionsBut, TypeInv, TypeOK

(* Any step of a thread: it is for a session, it moves that thread only,    *)
(* and it opens nothing, edits nothing and arms nothing.                    *)
LEMMA ThreadStep ==
    ASSUME TypeInv, NEW w \in Threads, Thread(w)
    PROVE  /\ wr[w].pc # "rest" /\ wr[w].s \in Sessions
           /\ Rests(w) \/ \E pc : Becomes(w, pc)
           /\ UNCHANGED <<opened, ed, opening, armed>>
           /\ cur' \in {cur, None}
<1>1. UNCHANGED <<opened, ed, opening, armed>>
  BY Zenon DEF Thread, Flush, Reload, Close, FlushSnapshot, FlushClosed, FlushCheck, FlushWrite,
         FlushRecord, FlushClear, FlushSettle, FlushFails, ReloadRead, ReloadDiscard,
         ReloadFails, ReloadInstall, CloseBegin, CloseCommit, CloseCommitFails, CloseClear,
         CloseRetire, CloseRemove
<1>2. cur' \in {cur, None}
  BY Zenon DEF Thread, Flush, Reload, Close, FlushSnapshot, FlushClosed, FlushCheck, FlushWrite,
         FlushRecord, FlushClear, FlushSettle, FlushFails, ReloadRead, ReloadDiscard,
         ReloadFails, ReloadInstall, CloseBegin, CloseCommit, CloseCommitFails, CloseClear,
         CloseRetire, CloseRemove
<1>3. wr[w].pc # "rest"
  BY Zenon DEF Thread, Flush, Reload, Close, FlushSnapshot, FlushClosed, FlushCheck, FlushWrite,
         FlushRecord, FlushClear, FlushSettle, FlushFails, FlushError, ReloadRead, ReloadDiscard,
         ReloadFails, ReloadInstall, CloseBegin, CloseCommit, CloseCommitFails, CloseClear,
         CloseRetire, CloseRemove
<1>4. Rests(w) \/ \E pc : Becomes(w, pc)
  BY SnapshotEffect, ClosedEffect, SettleEffect, FailsEffect, ReadEffect, InstallEffect,
     BeginEffect, RetireEffect, GotoBecomes, RestRests, Zenon
     DEF Thread, Flush, Reload, Close, FlushCheck, FlushWrite,
         FlushRecord, FlushClear, ReloadDiscard,
         ReloadFails, CloseCommit, CloseCommitFails, CloseClear, CloseRemove
<1> QED
  BY <1>1, <1>2, <1>3, <1>4, AtWork

(* What a session shows and what it compares with the file. A thread        *)
(* changes them in two places, the record of a write and the end of a       *)
(* reload; only a close closes; and no thread moves a sequence.             *)
KeepsText(s) ==
    /\ sess'[s].buf = sess[s].buf /\ sess'[s].rev = sess[s].rev
    /\ sess'[s].awaiting = sess[s].awaiting /\ sess'[s].restored = sess[s].restored

LEMMA SessionStep ==
    ASSUME TypeInv, NEW w \in Threads, Thread(w), NEW s \in Sessions
    PROVE  /\ sess'[s].seq = sess[s].seq
           /\ \/ KeepsText(s) /\ sess'[s].closed = sess[s].closed
              \/ KeepsText(s) /\ CloseRetire(w) /\ s = wr[w].s /\ sess'[s].closed
              \/ /\ FlushRecord(w) /\ s = wr[w].s /\ sess'[s].closed = sess[s].closed
                 /\ sess'[s].buf = sess[s].buf /\ sess'[s].restored = sess[s].restored
                 /\ sess'[s].rev = wr[w].text /\ ~sess'[s].awaiting
              \/ /\ ReloadInstall(w) /\ s = wr[w].s /\ sess'[s].closed = sess[s].closed
                 /\ sess'[s].buf = wr[w].text /\ sess'[s].rev = wr[w].text
                 /\ ~sess'[s].restored /\ ~sess'[s].awaiting
<1>1. sess[wr[w].s] \in SessionState /\ wr[w].s \in Sessions
  BY ThreadStep DEF TypeInv, TypeOK
<1>2. CASE FlushRecord(w)
  <2>1. CASE s = wr[w].s
    BY <1>1, <1>2, <2>1, RecordEffect, Zenon DEF SessionState
  <2>2. CASE s # wr[w].s
    BY <1>2, <2>2, RecordEffect, Zenon DEF SameSessionsBut, KeepsText
  <2> QED
    BY <2>1, <2>2
<1>3. CASE FlushSettle(w)
  <2>1. CASE s = wr[w].s
    BY <1>1, <1>3, <2>1, SettleEffect, Zenon DEF SessionState, KeepsText
  <2>2. CASE s # wr[w].s
    BY <1>3, <2>2, SettleEffect, Zenon DEF SameSessionsBut, KeepsText
  <2> QED
    BY <2>1, <2>2
<1>4. CASE FlushFails(w)
  <2>1. CASE s = wr[w].s
    BY <1>1, <1>4, <2>1, FailsEffect DEF SessionState, KeepsText
  <2>2. CASE s # wr[w].s
    BY <1>4, <2>2, FailsEffect DEF SameSessionsBut, KeepsText
  <2> QED
    BY <2>1, <2>2
<1>5. CASE ReloadInstall(w)
  <2>1. CASE s = wr[w].s
    BY <1>1, <1>5, <2>1, InstallEffect, Zenon DEF SessionState
  <2>2. CASE s # wr[w].s
    BY <1>5, <2>2, InstallEffect, Zenon DEF SameSessionsBut, KeepsText
  <2> QED
    BY <2>1, <2>2
<1>6. CASE CloseRetire(w)
  <2>1. CASE s = wr[w].s
    BY <1>1, <1>6, <2>1, RetireEffect, Zenon DEF SessionState, KeepsText
  <2>2. CASE s # wr[w].s
    BY <1>6, <2>2, RetireEffect, Zenon DEF SameSessionsBut, KeepsText
  <2> QED
    BY <2>1, <2>2
<1>7. CASE UNCHANGED sess
  BY <1>7 DEF KeepsText
<1> QED
  BY <1>2, <1>3, <1>4, <1>5, <1>6, <1>7
     DEF Thread, Flush, Reload, Close, FlushSnapshot, FlushClosed, FlushCheck, FlushWrite,
         FlushClear, ReloadRead, ReloadDiscard, ReloadFails, CloseBegin, CloseCommit,
         CloseCommitFails, CloseClear, CloseRemove

(* A thread writes no draft row, it can only delete it.                     *)
LEMMA RowsOnlyGo ==
    ASSUME NEW w \in Threads, Thread(w)
    PROVE  draft' \in {draft, None}
BY Zenon DEF Thread, Flush, Reload, Close, FlushSnapshot, FlushClosed, FlushCheck, FlushWrite,
       FlushRecord, FlushClear, FlushSettle, FlushFails, ReloadRead, ReloadDiscard,
       ReloadFails, ReloadInstall, CloseBegin, CloseCommit, CloseCommitFails, CloseClear,
       CloseRetire, CloseRemove, ClearThrough, store

-----------------------------------------------------------------------------
(* The sequences. Most steps leave the editor and every sequence alone, and  *)
(* do nothing to the row but delete it, or to the registry but empty it.     *)

SeqInv == TypeInv /\ SequencesInStep

LEMMA SeqKept ==
    ASSUME TypeInv, SequencesInStep, UNCHANGED <<opened, ed, opening>>,
           cur' \in {cur, None}, draft' \in {draft, None},
           \A s \in Sessions : sess'[s].seq = sess[s].seq
    PROVE  SequencesInStep'
BY DEF TypeInv, TypeOK, SequencesInStep, RowNotAhead, EditInStep, OpenAlone

LEMMA SeqInit == Init => SequencesInStep
BY IdleTypes DEF Init, SequencesInStep, RowNotAhead, EditInStep, OpenAlone

LEMMA SeqOpen == SeqInv /\ Open => SequencesInStep'
<1> SUFFICES ASSUME TypeInv, SequencesInStep, Open PROVE SequencesInStep'
  BY DEF SeqInv
<1>1. CASE OpenRead
  BY <1>1 DEF OpenRead, SequencesInStep, RowNotAhead, EditInStep, OpenAlone, store
<1>2. CASE OpenRefused
  BY <1>2 DEF OpenRefused, SequencesInStep, RowNotAhead, EditInStep, OpenAlone, store
<1>3. CASE OpenInstall
  <2>1. PICK s \in Sessions \ opened : cur' = s /\ sess' = [sess EXCEPT ![s] = OpenedState]
    BY <1>3 DEF OpenInstall
  <2>2. draft # None => sess'[cur'].seq = draft.seq /\ draft.seq \in Nat
    BY <2>1 DEF TypeInv, TypeOK, OpenedState, NoSession, DraftRow
  <2>3. ed.pc = "idle" /\ ed' = ed /\ draft' = draft /\ opening' = None
    BY <1>3 DEF OpenInstall, store, SequencesInStep, OpenAlone
  <2> QED
    BY <2>1, <2>2, <2>3 DEF SequencesInStep, RowNotAhead, EditInStep, OpenAlone
<1> QED
  BY <1>1, <1>2, <1>3 DEF Open

(* The mutation takes the next sequence, which is above the row's.           *)
LEMMA SeqEditInstall == \A text \in Texts : SeqInv /\ EditInstall(text) => SequencesInStep'
<1> SUFFICES ASSUME NEW text \in Texts, TypeInv, SequencesInStep, EditInstall(text)
             PROVE  SequencesInStep'
  BY DEF SeqInv
<1>1. cur \in opened /\ cur \in Sessions /\ opened' = opened /\ cur' = cur
  BY DEF EditInstall, TypeInv, TypeOK
<1>2. sess[cur].seq \in Nat
  BY <1>1 DEF TypeInv, TypeOK, SessionState
<1>3. sess'[cur].seq = sess[cur].seq + 1
  BY <1>1 DEF EditInstall, TypeInv, TypeOK, SessionState
<1>4. /\ ed'.s = cur
      /\ ed'.seq = sess[cur].seq + 1
      /\ ed'.prev.seq = sess[cur].seq
  BY DEF EditInstall, RollbackOf
<1>5. draft' = draft /\ opening = None /\ opening' = None
  BY DEF EditInstall, store
<1>6. draft # None => draft.seq \in Nat /\ draft.seq <= sess[cur].seq
  BY <1>1, NothingIsSomething DEF SequencesInStep, RowNotAhead, TypeInv, TypeOK, DraftRow
<1> QED
  BY <1>1, <1>2, <1>3, <1>4, <1>5, <1>6 DEF SequencesInStep, RowNotAhead, EditInStep, OpenAlone

(* The row takes the mutation's sequence, or the session gives it back.      *)
LEMMA SeqEditSettles == SeqInv /\ EditSettles => SequencesInStep'
<1> SUFFICES ASSUME TypeInv, SequencesInStep, EditSettles PROVE SequencesInStep'
  BY DEF SeqInv
<1>1. ed.pc # "idle" /\ EditorIdle.pc = "idle"
  BY IdleTypes DEF EditSettles, EditDraft, EditDraftFails, EditRetain, EditUndo
<1>2. /\ ed.s \in Sessions /\ cur \in {ed.s, None} /\ sess[ed.s].seq = ed.seq
      /\ ed.seq \in Nat /\ ed.prev.seq \in Nat /\ ed.seq = ed.prev.seq + 1
      /\ draft # None => draft.seq \in Nat /\ draft.seq < ed.seq
      /\ opening = None
  BY <1>1 DEF TypeInv, TypeOK, Working, EditorState, Rollback, DraftRow,
              SequencesInStep, EditInStep, OpenAlone
<1>3. CASE EditDraft
  <2>1. draft' = Row(ed.seq, ed.text) /\ UNCHANGED <<cur, sess, opening>> /\ ed' = EditorIdle
    BY <1>2, <1>3 DEF EditDraft, WriteDraft, Acknowledge
  <2>2. draft'.seq = ed.seq
    BY <2>1 DEF Row
  <2> QED
    BY <1>1, <1>2, <2>1, <2>2 DEF SequencesInStep, RowNotAhead, EditInStep, OpenAlone
<1>4. CASE EditDraftFails
  <2>1. UNCHANGED <<draft, cur, sess, opening, opened>> /\ ed' = [ed EXCEPT !.pc = "undo"]
    BY <1>4 DEF EditDraftFails, store
  <2>2. ed'.s = ed.s /\ ed'.seq = ed.seq /\ ed'.prev = ed.prev
    BY <2>1 DEF TypeInv, TypeOK, EditorState
  <2> QED
    BY <1>1, <1>2, <2>1, <2>2 DEF SequencesInStep, RowNotAhead, EditInStep, OpenAlone
<1>5. CASE EditRetain
  BY <1>1, <1>2, <1>5
     DEF EditRetain, Acknowledge, store, SequencesInStep, RowNotAhead, EditInStep, OpenAlone
<1>6. CASE EditUndo
  <2>1. UNCHANGED <<draft, cur, opening>> /\ ed' = EditorIdle
    BY <1>6 DEF EditUndo, store
  <2>2. sess'[ed.s].seq = ed.prev.seq
    BY <1>2, <1>6 DEF EditUndo, TypeInv, TypeOK, SessionState
  <2> QED
    BY <1>1, <1>2, <2>1, <2>2 DEF SequencesInStep, RowNotAhead, EditInStep, OpenAlone
<1> QED
  BY <1>3, <1>4, <1>5, <1>6 DEF EditSettles

LEMMA SeqThread == \A w \in Threads : SeqInv /\ Thread(w) => SequencesInStep'
BY ThreadStep, RowsOnlyGo, SessionStep, SeqKept DEF SeqInv

LEMMA SeqNext == SeqInv /\ [Next]_vars => SequencesInStep'
<1> SUFFICES ASSUME SeqInv, [Next]_vars PROVE SequencesInStep'
  OBVIOUS
<1>1. CASE Open
  BY <1>1, SeqOpen
<1>2. CASE \E text \in Texts : EditInstall(text)
  BY <1>2, SeqEditInstall
<1>3. CASE EditSettles
  BY <1>3, SeqEditSettles
<1>4. CASE \E s \in Sessions : TimerFires(s)
  BY <1>4, SeqKept DEF SeqInv, TimerFires, store
<1>5. CASE \E w \in Workers, call \in {"flush", "reload", "close"} : Call(w, call)
  BY <1>5, SeqKept DEF SeqInv, Call, store
<1>6. CASE \E w \in Threads : Thread(w)
  BY <1>6, SeqThread
<1>7. CASE \E file \in Files : GuestChanges(file)
  BY <1>7, SeqKept DEF SeqInv, GuestChanges
<1>8. CASE Crash
  BY <1>8, IdleTypes DEF Crash, SequencesInStep, RowNotAhead, EditInStep, OpenAlone, store
<1>9. CASE UNCHANGED vars
  BY <1>9, SeqKept DEF SeqInv, vars, store
<1> QED
  BY <1>1, <1>2, <1>3, <1>4, <1>5, <1>6, <1>7, <1>8, <1>9 DEF Next

(* The draft row is never ahead of the session that is open, and a mutation  *)
(* in flight keeps the sequence it took until it is answered, whatever the   *)
(* timer, a flush, a reload, a close or a kill of the process do meanwhile.  *)
THEOREM SequencesStayInStep == Spec => []SequencesInStep
<1>1. Init => SeqInv
  BY TypeInit, SeqInit DEF SeqInv
<1>2. SeqInv /\ [Next]_vars => SeqInv'
  BY TypeNext, SeqNext DEF SeqInv
<1>3. SeqInv => SequencesInStep
  BY DEF SeqInv
<1> QED
  BY <1>1, <1>2, <1>3, PTL DEF Spec

(* The guard of the upsert in write_draft never drops the row of a mutation  *)
(* that goes on to be acknowledged.                                          *)
THEOREM RowStaysBehindEdit == Spec => []RowBehindEdit
<1>1. SequencesInStep => RowBehindEdit
  BY DEF SequencesInStep, EditInStep, RowBehindEdit
<1> QED
  BY <1>1, SequencesStayInStep, PTL

-----------------------------------------------------------------------------
(* The locks. A thread between the snapshot of a tier 2 write and its end,  *)
(* or in a reload past its read, holds the write lock of its session; one   *)
(* in the last step of a reload holds the tier 1 lock, and then no edit of  *)
(* that session is in progress; and what works, is armed or is not closed   *)
(* was opened.                                                              *)

Holding == {"check", "write", "record", "clear", "index", "discard", "install"}

LocksHeld == \A w \in Threads : wr[w].pc \in Holding => wlock[wr[w].s] = w

TierOneHeld ==
    /\ \A w \in Threads : wr[w].pc = "install" => tier1[wr[w].s] = w
    /\ \A s \in Sessions : tier1[s] # None => wr[tier1[s]].pc = "install" /\ wr[tier1[s]].s = s
    /\ ed.pc # "idle" => tier1[ed.s] = None

OfOpened ==
    /\ \A w \in Threads : wr[w].pc # "rest" => wr[w].s \in opened
    /\ \A s \in Sessions : armed[s] \/ ~sess[s].closed => s \in opened
    /\ ed.pc # "idle" => ed.s \in opened

LockInv == LocksHeld /\ TierOneHeld /\ OfOpened

LEMMA LocksInit == Init => LockInv
<1> SUFFICES ASSUME Init PROVE LockInv
  OBVIOUS
<1>1. \A w \in Threads : wr[w].pc = "rest"
  BY IdleTypes DEF Init
<1>2. ed.pc = "idle" /\ \A s \in Sessions : tier1[s] = None /\ ~armed[s] /\ sess[s].closed
  BY IdleTypes DEF Init, NoSession
<1> QED
  BY <1>1, <1>2 DEF LockInv, LocksHeld, TierOneHeld, OfOpened, Holding

(* A step takes the lock, keeps it, gives it back, or has no part in it.    *)
LEMMA LockTaken ==
    ASSUME TypeInv, LocksHeld, NEW w \in Threads, NEW pc, Becomes(w, pc),
           wlock[wr[w].s] = None, wr[w].pc # "rest",
           wlock' = [wlock EXCEPT ![wr[w].s] = w]
    PROVE  LocksHeld'
BY AtWork, NothingIsSomething DEF LocksHeld, Becomes, Others, TypeInv, TypeOK, Holding

LEMMA LockKept ==
    ASSUME TypeInv, LocksHeld, NEW w \in Threads, NEW pc, Becomes(w, pc),
           pc \in Holding => wr[w].pc \in Holding, UNCHANGED wlock
    PROVE  LocksHeld'
BY DEF LocksHeld, Becomes, Others

LEMMA LockReleased ==
    ASSUME TypeInv, LocksHeld, NEW w \in Threads, wr[w].pc \in Holding,
           Rests(w) \/ \E pc : pc \notin Holding /\ Becomes(w, pc),
           wlock' = [wlock EXCEPT ![wr[w].s] = None]
    PROVE  LocksHeld'
BY AtWork, IdleTypes DEF LocksHeld, Becomes, Rests, Others, Holding, TypeInv, TypeOK

LEMMA LockUntouched ==
    ASSUME TypeInv, LocksHeld, NEW w \in Threads, Rests(w), UNCHANGED wlock
    PROVE  LocksHeld'
BY IdleTypes DEF LocksHeld, Rests, Others, Holding

LEMMA LocksThread == \A w \in Threads : TypeInv /\ LocksHeld /\ Thread(w) => LocksHeld'
<1> SUFFICES ASSUME NEW w \in Threads, TypeInv, LocksHeld, Thread(w) PROVE LocksHeld'
  OBVIOUS
<1> USE DEF Holding
<1>1. CASE FlushSnapshot(w)
  BY <1>1, SnapshotEffect, LockTaken, Zenon DEF FlushSnapshot
<1>2. CASE FlushClosed(w)
  BY <1>2, ClosedEffect, LockKept, LockUntouched DEF FlushClosed, locks
<1>3. CASE FlushCheck(w)
  BY <1>3, GotoBecomes, LockKept DEF FlushCheck, locks
<1>4. CASE FlushWrite(w)
  BY <1>4, GotoBecomes, LockKept DEF FlushWrite, locks
<1>5. CASE FlushRecord(w)
  BY <1>5, GotoBecomes, LockKept DEF FlushRecord, locks
<1>6. CASE FlushClear(w)
  BY <1>6, GotoBecomes, LockKept DEF FlushClear, locks
<1>7. CASE FlushSettle(w)
  BY <1>7, SettleEffect, LockReleased, Zenon DEF FlushSettle
<1>8. CASE FlushFails(w)
  BY <1>8, FailsEffect, LockReleased DEF FlushFails
<1>9. CASE ReloadRead(w)
  BY <1>9, ReadEffect, LockTaken, LockUntouched DEF ReloadRead
<1>10. CASE ReloadDiscard(w)
  BY <1>10, GotoBecomes, LockKept DEF ReloadDiscard
<1>11. CASE ReloadFails(w)
  <2>1. CASE wr[w].pc = "discard"
    BY <1>11, <2>1, RestRests, LockReleased, Zenon DEF ReloadFails
  <2>2. CASE wr[w].pc = "reload"
    BY <1>11, <2>2, RestRests, LockUntouched DEF ReloadFails, TypeInv, TypeOK
  <2> QED
    BY <1>11, <2>1, <2>2 DEF ReloadFails
<1>12. CASE ReloadInstall(w)
  BY <1>12, InstallEffect, LockReleased, Zenon DEF ReloadInstall
<1>13. CASE CloseBegin(w)
  BY <1>13, BeginEffect, LockKept DEF CloseBegin, locks
<1>14. CASE CloseCommit(w)
  BY <1>14, GotoBecomes, LockKept DEF CloseCommit, locks
<1>15. CASE CloseCommitFails(w)
  BY <1>15, GotoBecomes, LockKept DEF CloseCommitFails, locks
<1>16. CASE CloseClear(w)
  BY <1>16, GotoBecomes, LockKept DEF CloseClear, locks
<1>17. CASE CloseRetire(w)
  BY <1>17, GotoBecomes, LockKept DEF CloseRetire, locks
<1>18. CASE CloseRemove(w)
  BY <1>18, RestRests, LockUntouched DEF CloseRemove, locks
<1> QED
  BY <1>1, <1>2, <1>3, <1>4, <1>5, <1>6, <1>7, <1>8, <1>9, <1>10, <1>11, <1>12, <1>13,
     <1>14, <1>15, <1>16, <1>17, <1>18 DEF Thread, Flush, Reload, Close

(* A thread leaves the tier 1 locks alone, save in the middle of a reload.   *)
LEMMA TierOneSteps ==
    ASSUME TypeInv, NEW w \in Threads, Thread(w)
    PROVE  \/ ReloadDiscard(w) \/ ReloadInstall(w)
           \/ /\ UNCHANGED tier1 /\ wr[w].pc # "install"
              /\ Rests(w) \/ \E pc : pc # "install" /\ Becomes(w, pc)
BY SnapshotEffect, ClosedEffect, SettleEffect, FailsEffect, ReadEffect,
   BeginEffect, RetireEffect, GotoBecomes, RestRests, Zenon
   DEF Thread, Flush, Reload, Close, FlushSnapshot, FlushClosed, FlushCheck, FlushWrite,
       FlushRecord, FlushClear, FlushSettle, FlushFails, FlushError, ReloadRead,
       ReloadFails, CloseBegin, CloseCommit, CloseCommitFails, CloseClear,
       CloseRetire, CloseRemove, locks

LEMMA TierOneThread == \A w \in Threads : TypeInv /\ TierOneHeld /\ Thread(w) => TierOneHeld'
<1> SUFFICES ASSUME NEW w \in Threads, TypeInv, TierOneHeld, Thread(w) PROVE TierOneHeld'
  OBVIOUS
<1>0. wr[w].s \in Sessions /\ wr[w].pc # "rest" /\ ed' = ed /\ AtRest.pc = "rest" /\ tier1 \in [Sessions -> Threads \cup {None}]
  BY ThreadStep, IdleTypes DEF TypeInv, TypeOK
<1>1. CASE ReloadDiscard(w)
  <2>1. /\ Becomes(w, "install") /\ tier1[wr[w].s] = None
        /\ tier1' = [tier1 EXCEPT ![wr[w].s] = w]
        /\ ed.pc # "idle" => ed.s # wr[w].s /\ ed.s \in Sessions
    BY <1>1, GotoBecomes DEF ReloadDiscard, TierOneFree, TypeInv, Working
  <2> QED
    BY <1>0, <2>1, NothingIsSomething DEF TierOneHeld, Becomes, Others
<1>2. CASE ReloadInstall(w)
  <2>1. Rests(w) /\ tier1' = [tier1 EXCEPT ![wr[w].s] = None] /\ wr[w].pc = "install"
    BY <1>2, InstallEffect, Zenon DEF ReloadInstall
  <2>2. tier1[wr[w].s] = w
    BY <2>1 DEF TierOneHeld
  <2>3. ed.pc # "idle" => ed.s \in Sessions
    BY DEF TypeInv, Working
  <2> QED
    BY <1>0, <2>1, <2>2, <2>3, NothingIsSomething DEF TierOneHeld, Rests, Others
<1>3. CASE /\ UNCHANGED tier1 /\ wr[w].pc # "install"
           /\ Rests(w) \/ \E pc : pc # "install" /\ Becomes(w, pc)
  BY <1>0, <1>3 DEF TierOneHeld, Rests, Becomes, Others
<1> QED
  BY <1>1, <1>2, <1>3, TierOneSteps

(* No step of a thread opens a session.                                      *)
LEMMA ThreadsOpenNothing ==
    ASSUME TypeInv, NEW w \in Threads, Thread(w), NEW s \in Sessions, sess[s].closed
    PROVE  sess'[s].closed
<1>1. sess[wr[w].s] \in SessionState /\ wr[w].s \in Sessions
  BY ThreadStep DEF TypeInv, TypeOK
<1>2. CASE FlushRecord(w)
  BY <1>1, <1>2, RecordEffect, Zenon DEF SameSessionsBut, SessionState
<1>3. CASE FlushSettle(w)
  BY <1>1, <1>3, SettleEffect, Zenon DEF SameSessionsBut, SessionState
<1>4. CASE FlushFails(w)
  BY <1>1, <1>4, FailsEffect DEF SameSessionsBut, SessionState
<1>5. CASE ReloadInstall(w)
  BY <1>1, <1>5, InstallEffect, Zenon DEF SameSessionsBut, SessionState
<1>6. CASE CloseRetire(w)
  BY <1>1, <1>6, RetireEffect, Zenon DEF SameSessionsBut, SessionState
<1>7. CASE UNCHANGED sess
  BY <1>7
<1> QED
  BY <1>2, <1>3, <1>4, <1>5, <1>6, <1>7
     DEF Thread, Flush, Reload, Close, FlushSnapshot, FlushClosed, FlushCheck, FlushWrite,
         FlushClear, ReloadRead, ReloadDiscard, ReloadFails, CloseBegin, CloseCommit,
         CloseCommitFails, CloseClear, CloseRemove

LEMMA OpenedThread == \A w \in Threads : TypeInv /\ OfOpened /\ Thread(w) => OfOpened'
<1> SUFFICES ASSUME NEW w \in Threads, TypeInv, OfOpened, Thread(w) PROVE OfOpened'
  OBVIOUS
<1>1. \A s \in Sessions : sess[s].closed => sess'[s].closed
  BY ThreadsOpenNothing
<1>2. \A v \in Threads : wr'[v].pc # "rest" => wr'[v].s \in opened
  BY ThreadStep, IdleTypes DEF OfOpened, Rests, Becomes, Others
<1>3. UNCHANGED <<opened, ed, armed>>
  BY ThreadStep
<1>4. sess \in [Sessions -> SessionState] /\ sess' \in [Sessions -> SessionState]
  BY TypeNext DEF TypeInv, TypeOK, Next
<1> QED
  BY <1>1, <1>2, <1>3, <1>4 DEF OfOpened, SessionState

(* Every step keeps the locks as they are described: no two threads are     *)
(* ever inside the writes of one session, nor a reload beside an edit.      *)
LEMMA LocksNext == TypeInv /\ LockInv /\ [Next]_vars => LockInv'
<1> SUFFICES ASSUME TypeInv, LocksHeld, TierOneHeld, OfOpened, [Next]_vars PROVE LockInv'
  BY DEF LockInv
<1> USE DEF LockInv, LocksHeld, TierOneHeld, OfOpened
<1>1. CASE OpenRead \/ OpenRefused
  BY <1>1 DEF OpenRead, OpenRefused, locks
<1>2. CASE OpenInstall
  <2>1. UNCHANGED <<locks, ed, wr>> /\ cur' \in Sessions /\ opened' = opened \cup {cur'}
    BY <1>2, OpenEffect DEF OpenInstall
  <2>2. \A s \in Sessions \ {cur'} : sess'[s] = sess[s] /\ armed'[s] = armed[s]
    BY <1>2, OpenEffect DEF SameSessionsBut
  <2>3. LocksHeld' /\ TierOneHeld'
    BY <2>1 DEF locks
  <2>4. OfOpened'
    BY <2>1, <2>2
  <2> QED
    BY <2>3, <2>4
<1>3. CASE \E text \in Texts : EditInstall(text)
  <2>1. PICK text \in Texts : EditInstall(text)
    BY <1>3
  <2>2. sess'[cur].closed = sess[cur].closed /\ cur \in opened
    BY ZenonT(60), <2>1, EditEffect DEF SessionState, EditInstall, TypeInv, TypeOK
  <2> QED
    BY <2>1, <2>2, EditEffect, Zenon DEF EditInstall, locks, SameSessionsBut
<1>4. CASE EditDraft \/ EditRetain
  BY <1>4, IdleTypes DEF EditDraft, EditRetain, Acknowledge, locks, TypeInv, TypeOK
<1>5. CASE EditDraftFails
  BY <1>5 DEF EditDraftFails, locks, TypeInv, TypeOK, EditorState
<1>6. CASE EditUndo
  <2>1. sess'[ed.s].closed = sess[ed.s].closed
    <3>1. sess[ed.s] \in SessionState
      BY <1>6, UndoEffect DEF TypeInv, TypeOK
    <3> QED
      BY <1>6, <3>1, UndoEffect DEF SessionState
  <2> QED
    BY <1>6, <2>1, UndoEffect, IdleTypes DEF EditUndo, locks, SameSessionsBut
<1>7. CASE \E s \in Sessions : TimerFires(s)
  <2>1. PICK s \in Sessions : TimerFires(s)
    BY <1>7
  <2>2. armed' = [armed EXCEPT ![s] = FALSE] /\ armed[s] /\ UNCHANGED <<opened, sess, wlock, tier1, ed>>
    BY <2>1 DEF TimerFires, locks
  <2>3. \A t \in Sessions : armed'[t] => armed[t]
    BY <2>2 DEF TypeInv, TypeOK
  <2> QED
    BY <2>1, <2>2, <2>3, TimerEffect, NothingIsSomething DEF Others, TypeInv, TypeOK, Holding
<1>8. CASE \E w \in Workers, call \in {"flush", "reload", "close"} : Call(w, call)
  <2>1. PICK w \in Workers, call \in {"flush", "reload", "close"} : Call(w, call)
    BY <1>8
  <2>2. UNCHANGED <<opened, sess, wlock, tier1, ed, armed>> /\ cur \in opened
    BY <2>1 DEF Call, locks, TypeInv, TypeOK
  <2> QED
    BY <2>1, <2>2, CallEffect, NothingIsSomething DEF Others, TypeInv, TypeOK, Holding
<1>9. CASE \E w \in Threads : Thread(w)
  <2> USE DEF LockInv
  <2> QED
    BY <1>9, LocksThread, TierOneThread, OpenedThread
<1>10. CASE \E file \in Files : GuestChanges(file)
  BY <1>10 DEF GuestChanges, locks
<1>11. CASE Crash
  BY <1>11, IdleTypes DEF Crash, NoSession, Holding
<1>12. CASE UNCHANGED vars
  BY <1>12 DEF vars, locks
<1> QED
  BY <1>1, <1>2, <1>3, <1>4, <1>5, <1>6, <1>7, <1>8, <1>9, <1>10, <1>11, <1>12
     DEF Next, Open, EditSettles

-----------------------------------------------------------------------------
(* The row and the buffer. While an edit is in progress the buffer is ahead *)
(* of the row by that edit, and a row at the sequence before it has the     *)
(* text before it; a reload that is about to replace the buffer has deleted *)
(* the row, and no edit can have written one since.                         *)

EditBuffered ==
    cur # None /\ ed.pc # "idle" =>
        /\ sess[cur].buf = ed.text
        /\ draft # None /\ draft.seq = ed.prev.seq => draft.text = ed.prev.buf

ReloadClears == \A w \in Threads : wr[w].pc = "install" /\ wr[w].s = cur => draft = None

RowInv == RowIsBuffer /\ EditBuffered /\ ReloadClears

(* What the inductive invariants below are relative to: types, sequences    *)
(* and locks.                                                               *)
CoreInv == TypeInv /\ SequencesInStep /\ LockInv

(* A thread deletes rows; the only one that moves the buffer, the end of a  *)
(* reload, finds no row and no edit.                                        *)
LEMMA RowThread == \A w \in Threads : CoreInv /\ RowInv /\ Thread(w) => RowInv'
<1> SUFFICES ASSUME NEW w \in Threads, CoreInv, RowInv, Thread(w) PROVE RowInv'
  OBVIOUS
<1>0. TypeInv /\ TierOneHeld
  BY DEF CoreInv, LockInv
<1>1. cur' \in {cur, None} /\ ed' = ed /\ draft' \in {draft, None}
  BY <1>0, ThreadStep, RowsOnlyGo
<1>2. cur # None => /\ cur \in Sessions
                    /\ sess'[cur].seq = sess[cur].seq
                    /\ sess'[cur].buf = sess[cur].buf \/ (ReloadInstall(w) /\ cur = wr[w].s)
  BY <1>0, SessionStep DEF TypeInv, TypeOK, KeepsText
<1>3. CASE ReloadInstall(w) /\ cur = wr[w].s
  <2>1. draft = None /\ draft' = None /\ tier1[cur] = w
    BY <1>0, <1>1, <1>3, Zenon DEF RowInv, ReloadClears, ReloadInstall, TierOneHeld
  <2>2. ed.pc = "idle" \/ cur = None
    BY <1>0, <1>3, <2>1, NothingIsSomething DEF CoreInv, SequencesInStep, EditInStep, TierOneHeld
  <2> QED
    BY <1>1, <2>1, <2>2 DEF RowInv, RowIsBuffer, EditBuffered, ReloadClears
<1>4. CASE ~(ReloadInstall(w) /\ cur = wr[w].s)
  <2>1. ReloadClears'
    <3>1. CASE ReloadDiscard(w)
      BY <3>1 DEF ReloadDiscard, ReloadClears
    <3>2. CASE ~ReloadDiscard(w)
      <4>1. \A v \in Threads : wr'[v].pc = "install" => wr'[v] = wr[v]
        BY <1>0, <3>2, TierOneSteps, InstallEffect, IdleTypes, Zenon DEF Rests, Becomes, Others
      <4> QED
        BY <1>0, <1>1, <4>1, NothingIsSomething DEF RowInv, ReloadClears, TypeInv, TypeOK, Working
    <3> QED
      BY <3>1, <3>2
  <2>2. RowIsBuffer' /\ EditBuffered'
    BY <1>1, <1>2, <1>4 DEF RowInv, RowIsBuffer, EditBuffered
  <2> QED
    BY <2>1, <2>2 DEF RowInv
<1> QED
  BY <1>3, <1>4

(* An edit writes the row under the sequence its buffer has; an undone edit *)
(* takes both back; an open builds the buffer from the row.                 *)
LEMMA RowNext == CoreInv /\ RowInv /\ [Next]_vars => RowInv'
<1> SUFFICES ASSUME CoreInv, RowInv, [Next]_vars PROVE RowInv'
  OBVIOUS
<1> USE DEF RowInv, RowIsBuffer, EditBuffered, ReloadClears
<1>0. TypeInv /\ TierOneHeld /\ OfOpened /\ EditInStep /\ RowNotAhead
  BY DEF CoreInv, LockInv, SequencesInStep
<1>1. CASE OpenRead \/ OpenRefused
  BY <1>1 DEF OpenRead, OpenRefused, store
<1>2. CASE OpenInstall
  <2>1. ed.pc = "idle" /\ UNCHANGED <<draft, ed, wr>>
    BY <1>2 DEF OpenInstall, store, CoreInv, SequencesInStep, OpenAlone
  <2>2. draft # None => sess'[cur'].buf = draft.text
    BY <1>0, <1>2, OpenEffect DEF OpenedState, NoSession
  <2> QED
    BY <1>0, <1>2, <2>1, <2>2, OpenEffect DEF OfOpened
<1>3. CASE \E text \in Texts : EditInstall(text)
  <2>1. PICK text \in Texts : EditInstall(text)
    BY <1>3
  <2>2. UNCHANGED <<cur, draft, wr>> /\ ed.pc = "idle" /\ cur # None
    BY <2>1 DEF EditInstall, store
  <2>3. sess'[cur].buf = text
    BY <1>0, <2>1, EditEffect, Zenon DEF SessionState
  <2> QED
    BY <1>0, <2>1, <2>2, <2>3, EditEffect, Zenon
<1>4. CASE EditDraft
  <2>1. draft' = Row(ed.seq, ed.text) /\ ed'.pc = "idle" /\ UNCHANGED <<cur, sess, wr>> /\ ed.pc # "idle"
    <3>1. draft = None \/ draft.seq < ed.seq
      BY <1>0, <1>4 DEF EditDraft, EditInStep
    <3> QED
      BY <1>4, <3>1, IdleTypes DEF EditDraft, WriteDraft, Acknowledge
  <2>2. draft'.seq = ed.seq /\ draft'.text = ed.text
    BY <2>1 DEF Row
  <2>3. \A w \in Threads : wr[w].pc = "install" => wr[w].s # cur \/ cur = None
    BY <1>0, <2>1, NothingIsSomething DEF TierOneHeld, EditInStep
  <2>4. \A w \in Threads : wr[w].pc = "install" => wr[w].s # None
    BY <1>0, NothingIsSomething DEF TypeInv, Working
  <2> QED
    BY <2>1, <2>2, <2>3, <2>4
<1>5. CASE EditDraftFails
  BY <1>0, <1>5 DEF EditDraftFails, store, TypeInv, TypeOK, EditorState
<1>6. CASE EditRetain
  <2>1. ed'.pc = "idle" /\ UNCHANGED <<draft, cur, sess, wr>> /\ ed.pc # "idle"
    BY <1>6, IdleTypes DEF EditRetain, Acknowledge, store
  <2>2. cur # None /\ draft # None => draft.seq < sess[cur].seq
    BY <1>0, <2>1 DEF EditInStep
  <2>3. cur # None /\ draft # None => draft.seq \in Nat /\ sess[cur].seq \in Nat
    BY <1>0 DEF TypeInv, TypeOK, DraftRow, SessionState
  <2> QED
    BY <2>1, <2>2, <2>3
<1>7. CASE EditUndo
  <2>1. ed'.pc = "idle" /\ UNCHANGED <<draft, cur, wr>> /\ ed.pc # "idle"
    BY <1>7, IdleTypes DEF EditUndo, store
  <2>2. sess[ed.s] \in SessionState
    BY <1>0, <1>7, UndoEffect DEF TypeInv, TypeOK
  <2>3. sess'[ed.s].seq = ed.prev.seq /\ sess'[ed.s].buf = ed.prev.buf
    BY <1>0, <1>7, <2>2, UndoEffect DEF SessionState
  <2> QED
    BY <1>0, <2>1, <2>3 DEF EditInStep
<1>8. CASE \E s \in Sessions : TimerFires(s)
  <2>1. PICK s \in Sessions : TimerFires(s)
    BY <1>8
  <2>2. UNCHANGED <<cur, draft, sess, ed>>
    BY <2>1 DEF TimerFires, store
  <2>3. \A w \in Threads : wr'[w].pc = "install" => wr'[w] = wr[w]
    BY <1>0, <2>1, TimerEffect DEF Others
  <2> QED
    BY <2>2, <2>3
<1>9. CASE \E w \in Workers, call \in {"flush", "reload", "close"} : Call(w, call)
  BY <1>0, <1>9, CallEffect DEF Call, store, Others
<1>10. CASE \E w \in Threads : Thread(w)
  BY <1>10, RowThread
<1>11. CASE \E file \in Files : GuestChanges(file)
  BY <1>11 DEF GuestChanges
<1>12. CASE Crash
  BY <1>12, IdleTypes DEF Crash
<1>13. CASE UNCHANGED vars
  BY <1>13 DEF vars, store
<1> QED
  BY <1>1, <1>2, <1>3, <1>4, <1>5, <1>6, <1>7, <1>8, <1>9, <1>10, <1>11, <1>12, <1>13
     DEF Next, Open, EditSettles

LEMMA RowInit == Init => RowInv
BY IdleTypes DEF Init, RowInv, RowIsBuffer, EditBuffered, ReloadClears

LEMMA CoreInit == Init => CoreInv
BY TypeInit, SeqInit, LocksInit DEF CoreInv

LEMMA CoreNext == CoreInv /\ [Next]_vars => CoreInv'
BY TypeNext, SeqNext, LocksNext DEF CoreInv, SeqInv

(* Types, sequences and locks hold in every reachable state.                *)
THEOREM CoreHolds == Spec => []CoreInv
BY CoreInit, CoreNext, PTL DEF Spec

(* RowIsBuffer: a draft row with the session's own sequence has the         *)
(* session's buffer, through failed edits that take their sequence back,    *)
(* reloads, closes and kills: recovery hands back what the user was looking *)
(* at.                                                                      *)
THEOREM RowsAreBuffers == Spec => []RowIsBuffer
<1>1. Init => CoreInv /\ RowInv
  BY CoreInit, RowInit
<1>2. CoreInv /\ RowInv /\ [Next]_vars => (CoreInv /\ RowInv)'
  BY CoreNext, RowNext
<1>3. RowInv => RowIsBuffer
  BY DEF RowInv
<1> QED
  BY <1>1, <1>2, <1>3, PTL DEF Spec

-----------------------------------------------------------------------------
(* What the user has seen. The revision of a session that started from the  *)
(* file is a text the program has shown, and so is the one a write in       *)
(* progress will compare the file with; such a session never owes the path  *)
(* a file, so a missing file stops its writes.                              *)

Seen(s, rev) == ~sess[s].restored => rev \in known /\ ~sess[s].awaiting

SessionsShown ==
    \A s \in Sessions : ~sess[s].closed => sess[s].buf \in known /\ Seen(s, sess[s].rev)

EditShown == ed.pc # "idle" => ed.prev.buf \in known

Unrecorded == {"check", "write", "record"}

WritesShown ==
    \A w \in Threads : wr[w].pc \in Unrecorded => wr[w].text \in known /\ Seen(wr[w].s, wr[w].rev)

ShownInv == SessionsShown /\ EditShown /\ WritesShown

(* A step that touches no session, and moves no thread into a write.        *)
LEMMA ShownKept ==
    ASSUME ShownInv, TypeInv, UNCHANGED sess, known \subseteq known',
           ed'.pc # "idle" => ed' = ed \/ (ed.pc # "idle" /\ ed'.prev = ed.prev),
           \A w \in Threads : wr'[w].pc \in Unrecorded => wr'[w] = wr[w]
    PROVE  ShownInv'
BY DEF ShownInv, SessionsShown, EditShown, WritesShown, Seen

(* Two threads that hold write locks work for different sessions.           *)
LEMMA UnrecordedHeld ==
    ASSUME TypeInv, LocksHeld, NEW v \in Threads, NEW w \in Threads, v # w,
           wr[v].pc \in Unrecorded, wr[w].pc \in Holding
    PROVE  wr[v].s # wr[w].s
BY DEF LocksHeld, Unrecorded, Holding

(* A thread is in an unrecorded write because it was, and kept its work, or *)
(* because it has just taken its snapshot.                                  *)
LEMMA UnrecordedStep ==
    ASSUME TypeInv, NEW w \in Threads, Thread(w)
    PROVE  \A v \in Threads : wr'[v].pc \in Unrecorded =>
              \/ v # w /\ wr'[v] = wr[v]
              \/ v = w /\ FlushSnapshot(w)
              \/ v = w /\ Becomes(w, wr'[v].pc) /\ KeepsWork(w) /\ wr[w].pc \in Unrecorded
                 /\ ~FlushRecord(w) /\ ~ReloadInstall(w)
<1>1. \A v \in Threads : v # w => wr'[v] = wr[v]
  BY ThreadStep DEF Rests, Becomes, Others
<1>2. ASSUME wr'[w].pc \in Unrecorded, ~FlushSnapshot(w)
      PROVE  /\ Becomes(w, wr'[w].pc) /\ KeepsWork(w) /\ wr[w].pc \in Unrecorded
             /\ ~FlushRecord(w) /\ ~ReloadInstall(w)
  <2>1. FlushCheck(w) \/ FlushWrite(w)
    <3>1. ~Rests(w) /\ \A pc : Becomes(w, pc) => pc \in Unrecorded
      BY <1>2, IdleTypes DEF Rests, Becomes, Unrecorded
    <3>0. "commit" \notin Unrecorded /\ "retire" \notin Unrecorded /\ "discard" \notin Unrecorded
          /\ "flush" \notin Unrecorded /\ "remove" \notin Unrecorded
      BY DEF Unrecorded
    <3>2. ~FlushClosed(w) /\ ~FlushSettle(w) /\ ~FlushFails(w) /\ ~ReloadRead(w) /\ ~ReloadInstall(w)
      <4>1. ~FlushClosed(w)
        BY <3>0, <3>1, ClosedEffect
      <4>2. ~FlushSettle(w)
        BY <3>0, <3>1, SettleEffect, Zenon
      <4>3. ~FlushFails(w)
        BY <3>0, <3>1, FailsEffect
      <4>4. ~ReloadRead(w) /\ ~ReloadInstall(w)
        BY <3>0, <3>1, ReadEffect, InstallEffect, Zenon
      <4> QED
        BY <4>1, <4>2, <4>3, <4>4
    <3>3. ~CloseBegin(w) /\ ~CloseRetire(w)
      BY <3>0, <3>1, BeginEffect, RetireEffect, Zenon
    <3>4. ~FlushRecord(w) /\ ~FlushClear(w) /\ ~ReloadDiscard(w) /\ ~ReloadFails(w)
      BY <3>1, GotoBecomes, RestRests
         DEF Unrecorded, FlushRecord, FlushClear, ReloadDiscard, ReloadFails
    <3>5. ~CloseCommit(w) /\ ~CloseCommitFails(w) /\ ~CloseClear(w) /\ ~CloseRemove(w)
      BY <3>1, GotoBecomes, RestRests
         DEF Unrecorded, CloseCommit, CloseCommitFails, CloseClear, CloseRemove
    <3> QED
      BY <1>2, <3>2, <3>3, <3>4, <3>5 DEF Thread, Flush, Reload, Close
  <2>2. wr[w].pc \in {"check", "write"} /\ \E pc : Goto(w, pc)
    BY <2>1 DEF FlushCheck, FlushWrite
  <2> QED
    BY <2>2, GotoBecomes, Zenon DEF Becomes, Unrecorded, FlushRecord, ReloadInstall
<1> QED
  BY <1>1, <1>2

(* The record of a write makes shown bytes the revision, the end of a       *)
(* reload shows the bytes it makes the revision; both under the lock of the *)
(* session, so that no other write loses its comparison.                    *)
LEMMA ShownThread == \A w \in Threads : CoreInv /\ ShownInv /\ Thread(w) => ShownInv'
<1> SUFFICES ASSUME NEW w \in Threads, CoreInv, ShownInv, Thread(w) PROVE ShownInv'
  OBVIOUS
<1>0. TypeInv /\ LocksHeld /\ wr[w].s \in Sessions
  BY ThreadStep DEF CoreInv, LockInv
<1>1. ed' = ed
  BY <1>0, ThreadStep
<1>2. known' = known \/ (ReloadInstall(w) /\ known' = known \cup {wr[w].text})
  BY Zenon DEF Thread, Flush, Reload, Close, FlushSnapshot, FlushClosed, FlushCheck, FlushWrite,
         FlushRecord, FlushClear, FlushSettle, FlushFails, ReloadRead, ReloadDiscard,
         ReloadFails, ReloadInstall, CloseBegin, CloseCommit, CloseCommitFails, CloseClear,
         CloseRetire, CloseRemove, history
<1>3. SessionsShown'
  <2> SUFFICES ASSUME NEW s \in Sessions, ~sess'[s].closed
               PROVE  sess'[s].buf \in known' /\ Seen(s, sess[s].rev)'
    BY DEF SessionsShown
  <2>1. ~sess[s].closed
    BY <1>0, ThreadsOpenNothing
  <2>2. sess[s].buf \in known /\ Seen(s, sess[s].rev)
    BY <2>1 DEF ShownInv, SessionsShown
  <2>3. FlushRecord(w) => wr[w].text \in known
    BY DEF FlushRecord, ShownInv, WritesShown, Unrecorded
  <2>4. known \subseteq known'
    BY <1>2
  <2>5. CASE KeepsText(s)
    BY <2>2, <2>4, <2>5 DEF Seen, KeepsText
  <2>6. CASE /\ FlushRecord(w) /\ sess'[s].buf = sess[s].buf /\ sess'[s].rev = wr[w].text
             /\ ~sess'[s].awaiting
    BY <2>2, <2>3, <2>4, <2>6 DEF Seen
  <2>7. CASE /\ ReloadInstall(w) /\ sess'[s].buf = wr[w].text /\ sess'[s].rev = wr[w].text
             /\ ~sess'[s].awaiting
    <3>1. wr[w].text \in known'
      BY <2>7, Zenon DEF ReloadInstall
    <3> QED
      BY <2>7, <3>1 DEF Seen
  <2> QED
    BY <1>0, <2>5, <2>6, <2>7, SessionStep
<1>4. WritesShown'
  <2> SUFFICES ASSUME NEW v \in Threads, wr'[v].pc \in Unrecorded
               PROVE  wr'[v].text \in known' /\ Seen(wr[v].s, wr[v].rev)'
    BY DEF WritesShown
  <2>1. CASE v # w /\ wr'[v] = wr[v]
    <3>1. wr[v].s \in Sessions /\ wr[v].text \in known /\ Seen(wr[v].s, wr[v].rev)
      BY <1>0, <2>1, AtWork DEF ShownInv, WritesShown, Unrecorded
    <3>2. wr[w].pc \in Holding => wr[v].s # wr[w].s
      BY <1>0, <2>1, UnrecordedHeld
    <3>3. FlushRecord(w) \/ ReloadInstall(w) => wr[w].pc \in Holding
      BY Zenon DEF FlushRecord, ReloadInstall, Holding
    <3>4. KeepsText(wr[v].s)
      BY <1>0, <3>1, <3>2, <3>3, SessionStep
    <3> QED
      BY <1>2, <2>1, <3>1, <3>4 DEF Seen, KeepsText
  <2>2. CASE v = w /\ FlushSnapshot(w)
    <3>1. ~sess[wr[w].s].closed /\ UNCHANGED <<sess, known>>
      BY <2>2 DEF FlushSnapshot, history
    <3>2. sess[wr[w].s].buf \in known /\ Seen(wr[w].s, sess[wr[w].s].rev)
      BY <1>0, <3>1 DEF ShownInv, SessionsShown
    <3>3. wr'[w].text = sess[wr[w].s].buf /\ wr'[w].rev = sess[wr[w].s].rev /\ wr'[w].s = wr[w].s
      BY <1>0, <2>2, SnapshotEffect DEF Becomes
    <3> QED
      BY <2>2, <3>1, <3>2, <3>3 DEF Seen
  <2>3. CASE /\ v = w /\ Becomes(w, wr'[v].pc) /\ KeepsWork(w) /\ wr[w].pc \in Unrecorded
             /\ ~FlushRecord(w) /\ ~ReloadInstall(w)
    <3>1. KeepsText(wr[w].s)
      BY <1>0, <2>3, SessionStep
    <3>2. wr[w].text \in known /\ Seen(wr[w].s, wr[w].rev)
      BY <2>3 DEF ShownInv, WritesShown
    <3> QED
      BY <1>2, <2>3, <3>1, <3>2 DEF Seen, KeepsText, Becomes, KeepsWork
  <2> QED
    BY <1>0, <2>1, <2>2, <2>3, UnrecordedStep
<1> QED
  BY <1>1, <1>2, <1>3, <1>4 DEF ShownInv, EditShown

(* An open of a file shows it, an edit shows its text, an undone edit goes  *)
(* back to a text that was shown.                                           *)
LEMMA ShownNext == CoreInv /\ ShownInv /\ [Next]_vars => ShownInv'
<1> SUFFICES ASSUME CoreInv, ShownInv, [Next]_vars PROVE ShownInv'
  OBVIOUS
<1>0. TypeInv /\ OfOpened
  BY DEF CoreInv, LockInv
<1>1. CASE OpenRead \/ OpenRefused
  BY <1>0, <1>1, ShownKept DEF OpenRead, OpenRefused, history
<1>2. CASE OpenInstall
  <2>1. UNCHANGED <<ed, wr>>
    BY <1>2 DEF OpenInstall
  <2>2. OpenedState.buf \in known' /\ known \subseteq known'
    BY <1>0, <1>2, OpenEffect
  <2>3. OpenedState.restored \/ (OpenedState.rev = OpenedState.buf /\ ~OpenedState.awaiting)
    BY <1>0, <1>2 DEF OpenInstall, OpenedState, NoSession, Hash, TypeInv, TypeOK
  <2>4. \A v \in Threads : wr[v].pc \in Unrecorded => wr[v].s \in Sessions /\ wr[v].s # cur'
    BY <1>0, <1>2, OpenEffect, AtWork DEF OfOpened, Unrecorded
  <2>a. sess'[cur'] = OpenedState /\ \A s \in Sessions \ {cur'} : sess'[s] = sess[s]
    BY <1>0, <1>2, OpenEffect DEF SameSessionsBut
  <2>5. SessionsShown'
    BY <2>a, <2>2, <2>3 DEF ShownInv, SessionsShown, Seen
  <2>6. WritesShown'
    BY <2>a, <2>1, <2>2, <2>4 DEF ShownInv, WritesShown, Seen
  <2> QED
    BY <2>1, <2>2, <2>5, <2>6 DEF ShownInv, EditShown
<1>3. CASE \E text \in Texts : EditInstall(text)
  <2>1. PICK text \in Texts : EditInstall(text)
    BY <1>3
  <2>2. known' = known \cup {text} /\ wr' = wr /\ cur \in Sessions /\ ~sess[cur].closed
    BY <1>0, <2>1, EditEffect, Zenon DEF EditInstall
  <2>3. /\ sess'[cur].buf = text /\ sess'[cur].rev = sess[cur].rev
        /\ sess'[cur].awaiting = sess[cur].awaiting /\ sess'[cur].restored = sess[cur].restored
    BY ZenonT(60), <1>0, <2>1, EditEffect DEF SessionState
  <2>a. \A s \in Sessions \ {cur} : sess'[s] = sess[s]
    BY <1>0, <2>1, EditEffect, Zenon DEF SameSessionsBut
  <2>4. SessionsShown'
    BY <2>a, <2>2, <2>3 DEF ShownInv, SessionsShown, Seen
  <2>5. EditShown'
    BY <1>0, <2>1, <2>2, EditEffect, Zenon DEF ShownInv, SessionsShown, EditShown
  <2>6. WritesShown'
    <3>1. \A v \in Threads : wr[v].pc \in Unrecorded => wr[v].s \in Sessions
      BY <1>0, AtWork DEF Unrecorded
    <3> QED
      BY <2>a, <2>2, <2>3, <3>1 DEF ShownInv, WritesShown, Seen
  <2> QED
    BY <2>4, <2>5, <2>6 DEF ShownInv
<1>4. CASE EditDraft \/ EditRetain
  BY <1>0, <1>4, IdleTypes, ShownKept DEF EditDraft, EditRetain, Acknowledge
<1>5. CASE EditDraftFails
  <2>1. UNCHANGED <<sess, known, wr>> /\ ed.pc # "idle" /\ ed'.prev = ed.prev
    BY <1>0, <1>5 DEF EditDraftFails, history, TypeInv, TypeOK, EditorState
  <2> QED
    BY <1>0, <2>1, ShownKept
<1>6. CASE EditUndo
  <2>1. UNCHANGED <<known, wr>> /\ ed.pc # "idle" /\ ed'.pc = "idle" /\ ed.s \in Sessions
    BY <1>0, <1>6, UndoEffect, IdleTypes DEF EditUndo, history
  <2>2. /\ sess'[ed.s].buf = ed.prev.buf /\ sess'[ed.s].rev = sess[ed.s].rev
        /\ sess'[ed.s].awaiting = sess[ed.s].awaiting /\ sess'[ed.s].restored = sess[ed.s].restored
        /\ sess'[ed.s].closed = sess[ed.s].closed
    <3>1. sess[ed.s] \in SessionState
      BY <1>0, <2>1 DEF TypeInv, TypeOK
    <3> QED
      BY <1>0, <1>6, <3>1, UndoEffect DEF SessionState
  <2>3. SessionsShown'
    BY <1>0, <1>6, <2>1, <2>2, UndoEffect
       DEF ShownInv, SessionsShown, EditShown, Seen, SameSessionsBut
  <2>4. WritesShown'
    <3>1. \A v \in Threads : wr[v].pc \in Unrecorded => wr[v].s \in Sessions
      BY <1>0, AtWork DEF Unrecorded
    <3> QED
      BY <1>0, <1>6, <2>1, <2>2, <3>1, UndoEffect DEF ShownInv, WritesShown, Seen, SameSessionsBut
  <2> QED
    BY <2>1, <2>3, <2>4 DEF ShownInv, EditShown
<1>7. CASE \E s \in Sessions : TimerFires(s)
  <2>1. PICK s \in Sessions : TimerFires(s)
    BY <1>7
  <2>2. UNCHANGED <<sess, known, ed>>
    BY <2>1 DEF TimerFires, history
  <2>3. \A w \in Threads : wr'[w].pc \in Unrecorded => wr'[w] = wr[w]
    BY <1>0, <2>1, TimerEffect DEF Others, Unrecorded
  <2> QED
    BY <1>0, <2>2, <2>3, ShownKept
<1>8. CASE \E w \in Workers, call \in {"flush", "reload", "close"} : Call(w, call)
  <2>1. PICK w \in Workers, call \in {"flush", "reload", "close"} : Call(w, call)
    BY <1>8
  <2>2. UNCHANGED <<sess, known, ed>>
    BY <2>1 DEF Call, history
  <2>3. \A v \in Threads : wr'[v].pc \in Unrecorded => wr'[v] = wr[v]
    BY <1>0, <2>1, CallEffect DEF Others, Unrecorded
  <2> QED
    BY <1>0, <2>2, <2>3, ShownKept
<1>9. CASE \E w \in Threads : Thread(w)
  BY <1>9, ShownThread
<1>10. CASE \E file \in Files : GuestChanges(file)
  BY <1>0, <1>10, ShownKept DEF GuestChanges
<1>11. CASE Crash
  <2>1. \A s \in Sessions : sess'[s].closed
    BY <1>11 DEF Crash, NoSession
  <2>2. ed'.pc = "idle" /\ \A w \in Threads : wr'[w].pc = "rest"
    BY <1>11, IdleTypes DEF Crash
  <2> QED
    BY <2>1, <2>2 DEF ShownInv, SessionsShown, EditShown, WritesShown, Unrecorded
<1>12. CASE UNCHANGED vars
  BY <1>0, <1>12, ShownKept DEF vars, history
<1> QED
  BY <1>1, <1>2, <1>3, <1>4, <1>5, <1>6, <1>7, <1>8, <1>9, <1>10, <1>11, <1>12
     DEF Next, Open, EditSettles

LEMMA ShownInit == Init => ShownInv
BY IdleTypes DEF Init, NoSession, ShownInv, SessionsShown, EditShown, WritesShown, Unrecorded

(* Only the check itself takes a thread from the check to the write.        *)
LEMMA CheckPasses ==
    ASSUME TypeInv, [Next]_vars, NEW w \in Threads, wr[w].pc = "check", wr'[w].pc = "write"
    PROVE  FlushCheck(w)
<1>1. ~OpenRead /\ ~OpenRefused /\ ~OpenInstall /\ ~EditSettles /\ ~UNCHANGED vars
  BY DEF OpenRead, OpenRefused, OpenInstall, EditSettles, EditDraft, EditDraftFails, EditRetain,
         EditUndo, Acknowledge, vars
<1>2. ~(\E text \in Texts : EditInstall(text)) /\ ~(\E file \in Files : GuestChanges(file)) /\ ~Crash
  BY IdleTypes, Zenon DEF EditInstall, GuestChanges, Crash
<1>3. ~\E s \in Sessions : TimerFires(s)
  BY TimerEffect DEF Others
<1>4. ~\E v \in Workers, call \in {"flush", "reload", "close"} : Call(v, call)
  BY CallEffect DEF Others
<1>5. PICK v \in Threads : Thread(v)
  BY <1>1, <1>2, <1>3, <1>4 DEF Next, Open
<1>6. v = w
  BY <1>5, ThreadStep DEF Rests, Becomes, Others
<1>7. FlushCheck(w) \/ FlushFails(w)
  BY <1>5, <1>6, Zenon
     DEF Thread, Flush, Reload, Close, FlushSnapshot, FlushClosed, FlushWrite, FlushRecord,
         FlushClear, FlushSettle, ReloadRead, ReloadDiscard, ReloadFails, ReloadInstall,
         CloseBegin, CloseCommit, CloseCommitFails, CloseClear, CloseRetire, CloseRemove
<1>8. ~FlushFails(w)
  BY FailsEffect, IdleTypes DEF Rests, Becomes
<1> QED
  BY <1>7, <1>8

(* A check that passes in such a session compared the file with a shown     *)
(* text.                                                                    *)
LEMMA ShownStep == CoreInv /\ ShownInv /\ [Next]_vars =>
    [\A w \in Threads : wr[w].pc = "check" /\ wr'[w].pc = "write" /\ ~sess[wr[w].s].restored
        => disk \in known]_vars
<1> SUFFICES ASSUME CoreInv, ShownInv, [Next]_vars, NEW w \in Threads,
                    wr[w].pc = "check", wr'[w].pc = "write", ~sess[wr[w].s].restored
             PROVE  disk \in known
  OBVIOUS
<1>1. FlushCheck(w)
  BY CheckPasses DEF CoreInv
<1>2. wr[w].rev \in known /\ ~sess[wr[w].s].awaiting
  BY DEF ShownInv, WritesShown, Seen, Unrecorded
<1> QED
  BY <1>1, <1>2 DEF FlushCheck, Current, Missing, Hash

(* ShownBeforeOverwritten: the check of a tier 2 write passes only over     *)
(* bytes the program has shown its user, in a session that started from the *)
(* file, whatever a guest, a reload, another write or a kill do meanwhile.  *)
THEOREM OverwritesAreShown == Spec => ShownBeforeOverwritten
<1>1. Init => CoreInv /\ ShownInv
  BY CoreInit, ShownInit
<1>2. CoreInv /\ ShownInv /\ [Next]_vars => (CoreInv /\ ShownInv)'
  BY CoreNext, ShownNext
<1> QED
  BY <1>1, <1>2, ShownStep, PTL DEF Spec, ShownBeforeOverwritten

-----------------------------------------------------------------------------
(* What survives. The text last acknowledged is never lost and an open       *)
(* hands it back; the OCC baseline and the status poll tell the truth; the   *)
(* three tiers implement DurableNote.                                        *)
(*                                                                           *)
(* This holds of orderly use only, and each theorem says what it asks for:   *)
(*   ~Stragglers                a Note is not reopened beside the flushes of *)
(*                              its past session;                            *)
(*   "close" \notin CloseRaces  a session that is closing is not closed      *)
(*                              again at the same time;                      *)
(*   ~DraftFaults               the upsert of a draft row does not fail.     *)
(* MCNoteSession_strayclear.cfg without the first, _twocloses.cfg without    *)
(* the second and _lostedit.cfg without the third lose an acknowledged edit. *)

-----------------------------------------------------------------------------
(* Who is at work. While a session is in use every call but that of a late   *)
(* idle timer, which will find its session closed, is for that session.      *)

(* The use under which no acknowledged edit is lost.                         *)
Orderly == ~Stragglers /\ "close" \notin CloseRaces /\ ~DraftFaults

(* A timer that fired for a session which has closed since: it will only     *)
(* find that.                                                                *)
Straggling(w) == wr[w].call = "timer" /\ wr[w].pc = "flush" /\ sess[wr[w].s].closed

Busy(w) == wr[w].pc # "rest" /\ ~Straggling(w)

(* The calls at work are for one session, and an open waits for them.        *)
OneSession ==
    /\ \A s \in Sessions : s # cur => sess[s].closed
    /\ \A w \in Threads : Busy(w) => /\ opening = None
                                     /\ cur \in {wr[w].s, None}
                                     /\ ed.pc # "idle" => ed.s = wr[w].s
    /\ \A v, w \in Threads : Busy(v) /\ Busy(w) => wr[v].s = wr[w].s

ClosePcs == {"close", "commit", "unstage", "retire", "remove"}

(* Only a close goes through the steps of a close, and it removes what it    *)
(* retired.                                                                  *)
Closers ==
    \A w \in Threads :
        /\ wr[w].pc \in ClosePcs => wr[w].call = "close"
        /\ wr[w].pc = "remove" => sess[wr[w].s].closed

CallInv == OneSession /\ Closers

(* At most one close is at work, on the current session, which is retired    *)
(* exactly while that close removes it.                                      *)
OneClose ==
    /\ \A w \in Threads : wr[w].call = "close" =>
          /\ w \in Workers /\ wr[w].pc # "rest" /\ cur = wr[w].s
          /\ sess[cur].closed <=> wr[w].pc = "remove"
    /\ \A v, w \in Threads : wr[v].call = "close" /\ wr[w].call = "close" => v = w
    /\ cur # None /\ sess[cur].closed => \E w \in Workers : wr[w].call = "close"

LEMMA CallInit == Init => CallInv /\ OneClose
BY IdleTypes DEF Init, CallInv, OneSession, Closers, OneClose, Busy, ClosePcs, AtRest, NoSession

(* The call of w goes on to another step.                                    *)
GoesOn(w) ==
    \E pc : /\ Becomes(w, pc) /\ pc # "rest" /\ Busy(w)
            /\ pc \in ClosePcs => wr[w].call = "close"
            /\ pc = "remove" <=> CloseRetire(w)

(* A step of a thread ends its call or goes on with it.                      *)
LEMMA CallStep ==
    ASSUME TypeInv, Closers, NEW w \in Threads, Thread(w)
    PROVE  (Rests(w) /\ ~CloseRetire(w)) \/ GoesOn(w)
<1>1. \A pc : wr[w].pc = "retire" \/ ~CloseRetire(w)
  BY DEF CloseRetire
<1>2. wr[w].pc \in ClosePcs => wr[w].call = "close"
  BY DEF Closers
<1>3. ASSUME NEW pc, Becomes(w, pc), pc # "rest", pc # "remove", wr[w].pc # "retire",
             wr[w].pc # "rest", wr[w].pc # "flush" \/ ~sess[wr[w].s].closed \/ wr[w].call # "timer",
             pc \in ClosePcs => wr[w].call = "close"
      PROVE  GoesOn(w)
  BY <1>1, <1>3 DEF GoesOn, Busy, Straggling
<1>4. CASE FlushSnapshot(w)
  BY <1>3, <1>4, SnapshotEffect, Zenon DEF FlushSnapshot, ClosePcs
<1>5. CASE FlushClosed(w)
  BY <1>1, <1>3, <1>5, ClosedEffect DEF FlushClosed, ClosePcs
<1>6. CASE FlushCheck(w) \/ FlushWrite(w) \/ FlushRecord(w) \/ FlushClear(w)
  BY <1>3, <1>6, GotoBecomes DEF FlushCheck, FlushWrite, FlushRecord, FlushClear, ClosePcs
<1>7. CASE FlushSettle(w)
  <2>1. wr[w].pc = "index"
    BY <1>7 DEF FlushSettle
  <2> QED
    BY <1>1, <1>3, <1>7, <2>1, SettleEffect, Zenon DEF ClosePcs
<1>8. CASE FlushFails(w)
  BY <1>1, <1>3, <1>8, FailsEffect DEF ClosePcs
<1>9. CASE ReloadRead(w)
  <2>1. wr[w].pc = "reload"
    BY <1>9 DEF ReloadRead
  <2> QED
    BY <1>1, <1>3, <1>9, <2>1, ReadEffect DEF ClosePcs
<1>10. CASE ReloadDiscard(w)
  BY <1>3, <1>10, GotoBecomes DEF ReloadDiscard, ClosePcs
<1>11. CASE ReloadFails(w)
  BY <1>1, <1>11, RestRests DEF ReloadFails
<1>12. CASE ReloadInstall(w)
  BY <1>1, <1>12, InstallEffect, Zenon DEF ReloadInstall
<1>13. CASE CloseBegin(w)
  <2>1. wr[w].pc = "close"
    BY <1>13 DEF CloseBegin
  <2> QED
    BY <1>2, <1>3, <1>13, <2>1, BeginEffect DEF ClosePcs
<1>14. CASE CloseCommit(w) \/ CloseCommitFails(w) \/ CloseClear(w)
  BY <1>2, <1>3, <1>14, GotoBecomes DEF CloseCommit, CloseCommitFails, CloseClear, ClosePcs
<1>15. CASE CloseRetire(w)
  BY <1>2, <1>15, RetireEffect, Zenon DEF CloseRetire, ClosePcs, GoesOn, Busy, Straggling
<1>16. CASE CloseRemove(w)
  BY <1>1, <1>16, RestRests DEF CloseRemove
<1> QED
  BY <1>4, <1>5, <1>6, <1>7, <1>8, <1>9, <1>10, <1>11, <1>12, <1>13, <1>14, <1>15, <1>16
     DEF Thread, Flush, Reload, Close

(* A thread retires and removes no session but its own.                      *)
LEMMA RegistryStep ==
    ASSUME NEW w \in Threads, Thread(w)
    PROVE  cur' = cur \/ (CloseRemove(w) /\ wr[w].pc = "remove" /\ cur' = None)
BY Zenon DEF Thread, Flush, Reload, Close, FlushSnapshot, FlushClosed, FlushCheck, FlushWrite,
       FlushRecord, FlushClear, FlushSettle, FlushFails, ReloadRead, ReloadDiscard,
       ReloadFails, ReloadInstall, CloseBegin, CloseCommit, CloseCommitFails, CloseClear,
       CloseRetire, CloseRemove

(* No step of a thread brings a second session to work.                      *)
LEMMA CallThread == \A w \in Threads : TypeInv /\ CallInv /\ Thread(w) => CallInv'
<1> SUFFICES ASSUME NEW w \in Threads, TypeInv, OneSession, Closers, Thread(w) PROVE CallInv'
  BY DEF CallInv
<1>1. /\ UNCHANGED <<opened, ed, opening, armed>>
      /\ wr[w].s \in Sessions /\ wr[w].pc # "rest"
      /\ AtRest.pc = "rest" /\ AtRest.call = "none"
  BY ThreadStep DEF AtRest
<1>2. (Rests(w) /\ ~CloseRetire(w)) \/ GoesOn(w)
  BY CallStep
<1>3. cur' = cur \/ (CloseRemove(w) /\ wr[w].pc = "remove" /\ cur' = None)
  BY RegistryStep
<1>4. \A s \in Sessions : sess[s].closed => sess'[s].closed
  BY ThreadsOpenNothing
<1>5. \A s \in Sessions :
         sess'[s].closed = sess[s].closed \/ (CloseRetire(w) /\ s = wr[w].s /\ sess'[s].closed)
  BY SessionStep
<1>6. \A v \in Threads : Busy(v)' => Busy(v) /\ wr'[v].s = wr[v].s
  <2> SUFFICES ASSUME NEW v \in Threads, Busy(v)' PROVE Busy(v) /\ wr'[v].s = wr[v].s
    OBVIOUS
  <2>1. CASE v = w
    BY <1>1, <1>2, <2>1 DEF Busy, Rests, GoesOn, Becomes
  <2>2. CASE v # w
    <3>1. wr'[v] = wr[v]
      BY <1>2, <2>2 DEF Rests, GoesOn, Becomes, Others
    <3>2. wr[v].pc # "rest" /\ wr[v].s \in Sessions
      BY <2>2, <3>1, AtWork DEF Busy
    <3> QED
      BY <1>4, <3>1, <3>2 DEF Busy, Straggling
  <2> QED
    BY <2>1, <2>2
<1>7. CloseRemove(w) => cur = None \/ sess[cur].closed
  BY DEF CloseRemove, Closers, OneSession, Busy, Straggling
<1>8. OneSession'
  <2>1. \A s \in Sessions : s # cur' => sess'[s].closed
    BY <1>1, <1>3, <1>4, <1>7 DEF OneSession
  <2> QED
    BY <1>1, <1>3, <1>6, <2>1 DEF OneSession
<1>9. Closers'
  <2> SUFFICES ASSUME NEW v \in Threads, wr'[v].pc \in ClosePcs
               PROVE  /\ wr'[v].call = "close"
                      /\ wr'[v].pc = "remove" => sess'[wr'[v].s].closed
    BY DEF Closers, ClosePcs
  <2>1. CASE v # w
    <3>1. wr'[v] = wr[v] /\ wr[v].s \in Sessions
      BY <1>2, <2>1, AtWork DEF Rests, GoesOn, Becomes, Others, ClosePcs
    <3> QED
      BY <1>4, <3>1 DEF Closers
  <2>2. CASE v = w
    <3>1. PICK pc : Becomes(w, pc) /\ (pc \in ClosePcs => wr[w].call = "close")
                    /\ (pc = "remove" <=> CloseRetire(w))
      BY <1>1, <1>2, <2>2 DEF GoesOn, Rests, ClosePcs
    <3>2. CloseRetire(w) => sess'[wr[w].s].closed
      <4> SUFFICES ASSUME CloseRetire(w) PROVE sess'[wr[w].s].closed
        OBVIOUS
      <4>1. sess[wr[w].s] \in SessionState
        BY <1>1, AtWork DEF CloseRetire
      <4> QED
        BY <1>1, <4>1, RetireEffect, Zenon DEF SessionState
    <3> QED
      BY <2>2, <3>1, <3>2 DEF Becomes
  <2> QED
    BY <2>1, <2>2
<1> QED
  BY <1>8, <1>9 DEF CallInv

(* A step of nobody leaves who is at work as it was.                         *)
LEMMA CallKept ==
    ASSUME TypeInv, CallInv, UNCHANGED <<cur, opening, wr>>,
           \A s \in Sessions : sess'[s].closed = sess[s].closed,
           ed'.pc # "idle" => ed'.s = ed.s /\ ed.pc # "idle"
    PROVE  CallInv' /\ (OneClose => OneClose')
<1>1. \A w \in Threads : Busy(w)' = Busy(w)
  BY AtWork DEF Busy, Straggling
<1>2. OneSession'
  BY <1>1 DEF CallInv, OneSession
<1>3. Closers'
  BY AtWork DEF CallInv, Closers, ClosePcs
<1>4. cur # None => cur \in Sessions
  BY DEF TypeInv, TypeOK
<1>5. OneClose => \A w \in Threads : wr[w].call = "close" => cur \in Sessions
  BY AtWork DEF OneClose
<1>6. cur \in Sessions => sess'[cur].closed = sess[cur].closed
  OBVIOUS
<1>7. OneClose => OneClose'
  BY <1>4, <1>5, <1>6 DEF OneClose
<1> QED
  BY <1>2, <1>3, <1>7 DEF CallInv

(* A thread that starts on the open session. *)
LEMMA CallStarts ==
    ASSUME CoreInv, CallInv, NEW w \in Threads, UNCHANGED <<cur, opening, sess, ed>>,
           Others(w), wr[w].pc = "rest", wr'[w].s \in Sessions,
           \/ wr'[w].call = "timer" /\ wr'[w].pc = "flush"
           \/ /\ wr'[w].call \in {"flush", "reload", "close"} /\ wr'[w].pc = wr'[w].call
              /\ wr'[w].s = cur /\ w \in Workers
    PROVE  /\ CallInv'
           /\ OneClose /\ (wr'[w].call = "close" => ~Closing(cur)) => OneClose'
<1>0. TypeInv /\ OpenAlone /\ EditInStep /\ OneSession /\ Closers
  BY DEF CoreInv, SequencesInStep, CallInv
<1>1. \A v \in Threads : Busy(v)' => v = w \/ (Busy(v) /\ wr'[v] = wr[v])
  BY DEF Busy, Straggling, Others
<1>2. Busy(w)' => wr'[w].s = cur
  BY <1>0 DEF Busy, Straggling, OneSession
<1>3. Busy(w)' => opening = None /\ cur \in Sessions /\ (ed.pc # "idle" => ed.s = cur)
  BY <1>0, <1>2, NothingIsSomething DEF OpenAlone, EditInStep
<1>4. \A v \in Threads : Busy(v)' => /\ opening = None
                                     /\ cur \in {wr'[v].s, None}
                                     /\ ed.pc # "idle" => ed.s = wr'[v].s
  BY <1>0, <1>1, <1>2, <1>3 DEF OneSession
<1>5. \A u, v \in Threads : Busy(u)' /\ Busy(v)' => wr'[u].s = wr'[v].s
  <2>1. \A v \in Threads : Busy(v)' /\ Busy(w)' => wr'[v].s = cur
    BY <1>2, <1>3, <1>4, NothingIsSomething
  <2> QED
    BY <1>0, <1>1, <1>2, <2>1 DEF OneSession
<1>6. OneSession'
  BY <1>0, <1>4, <1>5 DEF OneSession
<1>7. Closers'
  BY <1>0 DEF Closers, Others, ClosePcs
<1>8. ASSUME OneClose, wr'[w].call = "close" => ~Closing(cur) PROVE OneClose'
  <2>1. \A v \in Threads : wr[v].call = "close" => v # w /\ wr'[v] = wr[v]
    BY <1>8 DEF OneClose, Others
  <2>2. CASE wr'[w].call # "close"
    <3>1. \A v \in Threads : wr'[v].call = "close" => wr[v].call = "close" /\ wr'[v] = wr[v]
      BY <2>2 DEF Others
    <3>2. Workers \subseteq Threads
      BY DEF Threads
    <3> QED
      BY <1>0, <1>8, <2>1, <3>1, <3>2 DEF OneClose
  <2>3. CASE wr'[w].call = "close"
    <3>1. wr'[w].pc = "close" /\ wr'[w].s = cur /\ w \in Workers /\ ~Closing(cur)
      BY <1>8, <2>3
    <3>2. \A v \in Threads : wr[v].call # "close"
      BY <1>8, <3>1 DEF OneClose, Closing
    <3>3. ~sess[cur].closed
      BY <1>8, <3>1, <3>2, NothingIsSomething DEF OneClose, Threads
    <3> QED
      BY <1>8, <2>3, <3>1, <3>2, <3>3 DEF OneClose, Others
  <2> QED
    BY <2>2, <2>3
<1> QED
  BY <1>6, <1>7, <1>8 DEF CallInv

(* An edit closes no session.                                                *)
LEMMA EditClosesNothing ==
    ASSUME TypeInv, NEW text \in Texts, EditInstall(text)
    PROVE  \A s \in Sessions : sess'[s].closed = sess[s].closed
<1>1. sess'[cur].closed = sess[cur].closed
  BY EditEffect, Zenon DEF SessionState
<1> QED
  BY <1>1, EditEffect, Zenon DEF SameSessionsBut

(* Nor does its outcome.                                                     *)
LEMMA SettleClosesNothing ==
    ASSUME TypeInv, EditSettles \/ (\E file \in Files : GuestChanges(file)) \/ UNCHANGED vars
    PROVE  /\ UNCHANGED <<cur, opening, wr>>
           /\ \A s \in Sessions : sess'[s].closed = sess[s].closed
           /\ ed'.pc # "idle" => ed'.s = ed.s /\ ed.pc # "idle"
<1>1. CASE EditDraft \/ EditRetain
  BY <1>1, IdleTypes DEF EditDraft, EditRetain, Acknowledge
<1>2. CASE EditDraftFails
  BY <1>2 DEF EditDraftFails, TypeInv, TypeOK, EditorState
<1>3. CASE EditUndo
  <2>1. sess[ed.s] \in SessionState
    BY <1>3, UndoEffect DEF TypeInv, TypeOK
  <2>2. sess'[ed.s].closed = sess[ed.s].closed
    BY <1>3, <2>1, UndoEffect DEF SessionState
  <2>3. UNCHANGED <<cur, opening, wr>> /\ ed'.pc = "idle"
    BY <1>3, IdleTypes DEF EditUndo
  <2> QED
    BY <1>3, <2>2, <2>3, UndoEffect DEF SameSessionsBut
<1>4. CASE (\E file \in Files : GuestChanges(file)) \/ UNCHANGED vars
  BY <1>4 DEF GuestChanges, vars
<1> QED
  BY <1>1, <1>2, <1>3, <1>4 DEF EditSettles

(* A Note opens beside nobody but timers that will find their session closed. *)
LEMMA OpenStaysAlone ==
    ASSUME CoreInv, CallInv, OpenInstall
    PROVE  \A w \in Threads : ~Busy(w)' /\ wr'[w].pc \notin ClosePcs /\ ~Busy(w)
<1> SUFFICES ASSUME NEW w \in Threads PROVE ~Busy(w)' /\ wr'[w].pc \notin ClosePcs /\ ~Busy(w)
  OBVIOUS
<1>0. TypeInv /\ OfOpened
  BY DEF CoreInv, LockInv
<1>1. ~Busy(w) /\ UNCHANGED wr
  BY DEF CallInv, OneSession, OpenInstall
<1>2. wr[w].pc \notin ClosePcs
  BY <1>1 DEF Busy, Straggling, ClosePcs
<1>3. CASE wr[w].pc # "rest"
  <2>1. Straggling(w) /\ wr[w].s \in opened /\ wr[w].s \in Sessions
    BY <1>0, <1>1, <1>3, AtWork DEF Busy, OfOpened
  <2> QED
    BY <1>0, <1>1, <1>2, <2>1, OpenEffect DEF Busy, Straggling, SameSessionsBut
<1> QED
  BY <1>1, <1>2, <1>3 DEF Busy

LEMMA CallNext == ~Stragglers /\ CoreInv /\ CallInv /\ [Next]_vars => CallInv'
<1> SUFFICES ASSUME ~Stragglers, CoreInv, CallInv, [Next]_vars PROVE CallInv'
  OBVIOUS
<1>0. TypeInv /\ OpenAlone /\ OfOpened /\ EditInStep /\ OneSession /\ Closers
  BY DEF CoreInv, LockInv, SequencesInStep, CallInv
<1>1. CASE OpenRead
  <2>1. \A w \in Threads : wr[w].pc = "rest"
    BY <1>1 DEF OpenRead, Quiet
  <2>2. UNCHANGED <<cur, sess, ed, wr>>
    BY <1>1 DEF OpenRead
  <2> QED
    BY <1>0, <2>1, <2>2 DEF CallInv, OneSession, Closers, Busy, ClosePcs
<1>2. CASE OpenRefused
  <2>1. UNCHANGED <<cur, sess, ed, wr>> /\ opening' = None
    BY <1>2 DEF OpenRefused
  <2>2. \A w \in Threads : Busy(w)' = Busy(w)
    BY <2>1 DEF Busy, Straggling
  <2> QED
    BY <1>0, <2>1, <2>2 DEF CallInv, OneSession, Closers
<1>3. CASE OpenInstall
  <2>1. \A w \in Threads : ~Busy(w)' /\ wr'[w].pc \notin ClosePcs
    BY <1>0, <1>3, OpenStaysAlone
  <2>2. cur = None
    BY <1>0, <1>3 DEF OpenInstall, OpenAlone
  <2>3. \A s \in Sessions : s # cur' => sess'[s].closed
    BY <1>0, <1>3, <2>2, NothingIsSomething, OpenEffect DEF OneSession, SameSessionsBut
  <2> QED
    BY <2>1, <2>3 DEF CallInv, OneSession, Closers, ClosePcs
<1>4. CASE \E text \in Texts : EditInstall(text)
  <2>1. PICK text \in Texts : EditInstall(text)
    BY <1>4
  <2>2. UNCHANGED <<cur, opening, wr>> /\ cur # None /\ cur \in Sessions /\ ed'.s = cur
    BY <1>0, <2>1, EditEffect, Zenon DEF EditInstall
  <2>3. \A s \in Sessions : sess'[s].closed = sess[s].closed
    BY <1>0, <2>1, EditClosesNothing
  <2>4. \A w \in Threads : Busy(w)' = Busy(w)
    BY <1>0, <2>2, <2>3, AtWork DEF Busy, Straggling
  <2>5. OneSession'
    BY <1>0, <2>2, <2>3, <2>4 DEF OneSession
  <2>6. Closers'
    BY <1>0, <2>2, <2>3, AtWork DEF Closers, ClosePcs
  <2> QED
    BY <2>5, <2>6 DEF CallInv
<1>5. CASE EditSettles \/ (\E file \in Files : GuestChanges(file)) \/ UNCHANGED vars
  BY <1>0, <1>5, CallKept, SettleClosesNothing
<1>6. CASE \E s \in Sessions : TimerFires(s)
  <2>1. PICK s \in Sessions : TimerFires(s)
    BY <1>6
  <2>2. UNCHANGED <<cur, opening, sess, ed>>
    BY <2>1 DEF TimerFires
  <2> QED
    BY <1>0, <2>1, <2>2, CallStarts, TimerEffect
<1>7. CASE \E w \in Workers, call \in {"flush", "reload", "close"} : Call(w, call)
  <2>1. PICK w \in Workers, call \in {"flush", "reload", "close"} : Call(w, call)
    BY <1>7
  <2>2. UNCHANGED <<cur, opening, sess, ed>>
    BY <2>1 DEF Call
  <2>3. /\ Others(w) /\ w \in Threads /\ wr[w].pc = "rest"
        /\ wr'[w].pc = call /\ wr'[w].call = call /\ wr'[w].s = cur /\ cur \in Sessions
    BY <1>0, <2>1, CallEffect
  <2>4. w \in Workers /\ call \in {"flush", "reload", "close"}
    BY <2>1
  <2> HIDE <2>1
  <2> QED
    BY <1>0, <2>2, <2>3, <2>4, CallStarts
<1>8. CASE \E w \in Threads : Thread(w)
  BY <1>0, <1>8, CallThread
<1>9. CASE Crash
  <2>1. ed'.pc = "idle" /\ \A w \in Threads : wr'[w].pc = "rest"
    BY <1>9, IdleTypes DEF Crash
  <2>2. \A s \in Sessions : sess'[s].closed
    BY <1>9 DEF Crash, NoSession
  <2> QED
    BY <2>1, <2>2 DEF CallInv, OneSession, Closers, Busy, ClosePcs
<1> QED
  BY <1>1, <1>2, <1>3, <1>4, <1>5, <1>6, <1>7, <1>8, <1>9 DEF Next, Open

(* The steps of a flush that has a snapshot.                                 *)
Writing == {"check", "write", "record", "clear", "index"}

(* The steps of a close that has a flush behind it.                          *)
Covering == {"commit", "unstage"}

(* Threads that are neither at rest nor waiting for a lock. *)
Engaged == Holding \cup Covering \cup {"retire", "remove"}

(* An engaged thread works for the current session.                          *)
LEMMA EngagedFor ==
    ASSUME CoreInv, CallInv, NEW w \in Threads, wr[w].pc \in Engaged
    PROVE  /\ opening = None /\ cur \in {wr[w].s, None} /\ wr[w].s \in Sessions
           /\ ed.pc # "idle" => ed.s = wr[w].s /\ sess[wr[w].s].seq = ed.seq /\ ed.seq = ed.prev.seq + 1
           /\ \A v \in Threads : wr[v].pc \in Engaged => wr[v].s = wr[w].s
<1>1. \A v \in Threads : wr[v].pc \in Engaged => Busy(v)
  BY DEF Engaged, Holding, Covering, Busy, Straggling
<1> QED
  BY <1>1, AtWork DEF CoreInv, CallInv, OneSession, SequencesInStep, EditInStep, Busy

(* Only one thread holds the write lock of the current session.              *)
LEMMA HoldsAlone ==
    ASSUME CoreInv, CallInv, NEW v \in Threads, NEW w \in Threads,
           wr[v].pc \in Holding, wr[w].pc \in Holding
    PROVE  v = w
<1>1. wr[v].s = wr[w].s
  BY EngagedFor DEF Engaged
<1> QED
  BY <1>1 DEF CoreInv, LockInv, LocksHeld

(* The sequence of the text last acknowledged: the edit in flight has        *)
(* already taken the next.                                                   *)
AckedSeq(s) == IF ed.pc = "idle" THEN sess[s].seq ELSE ed.prev.seq

LEMMA Numbers ==
    ASSUME TypeInv
    PROVE  /\ \A w \in Threads : wr[w].seq \in Nat
           /\ \A s \in Sessions : sess[s].seq \in Nat /\ AckedSeq(s) \in Nat
           /\ draft # None => draft.seq \in Nat
           /\ ed.seq \in Nat /\ ed.prev.seq \in Nat
BY DEF TypeInv, TypeOK, ThreadState, SessionState, EditorState, Rollback, AckedSeq, DraftRow

-----------------------------------------------------------------------------
(* The baseline of the OCC check.                                            *)

(* What an open has read is still in the file, unless a guest changed it.    *)
OpeningFresh == opening # None => disk = opening \/ foreign

(* The steps under the write lock at which the file is what the revision     *)
(* says.                                                                     *)
Comparing == Holding \ {"record", "install"}

(* What a thread under the write lock knows of the file: the revision        *)
(* before it writes, its own text after.                                     *)
FreshFor(w) ==
    ~foreign /\ wr[w].s = cur =>
        /\ wr[w].pc \in Comparing => Hash(disk) = sess[cur].rev
        /\ wr[w].pc \in {"check", "write"} => wr[w].rev = sess[cur].rev
        /\ wr[w].pc = "record" => Hash(disk) = wr[w].text
        /\ wr[w].pc \in {"discard", "install"} => disk = wr[w].text

(* The baseline, with what the threads between its two updates know.         *)
FreshInv == BaselineIsDisk /\ OpeningFresh /\ \A w \in Threads : FreshFor(w)

LEMMA FreshInit == Init => FreshInv
BY IdleTypes DEF Init, FreshInv, BaselineIsDisk, OpeningFresh, FreshFor, Comparing, Holding

(* Nothing touches the file, the revision or a lock, and no thread enters a write. *)
LEMMA FreshKept ==
    ASSUME TypeInv, FreshInv, UNCHANGED <<disk, foreign, cur, wlock>>,
           opening' = opening \/ opening' = None \/ opening' = disk,
           cur # None => sess'[cur].rev = sess[cur].rev,
           \A v \in Threads : wr'[v].pc \in Holding => wr'[v] = wr[v]
    PROVE  FreshInv'
<1>1. BaselineIsDisk' /\ OpeningFresh'
  BY DEF FreshInv, BaselineIsDisk, OpeningFresh
<1>2. ASSUME NEW v \in Threads PROVE FreshFor(v)'
  <2>1. CASE wr'[v].pc \in Holding
    <3>1. wr'[v] = wr[v] /\ (wr[v].s = cur => cur # None)
      BY <2>1, AtWork, NothingIsSomething DEF Holding
    <3> QED
      BY <3>1 DEF FreshInv, FreshFor
  <2>2. CASE wr'[v].pc \notin Holding
    BY <2>2 DEF FreshFor, Comparing, Holding
  <2> QED
    BY <2>1, <2>2
<1> QED
  BY <1>1, <1>2 DEF FreshInv

(* The step of a thread that holds the write lock disturbs nobody else.      *)
LEMMA HolderSteps ==
    ASSUME CoreInv, CallInv, NEW w \in Threads, wr[w].pc \in Holding, Thread(w)
    PROVE  /\ wr[w].s \in Sessions /\ cur \in {wr[w].s, None} /\ cur' = cur
           /\ OpeningFresh'
           /\ Others(w) /\ \A v \in Threads \ {w} : FreshFor(v)'
<1>0. TypeInv
  BY DEF CoreInv
<1>1. opening = None /\ cur \in {wr[w].s, None} /\ wr[w].s \in Sessions
  BY EngagedFor DEF Engaged
<1>2. Others(w) /\ opening' = opening
  BY <1>0, ThreadStep DEF Rests, Becomes
<1>3. cur' = cur
  BY RegistryStep DEF Holding
<1>4. \A v \in Threads \ {w} : wr'[v].pc \notin Holding
  BY <1>2, HoldsAlone DEF Others
<1> QED
  BY <1>1, <1>2, <1>3, <1>4 DEF OpeningFresh, FreshFor, Comparing, Holding

(* It goes on holding the lock: only its own part has to be shown.           *)
LEMMA HolderGoesOn ==
    ASSUME CoreInv, CoreInv', CallInv, NEW w \in Threads, wr[w].pc \in Holding, Thread(w),
           wr'[w].pc \in Holding, wr'[w].s = wr[w].s, FreshFor(w)'
    PROVE  FreshInv'
<1>1. /\ wr[w].s \in Sessions /\ cur \in {wr[w].s, None} /\ cur' = cur
      /\ OpeningFresh' /\ \A v \in Threads \ {w} : FreshFor(v)'
  BY HolderSteps
<1>2. wlock'[wr[w].s] = w
  BY DEF CoreInv, LockInv, LocksHeld
<1>3. BaselineIsDisk'
  BY <1>1, <1>2, NothingIsSomething DEF BaselineIsDisk
<1> QED
  BY <1>1, <1>3 DEF FreshInv

(* It gives the lock back: the baseline itself has to be shown.              *)
LEMMA HolderLetsGo ==
    ASSUME CoreInv, CallInv, NEW w \in Threads, wr[w].pc \in Holding, Thread(w),
           wr'[w].pc \notin Holding,
           ~foreign' /\ cur = wr[w].s => (Hash(disk) = sess[cur].rev)'
    PROVE  FreshInv'
<1>1. /\ wr[w].s \in Sessions /\ cur \in {wr[w].s, None} /\ cur' = cur
      /\ OpeningFresh' /\ \A v \in Threads \ {w} : FreshFor(v)'
  BY HolderSteps
<1>2. BaselineIsDisk'
  BY <1>1 DEF BaselineIsDisk
<1>3. FreshFor(w)'
  BY DEF FreshFor, Comparing, Holding
<1> QED
  BY <1>1, <1>2, <1>3 DEF FreshInv

(* A write and a reload record the revision of the text they hold.           *)
LEMMA InstallRecords ==
    ASSUME TypeInv, NEW w \in Threads, ReloadInstall(w)
    PROVE  sess'[wr[w].s].rev = wr[w].text
<1>1. sess[wr[w].s] \in SessionState
  BY AtWork DEF ReloadInstall, TypeInv, TypeOK
<1> QED
  BY <1>1, InstallEffect, Zenon DEF SessionState

(* Every step of a flush, a reload or a close.                               *)
LEMMA FreshThread ==
    \A w \in Threads : CoreInv /\ CoreInv' /\ CallInv /\ FreshInv /\ Thread(w) => FreshInv'
<1> SUFFICES ASSUME NEW w \in Threads, CoreInv, CoreInv', CallInv, FreshInv, Thread(w) PROVE FreshInv'
  OBVIOUS
<1>0. TypeInv /\ FreshFor(w)
  BY DEF CoreInv, FreshInv
<1>1. Others(w) /\ wr[w].s \in Sessions /\ opening' = opening
  BY <1>0, ThreadStep DEF Rests, Becomes
<1>r. \A s \in Sessions : wr[w].pc \notin {"record", "install"} => sess'[s].rev = sess[s].rev
  BY <1>0, SessionStep, Zenon DEF KeepsText, FlushRecord, ReloadInstall
<1>2. CASE FlushSnapshot(w)
  <2>1. /\ UNCHANGED <<disk, foreign, cur, sess>> /\ wr[w].pc = "flush" /\ ~sess[wr[w].s].closed
        /\ wlock[wr[w].s] = None
    BY <1>2 DEF FlushSnapshot, store, history
  <2>2. /\ wr'[w].pc = "check" /\ wr'[w].s = wr[w].s
        /\ wr'[w].rev = sess[wr[w].s].rev /\ wlock'[wr[w].s] = w
        /\ \A s \in Sessions \ {wr[w].s} : wlock'[s] = wlock[s]
    BY <1>0, <1>1, <1>2, SnapshotEffect, Zenon DEF Becomes, FlushSnapshot, TypeInv, TypeOK
  <2>3. cur = wr[w].s
    BY <1>1, <2>1 DEF CallInv, OneSession
  <2>4. BaselineIsDisk' /\ OpeningFresh'
    BY <1>1, <2>1, <2>2, <2>3, NothingIsSomething DEF BaselineIsDisk, FreshInv, OpeningFresh
  <2>5. FreshFor(w)'
    BY <1>1, <2>1, <2>2, <2>3, NothingIsSomething DEF FreshFor, FreshInv, BaselineIsDisk
  <2>6. \A v \in Threads \ {w} : FreshFor(v)'
    BY <1>1, <2>1 DEF FreshFor, FreshInv, Others
  <2> QED
    BY <2>4, <2>5, <2>6 DEF FreshInv
<1>3. CASE FlushCheck(w)
  <2>1. UNCHANGED <<disk, foreign, cur, sess>> /\ wr[w].pc = "check" /\ Becomes(w, "write") /\ KeepsWork(w)
    BY <1>0, <1>3, GotoBecomes DEF FlushCheck, store, history
  <2>2. FreshFor(w)'
    BY <1>0, <2>1 DEF FreshFor, Becomes, KeepsWork, Comparing, Holding
  <2> QED
    BY <2>1, <2>2, HolderGoesOn DEF Becomes, Holding
<1>4. CASE FlushWrite(w)
  <2>1. /\ UNCHANGED <<cur, sess>> /\ wr[w].pc = "write" /\ Becomes(w, "record") /\ KeepsWork(w)
        /\ \/ disk' = wr[w].text
           \/ UNCHANGED <<disk, foreign>> /\ wr[w].text = wr[w].rev
    BY <1>0, <1>4, GotoBecomes DEF FlushWrite
  <2>2. wr[w].text \in Texts /\ Absent \notin Texts
    BY <1>0, TextsAssumption DEF TypeInv, TypeOK, ThreadState
  <2>3. FreshFor(w)'
    BY <1>0, <2>1, <2>2 DEF FreshFor, Becomes, KeepsWork, Comparing, Holding, Hash
  <2> QED
    BY <2>1, <2>3, HolderGoesOn DEF Becomes, Holding
<1>5. CASE FlushRecord(w)
  <2>1. UNCHANGED <<disk, foreign, cur>> /\ wr[w].pc = "record" /\ Becomes(w, "clear")
    BY <1>0, <1>5, GotoBecomes DEF FlushRecord, store, history
  <2>2. sess'[wr[w].s].rev = wr[w].text
    <3>1. sess[wr[w].s] \in SessionState
      BY <1>0, <1>5, AtWork DEF FlushRecord
    <3> QED
      BY <1>0, <1>5, <3>1, RecordEffect, Zenon DEF SessionState
  <2>3. FreshFor(w)'
    BY <1>0, <2>1, <2>2 DEF FreshFor, Becomes, Comparing, Holding
  <2> QED
    BY <2>1, <2>3, HolderGoesOn DEF Becomes, Holding
<1>6. CASE FlushClear(w)
  <2>1. UNCHANGED <<disk, foreign, cur, sess>> /\ wr[w].pc = "clear" /\ Becomes(w, "index")
    BY <1>0, <1>6, GotoBecomes DEF FlushClear, history
  <2>2. FreshFor(w)'
    BY <1>0, <2>1 DEF FreshFor, Becomes, Comparing, Holding
  <2> QED
    BY <2>1, <2>2, HolderGoesOn DEF Becomes, Holding
<1>7. CASE FlushSettle(w) \/ FlushFails(w) \/ ReloadFails(w)
  <2>0. sess'[wr[w].s].rev = sess[wr[w].s].rev
    BY <1>1, <1>r, <1>7 DEF FlushSettle, FlushFails, FlushError, ReloadFails
  <2>1. UNCHANGED <<disk, foreign>> /\ wr'[w].pc \notin Holding
    <3>1. CASE FlushSettle(w)
      BY <1>0, <3>1, SettleEffect, IdleTypes, Zenon DEF FlushSettle, store, history, Rests, Becomes, Holding
    <3>2. CASE FlushFails(w)
      BY <1>0, <3>2, FailsEffect, IdleTypes DEF FlushFails, store, history, Rests, Becomes, Holding
    <3>3. CASE ReloadFails(w)
      BY <1>0, <3>3, RestRests, IdleTypes DEF ReloadFails, store, history, Rests, Holding
    <3> QED
      BY <1>7, <3>1, <3>2, <3>3
  <2>2. CASE wr[w].pc \in Holding
    <3>1. wr[w].pc \in Comparing
      BY <1>7, <2>2 DEF FlushSettle, FlushFails, FlushError, ReloadFails, Comparing, Holding
    <3>2. cur' = cur
      BY <2>2, HolderSteps
    <3> QED
      BY <1>0, <2>0, <2>1, <2>2, <3>1, <3>2, HolderLetsGo DEF FreshFor
  <2>3. CASE wr[w].pc \notin Holding
    <3>1. /\ ReloadFails(w) /\ wlock[wr[w].s] = None
      BY <1>7, <2>3 DEF FlushSettle, FlushFails, FlushError, ReloadFails, Holding
    <3>2. UNCHANGED <<cur, wlock, sess>>
      BY <1>0, <1>1, <3>1 DEF ReloadFails, TypeInv, TypeOK
    <3> QED
      BY <1>0, <1>1, <2>1, <3>2, FreshKept DEF Others
  <2> QED
    BY <2>2, <2>3
<1>8. CASE ReloadRead(w)
  <2>1. UNCHANGED <<disk, foreign, cur, sess>> /\ wlock[wr[w].s] = None /\ wr[w].pc = "reload"
    BY <1>8 DEF ReloadRead, store, history
  <2>2. CASE disk = Absent
    <3>1. wr'[w].pc = "rest" /\ UNCHANGED wlock
      BY <1>0, <1>8, <2>2, ReadEffect, IdleTypes DEF ReloadRead, Rests
    <3> QED
      BY <1>0, <1>1, <2>1, <3>1, FreshKept DEF Others, Holding
  <2>3. CASE disk # Absent
    <3>1. wr'[w].pc = "discard" /\ wr'[w].text = disk /\ wr'[w].s = wr[w].s
      BY <1>0, <1>8, <2>3, ReadEffect DEF Becomes
    <3>2. /\ wlock'[wr[w].s] = w
          /\ \A s \in Sessions \ {wr[w].s} : wlock'[s] = wlock[s]
      BY <1>0, <1>1, <1>8, <2>3 DEF ReloadRead, TypeInv, TypeOK
    <3>3. cur \in {wr[w].s, None}
      BY <2>1 DEF CallInv, OneSession, Busy, Straggling
    <3>4. BaselineIsDisk' /\ OpeningFresh'
      BY <1>1, <2>1, <3>2, <3>3, NothingIsSomething DEF BaselineIsDisk, FreshInv, OpeningFresh
    <3>5. FreshFor(w)'
      BY <1>1, <2>1, <3>1, NothingIsSomething DEF FreshFor, FreshInv, BaselineIsDisk
    <3>6. \A v \in Threads \ {w} : FreshFor(v)'
      BY <1>1, <2>1 DEF FreshFor, FreshInv, Others
    <3> QED
      BY <3>4, <3>5, <3>6 DEF FreshInv
  <2> QED
    BY <2>2, <2>3
<1>9. CASE ReloadDiscard(w)
  <2>1. /\ UNCHANGED <<disk, cur, sess>> /\ wr[w].pc = "discard" /\ Becomes(w, "install") /\ KeepsWork(w)
        /\ foreign' = (foreign /\ disk # wr[w].text)
    BY <1>0, <1>9, GotoBecomes DEF ReloadDiscard
  <2>2. wr[w].s = cur /\ ~foreign' => disk = wr[w].text
    BY <1>0, <2>1, Zenon DEF FreshFor
  <2>3. FreshFor(w)'
    BY <2>1, <2>2 DEF FreshFor, Becomes, KeepsWork, Comparing, Holding
  <2> QED
    BY <2>1, <2>3, HolderGoesOn DEF Becomes, Holding
<1>10. CASE ReloadInstall(w)
  <2>1. UNCHANGED <<disk, foreign>> /\ wr[w].pc = "install" /\ wr'[w].pc = "rest"
    BY <1>0, <1>10, InstallEffect, IdleTypes, Zenon DEF ReloadInstall, store, Rests
  <2>2. sess'[wr[w].s].rev = wr[w].text
    BY <1>0, <1>1, <1>10, InstallRecords
  <2>3. wr[w].text \in Texts /\ Absent \notin Texts
    BY <1>0, TextsAssumption DEF TypeInv, TypeOK, ThreadState
  <2>4. cur' = cur
    BY <2>1, HolderSteps DEF Holding
  <2> QED
    BY <1>0, <2>1, <2>2, <2>3, <2>4, HolderLetsGo DEF FreshFor, Holding, Hash
<1>11. CASE FlushClosed(w) \/ CloseBegin(w) \/ CloseCommit(w) \/ CloseCommitFails(w) \/ CloseClear(w)
            \/ CloseRetire(w)
  <2>1. UNCHANGED <<disk, foreign, cur, wlock>>
    BY <1>11 DEF FlushClosed, CloseBegin, CloseCommit, CloseCommitFails, CloseClear, CloseRetire,
       store, history, locks
  <2>2. wr'[w].pc \notin Holding
    <3>1. CASE FlushClosed(w)
      BY <1>0, <3>1, ClosedEffect, IdleTypes DEF Rests, Becomes, Holding
    <3>2. CASE CloseBegin(w)
      BY <1>0, <3>2, BeginEffect DEF Becomes, Holding
    <3>3. CASE CloseCommit(w) \/ CloseCommitFails(w) \/ CloseClear(w)
      BY <1>0, <3>3, GotoBecomes DEF CloseCommit, CloseCommitFails, CloseClear, Becomes, Holding
    <3>4. CASE CloseRetire(w)
      BY <1>0, <3>4, RetireEffect, Zenon DEF Becomes, Holding
    <3> QED
      BY <1>11, <3>1, <3>2, <3>3, <3>4
  <2>3. cur # None => sess'[cur].rev = sess[cur].rev
    <3>1. cur # None => cur \in Sessions
      BY <1>0 DEF TypeInv, TypeOK
    <3>2. wr[w].pc \notin {"record", "install"}
      BY <1>11 DEF FlushClosed, CloseBegin, CloseCommit, CloseCommitFails, CloseClear, CloseRetire
    <3> QED
      BY <1>r, <3>1, <3>2
  <2> QED
    BY <1>0, <1>1, <2>1, <2>2, <2>3, FreshKept DEF Others
<1>12. CASE CloseRemove(w)
  <2>1. cur' = None /\ UNCHANGED <<disk, foreign>> /\ wr'[w].pc = "rest"
    BY <1>0, <1>12, RestRests, IdleTypes DEF CloseRemove, store, history, Rests
  <2>2. \A v \in Threads : wr'[v].pc \in Holding => wr'[v].s # None
    BY <1>0, <1>1, <2>1, AtWork, NothingIsSomething DEF Others, Holding
  <2> QED
    BY <1>1, <2>1, <2>2 DEF FreshInv, BaselineIsDisk, OpeningFresh, FreshFor, Comparing, Holding
<1> QED
  BY <1>2, <1>3, <1>4, <1>5, <1>6, <1>7, <1>8, <1>9, <1>10, <1>11, <1>12 DEF Thread, Flush, Reload, Close

LEMMA FreshNext == CoreInv /\ CoreInv' /\ CallInv /\ FreshInv /\ [Next]_vars => FreshInv'
<1> SUFFICES ASSUME CoreInv, CoreInv', CallInv, FreshInv, [Next]_vars PROVE FreshInv'
  OBVIOUS
<1>0. TypeInv /\ OpenAlone
  BY DEF CoreInv, SequencesInStep
<1>1. CASE OpenRead \/ OpenRefused \/ UNCHANGED vars
  BY <1>0, <1>1, FreshKept DEF OpenRead, OpenRefused, store, history, locks, vars
<1>2. CASE OpenInstall
  <2>1. /\ UNCHANGED <<disk, wr>> /\ opening' = None /\ opening # None
        /\ foreign' = (foreign /\ disk # opening)
    BY <1>2 DEF OpenInstall, store
  <2>2. sess'[cur'].rev = Hash(opening)
    BY <1>0, <1>2, OpenEffect DEF OpenedState, NoSession
  <2>3. \A w \in Threads : wr'[w].pc \notin Holding
    <3>1. \A w \in Threads : wr[w].pc \notin Engaged
      BY <1>2, EngagedFor DEF OpenInstall
    <3> QED
      BY <2>1, <3>1 DEF Engaged
  <2> QED
    BY <2>1, <2>2, <2>3 DEF FreshInv, BaselineIsDisk, OpeningFresh, FreshFor, Comparing, Holding
<1>3. CASE \E text \in Texts : EditInstall(text)
  <2>1. PICK text \in Texts : EditInstall(text)
    BY <1>3
  <2>2. UNCHANGED <<disk, foreign, cur, wlock, opening, wr>>
    BY <2>1 DEF EditInstall, store, locks
  <2>3. sess'[cur].rev = sess[cur].rev
    BY <1>0, <2>1, EditEffect, Zenon DEF SessionState
  <2> QED
    BY <1>0, <2>2, <2>3, FreshKept
<1>4. CASE EditSettles
  <2>1. UNCHANGED <<disk, foreign, cur, wlock, opening, wr>>
    BY <1>4 DEF EditSettles, EditDraft, EditDraftFails, EditRetain, EditUndo, Acknowledge, store, history, locks
  <2>2. cur # None => sess'[cur].rev = sess[cur].rev
    <3>1. CASE EditUndo
      <4>1. \A s \in Sessions : sess'[s].rev = sess[s].rev
        <5>1. sess[ed.s] \in SessionState
          BY <1>0, <3>1, UndoEffect DEF TypeInv, TypeOK
        <5>2. sess'[ed.s].rev = sess[ed.s].rev
          BY <1>0, <3>1, <5>1, UndoEffect DEF SessionState
        <5> QED
          BY <1>0, <3>1, <5>2, UndoEffect DEF SameSessionsBut
      <4> QED
        BY <1>0, <4>1 DEF TypeInv, TypeOK
    <3>2. CASE ~EditUndo
      BY <1>4, <3>2 DEF EditSettles, EditDraft, EditDraftFails, EditRetain
    <3> QED
      BY <3>1, <3>2
  <2> QED
    BY <1>0, <2>1, <2>2, FreshKept
<1>5. CASE \E s \in Sessions : TimerFires(s)
  <2>1. PICK s \in Sessions : TimerFires(s)
    BY <1>5
  <2>2. UNCHANGED <<disk, foreign, cur, wlock, opening, sess>>
    BY <2>1 DEF TimerFires, store, history, locks
  <2>3. Others(s) /\ s \in Threads /\ wr'[s].pc = "flush"
    BY <1>0, <2>1, TimerEffect
  <2> QED
    BY <1>0, <2>2, <2>3, FreshKept DEF Others, Holding
<1>6. CASE \E w \in Workers, call \in {"flush", "reload", "close"} : Call(w, call)
  <2>1. PICK w \in Workers, call \in {"flush", "reload", "close"} : Call(w, call)
    BY <1>6
  <2>2. UNCHANGED <<disk, foreign, cur, wlock, opening, sess>>
    BY <2>1 DEF Call, store, history, locks
  <2>3. Others(w) /\ w \in Threads /\ wr'[w].pc \notin Holding
    BY <1>0, <2>1, CallEffect DEF Holding
  <2> HIDE <2>1
  <2> QED
    BY <1>0, <2>2, <2>3, FreshKept DEF Others
<1>7. CASE \E w \in Threads : Thread(w)
  BY <1>7, FreshThread
<1>8. CASE \E file \in Files : GuestChanges(file)
  BY <1>8 DEF GuestChanges, FreshInv, BaselineIsDisk, OpeningFresh, FreshFor
<1>9. CASE Crash
  <2>1. cur' = None /\ opening' = None /\ \A w \in Threads : wr'[w].pc = "rest"
    BY <1>9, IdleTypes DEF Crash
  <2> QED
    BY <2>1 DEF FreshInv, BaselineIsDisk, OpeningFresh, FreshFor, Comparing, Holding
<1> QED
  BY <1>1, <1>2, <1>3, <1>4, <1>5, <1>6, <1>7, <1>8, <1>9 DEF Next, Open

(* The revision an open session compares the file with is that of the file,  *)
(* unless another program changed it, whenever no flush or reload is at      *)
(* work: the OCC check of flush_note_file never takes its own write for a    *)
(* conflict, and no reload, failure or close leaves a revision behind that   *)
(* was not in the file.                                                      *)
THEOREM BaselineStays == ASSUME ~Stragglers PROVE Spec => []BaselineIsDisk
<1> DEFINE Inv == CallInv /\ FreshInv
<1>1. Init => Inv
  BY CallInit, FreshInit
<1>2. CoreInv /\ CoreInv' /\ Inv /\ [Next]_vars => Inv'
  BY CallNext, FreshNext
<1>3. Inv => BaselineIsDisk
  BY DEF FreshInv
<1> QED
  BY <1>1, <1>2, <1>3, CoreHolds, PTL DEF Spec

-----------------------------------------------------------------------------
(* What the status poll answers.                                             *)

(* The steps of a flush whose file is in place.                              *)
Written == {"record", "clear", "index"}

(* What a flush has snapshotted is the buffer, or the session says that it   *)
(* has newer text.                                                           *)
HonestFor(w) ==
    wr[w].s = cur /\ ~sess[cur].closed =>
        /\ wr[w].pc \in Writing =>
              /\ wr[w].seq <= sess[cur].seq
              /\ wr[w].seq = sess[cur].seq => wr[w].text = sess[cur].buf
              /\ wr[w].seq < sess[cur].seq => sess[cur].unwritten
        /\ wr[w].pc \in Written /\ ~foreign => disk = wr[w].text
        /\ wr[w].pc = "write" /\ ~foreign => disk # Absent \/ sess[cur].awaiting
        /\ wr[w].pc \in {"check", "write", "discard"} /\ ~foreign /\ ~sess[cur].unwritten
              => disk = sess[cur].buf

(* A session that says all is written has its buffer in the file.            *)
AnswersHonestly ==
    cur # None /\ ~sess[cur].closed /\ ~sess[cur].unwritten /\ wlock[cur] = None /\ ~foreign
        => disk = sess[cur].buf

HonestInv == ed.pc # "undo" /\ AnswersHonestly /\ \A w \in Threads : HonestFor(w)

LEMMA HonestInit == Init => HonestInv
BY IdleTypes DEF Init, HonestInv, AnswersHonestly, HonestFor, Writing, Written

(* The open session shows what it showed, or is retired.                     *)
Showing ==
    cur # None =>
        \/ sess'[cur].closed
        \/ /\ sess'[cur].buf = sess[cur].buf /\ sess'[cur].seq = sess[cur].seq
           /\ sess'[cur].awaiting = sess[cur].awaiting /\ sess'[cur].closed = sess[cur].closed
           /\ sess'[cur].unwritten = sess[cur].unwritten

(* A step under no lock that leaves what the session shows.                  *)
LEMMA HonestKept ==
    ASSUME TypeInv, HonestInv, UNCHANGED <<disk, foreign, cur, wlock>>, Showing, ed'.pc # "undo",
           \A v \in Threads : wr'[v].pc \in Holding => wr'[v] = wr[v]
    PROVE  HonestInv'
<1>1. AnswersHonestly'
  BY DEF HonestInv, AnswersHonestly, Showing
<1>2. ASSUME NEW v \in Threads PROVE HonestFor(v)'
  <2>1. CASE wr'[v].pc \in Holding
    <3>1. wr'[v] = wr[v] /\ (wr[v].s = cur => cur # None)
      BY <2>1, AtWork, NothingIsSomething DEF Holding
    <3> QED
      BY <3>1 DEF HonestInv, HonestFor, Showing
  <2>2. CASE wr'[v].pc \notin Holding
    BY <2>2 DEF HonestFor, Writing, Written, Holding
  <2> QED
    BY <2>1, <2>2
<1> QED
  BY <1>1, <1>2 DEF HonestInv

(* The step of the holder of the lock disturbs no other thread.              *)
LEMMA HonestAlone ==
    ASSUME CoreInv, CallInv, NEW w \in Threads, wr[w].pc \in Holding, Thread(w)
    PROVE  /\ wr[w].s \in Sessions /\ cur \in {wr[w].s, None} /\ cur' = cur /\ ed' = ed
           /\ \A v \in Threads \ {w} : HonestFor(v)'
<1>0. TypeInv
  BY DEF CoreInv
<1>1. cur \in {wr[w].s, None} /\ wr[w].s \in Sessions
  BY EngagedFor DEF Engaged
<1>2. Others(w) /\ ed' = ed
  BY <1>0, ThreadStep DEF Rests, Becomes
<1>3. cur' = cur
  BY RegistryStep DEF Holding
<1>4. \A v \in Threads \ {w} : wr'[v].pc \notin Holding
  BY <1>2, HoldsAlone DEF Others
<1> QED
  BY <1>1, <1>2, <1>3, <1>4 DEF HonestFor, Writing, Written, Holding

(* It keeps the lock.                                                        *)
LEMMA HonestGoesOn ==
    ASSUME CoreInv, CoreInv', CallInv, NEW w \in Threads, wr[w].pc \in Holding, Thread(w),
           wr'[w].pc \in Holding, wr'[w].s = wr[w].s, HonestInv, HonestFor(w)'
    PROVE  HonestInv'
<1>1. wlock'[wr[w].s] = w
  BY DEF CoreInv, LockInv, LocksHeld
<1>2. AnswersHonestly'
  BY <1>1, HonestAlone, NothingIsSomething DEF AnswersHonestly
<1> QED
  BY <1>2, HonestAlone DEF HonestInv

(* It gives the lock back.                                                   *)
LEMMA HonestLetsGo ==
    ASSUME CoreInv, CallInv, NEW w \in Threads, wr[w].pc \in Holding, Thread(w),
           wr'[w].pc \notin Holding, HonestInv,
           cur = wr[w].s => AnswersHonestly'
    PROVE  HonestInv'
<1>1. AnswersHonestly'
  BY HonestAlone DEF AnswersHonestly
<1>2. HonestFor(w)'
  BY DEF HonestFor, Writing, Written, Holding
<1> QED
  BY <1>1, <1>2, HonestAlone DEF HonestInv

(* Every step of a flush, a reload or a close.                               *)
LEMMA HonestThread ==
    \A w \in Threads : CoreInv /\ CoreInv' /\ CallInv /\ FreshInv /\ HonestInv /\ Thread(w) => HonestInv'
<1> SUFFICES ASSUME NEW w \in Threads, CoreInv, CoreInv', CallInv, FreshInv, HonestInv, Thread(w)
             PROVE  HonestInv'
  OBVIOUS
<1>0. TypeInv /\ FreshFor(w) /\ HonestFor(w)
  BY DEF CoreInv, FreshInv, HonestInv
<1>1. Others(w) /\ wr[w].s \in Sessions /\ ed' = ed /\ sess[wr[w].s] \in SessionState
  BY <1>0, ThreadStep DEF Rests, Becomes, TypeInv, TypeOK
<1>2. wr[w].seq \in Nat /\ \A s \in Sessions : sess[s].seq \in Nat
  BY <1>0, Numbers
<1>3. CASE FlushSnapshot(w)
  <2>1. /\ UNCHANGED <<disk, foreign, cur, sess>> /\ wr[w].pc = "flush" /\ ~sess[wr[w].s].closed
        /\ wlock[wr[w].s] = None
    BY <1>3 DEF FlushSnapshot, store, history
  <2>2. /\ wr'[w].pc = "check" /\ wr'[w].s = wr[w].s /\ wr'[w].text = sess[wr[w].s].buf
        /\ wr'[w].seq = sess[wr[w].s].seq /\ wlock'[wr[w].s] = w
    BY <1>0, <1>1, <1>3, SnapshotEffect, Zenon DEF Becomes, FlushSnapshot, TypeInv, TypeOK
  <2>3. cur = wr[w].s
    BY <1>1, <2>1 DEF CallInv, OneSession
  <2>4. AnswersHonestly'
    BY <2>1, <2>2, <2>3, NothingIsSomething DEF AnswersHonestly
  <2>5. HonestFor(w)'
    BY <1>1, <1>2, <2>1, <2>2, <2>3, NothingIsSomething DEF HonestFor, HonestInv, AnswersHonestly, Written
  <2>6. \A v \in Threads \ {w} : HonestFor(v)'
    BY <1>1, <2>1 DEF HonestFor, HonestInv, Others
  <2> QED
    BY <1>1, <2>4, <2>5, <2>6 DEF HonestInv
<1>4. CASE FlushCheck(w)
  <2>1. /\ UNCHANGED <<disk, foreign, cur, sess>> /\ wr[w].pc = "check" /\ Becomes(w, "write") /\ KeepsWork(w)
        /\ disk # Absent \/ sess[wr[w].s].awaiting
    BY <1>0, <1>4, GotoBecomes DEF FlushCheck, Current, Missing, store, history
  <2>2. HonestFor(w)'
    BY <1>0, <2>1 DEF HonestFor, Becomes, KeepsWork, Writing, Written
  <2> QED
    BY <2>1, <2>2, HonestGoesOn DEF Becomes, Holding
<1>5. CASE FlushWrite(w)
  <2>1. /\ UNCHANGED <<cur, sess>> /\ wr[w].pc = "write" /\ Becomes(w, "record") /\ KeepsWork(w)
        /\ \/ disk' = wr[w].text
           \/ UNCHANGED <<disk, foreign>> /\ wr[w].text = wr[w].rev /\ ~sess[wr[w].s].awaiting
    BY <1>0, <1>5, GotoBecomes DEF FlushWrite
  <2>2. cur = wr[w].s /\ ~sess[cur].closed /\ ~foreign' => disk' = wr[w].text
    BY <1>0, <2>1 DEF FreshFor, HonestFor, Comparing, Holding, Hash
  <2>3. HonestFor(w)'
    BY <1>0, <2>1, <2>2 DEF HonestFor, Becomes, KeepsWork, Writing, Written
  <2> QED
    BY <2>1, <2>3, HonestGoesOn DEF Becomes, Holding
<1>6. CASE FlushRecord(w) \/ FlushClear(w)
  <2>1. /\ UNCHANGED <<disk, foreign, cur>> /\ wr[w].pc \in {"record", "clear"} /\ KeepsWork(w)
        /\ wr'[w].s = wr[w].s /\ wr'[w].pc \in {"clear", "index"}
    BY <1>0, <1>6, GotoBecomes DEF FlushRecord, FlushClear, store, history, Becomes
  <2>2. LET s == wr[w].s IN /\ sess'[s].buf = sess[s].buf /\ sess'[s].seq = sess[s].seq
                            /\ sess'[s].closed = sess[s].closed /\ sess'[s].unwritten = sess[s].unwritten
    <3>1. CASE FlushRecord(w)
      BY <1>0, <1>1, <3>1, RecordEffect, Zenon DEF SessionState
    <3>2. CASE FlushClear(w)
      BY <3>2 DEF FlushClear
    <3> QED
      BY <1>6, <3>1, <3>2
  <2>3. HonestFor(w)'
    BY <1>0, <2>1, <2>2 DEF HonestFor, KeepsWork, Writing, Written
  <2> QED
    BY <2>1, <2>3, HonestGoesOn DEF Holding
<1>7. CASE FlushSettle(w)
  <2>1. /\ UNCHANGED <<disk, foreign, cur>> /\ wr[w].pc = "index" /\ wr'[w].pc \notin Holding
    BY <1>0, <1>7, SettleEffect, IdleTypes, Zenon DEF FlushSettle, store, history, Rests, Becomes, Holding
  <2>2. LET s == wr[w].s IN
        /\ sess'[s].buf = sess[s].buf /\ sess'[s].closed = sess[s].closed
        /\ sess'[s].unwritten <=> sess[s].seq > wr[w].seq
    BY <1>0, <1>1, <1>7 DEF FlushSettle, TypeInv, TypeOK, SessionState
  <2>3. cur = wr[w].s => AnswersHonestly'
    BY <1>0, <1>1, <1>2, <2>1, <2>2 DEF AnswersHonestly, HonestFor, Writing, Written
  <2> QED
    BY <2>1, <2>3, HonestLetsGo DEF Holding
<1>8. CASE FlushFails(w) \/ ReloadFails(w)
  <2>1. UNCHANGED <<disk, foreign, cur>> /\ wr'[w].pc \notin Holding
    <3>1. CASE FlushFails(w)
      BY <1>0, <3>1, FailsEffect, IdleTypes DEF FlushFails, store, history, Rests, Becomes, Holding
    <3>2. CASE ReloadFails(w)
      BY <1>0, <3>2, RestRests, IdleTypes DEF ReloadFails, store, history, Rests, Holding
    <3> QED
      BY <1>8, <3>1, <3>2
  <2>2. LET s == wr[w].s IN /\ sess'[s].buf = sess[s].buf /\ sess'[s].seq = sess[s].seq
                            /\ sess'[s].closed = sess[s].closed /\ sess'[s].unwritten = sess[s].unwritten
    <3>1. CASE FlushFails(w)
      BY <1>0, <1>1, <3>1, FailsEffect DEF SessionState
    <3>2. CASE ReloadFails(w)
      BY <3>2 DEF ReloadFails
    <3> QED
      BY <1>8, <3>1, <3>2
  <2>3. CASE wr[w].pc \in Holding
    <3>1. wr[w].pc \in {"check", "write", "clear", "index", "discard"}
      BY <1>8, <2>3 DEF FlushFails, FlushError, ReloadFails, Holding
    <3>2. cur = wr[w].s => AnswersHonestly'
      BY <1>0, <1>1, <1>2, <2>1, <2>2, <3>1 DEF AnswersHonestly, HonestFor, Writing, Written
    <3> QED
      BY <2>1, <2>3, <3>2, HonestLetsGo
  <2>4. CASE wr[w].pc \notin Holding
    <3>1. ReloadFails(w) /\ wlock[wr[w].s] = None
      BY <1>8, <2>4 DEF FlushFails, FlushError, ReloadFails, Holding
    <3>2. UNCHANGED <<cur, wlock, sess>>
      BY <1>0, <1>1, <3>1 DEF ReloadFails, TypeInv, TypeOK
    <3> QED
      BY <1>0, <1>1, <2>1, <3>2, HonestKept DEF Others, HonestInv, Showing
  <2> QED
    BY <2>3, <2>4
<1>9. CASE ReloadRead(w)
  <2>1. UNCHANGED <<disk, foreign, cur, sess>> /\ wlock[wr[w].s] = None /\ wr[w].pc = "reload"
    BY <1>9 DEF ReloadRead, store, history
  <2>2. CASE disk = Absent
    <3>1. wr'[w].pc = "rest" /\ UNCHANGED wlock
      BY <1>0, <1>9, <2>2, ReadEffect, IdleTypes DEF ReloadRead, Rests
    <3> QED
      BY <1>0, <1>1, <2>1, <3>1, HonestKept DEF Others, Holding, HonestInv, Showing
  <2>3. CASE disk # Absent
    <3>1. wr'[w].pc = "discard" /\ wr'[w].s = wr[w].s
      BY <1>0, <1>9, <2>3, ReadEffect DEF Becomes
    <3>2. wlock'[wr[w].s] = w
      BY <1>0, <1>1, <1>9, <2>3 DEF ReloadRead, TypeInv, TypeOK
    <3>3. cur \in {wr[w].s, None}
      BY <2>1 DEF CallInv, OneSession, Busy, Straggling
    <3>4. AnswersHonestly'
      BY <2>1, <3>2, <3>3, NothingIsSomething DEF AnswersHonestly
    <3>5. HonestFor(w)'
      BY <1>1, <2>1, <3>1, NothingIsSomething DEF HonestFor, HonestInv, AnswersHonestly, Writing, Written
    <3>6. \A v \in Threads \ {w} : HonestFor(v)'
      BY <1>1, <2>1 DEF HonestFor, HonestInv, Others
    <3> QED
      BY <1>1, <3>4, <3>5, <3>6 DEF HonestInv
  <2> QED
    BY <2>2, <2>3
<1>10. CASE ReloadDiscard(w)
  <2>1. wr[w].pc = "discard" /\ Becomes(w, "install")
    BY <1>0, <1>10, GotoBecomes DEF ReloadDiscard
  <2>2. HonestFor(w)'
    BY <2>1 DEF HonestFor, Becomes, Writing, Written
  <2> QED
    BY <2>1, <2>2, HonestGoesOn DEF Becomes, Holding
<1>11. CASE ReloadInstall(w)
  <2>1. UNCHANGED <<disk, foreign, cur>> /\ wr[w].pc = "install" /\ wr'[w].pc = "rest"
    BY <1>0, <1>11, InstallEffect, IdleTypes, Zenon DEF ReloadInstall, store, Rests
  <2>2. sess'[wr[w].s].buf = wr[w].text
    BY <1>0, <1>1, <1>11, InstallEffect, Zenon DEF SessionState
  <2>3. cur = wr[w].s => AnswersHonestly'
    BY <1>0, <2>1, <2>2 DEF AnswersHonestly, FreshFor
  <2> QED
    BY <2>1, <2>3, HonestLetsGo DEF Holding
<1>12. CASE FlushClosed(w) \/ CloseBegin(w) \/ CloseCommit(w) \/ CloseCommitFails(w) \/ CloseClear(w)
            \/ CloseRetire(w)
  <2>1. UNCHANGED <<disk, foreign, cur, wlock>>
    BY <1>12 DEF FlushClosed, CloseBegin, CloseCommit, CloseCommitFails, CloseClear, CloseRetire,
       store, history, locks
  <2>2. wr'[w].pc \notin Holding
    <3>1. CASE FlushClosed(w)
      BY <1>0, <3>1, ClosedEffect, IdleTypes DEF Rests, Becomes, Holding
    <3>2. CASE CloseBegin(w)
      BY <1>0, <3>2, BeginEffect DEF Becomes, Holding
    <3>3. CASE CloseCommit(w) \/ CloseCommitFails(w) \/ CloseClear(w)
      BY <1>0, <3>3, GotoBecomes DEF CloseCommit, CloseCommitFails, CloseClear, Becomes, Holding
    <3>4. CASE CloseRetire(w)
      BY <1>0, <3>4, RetireEffect, Zenon DEF Becomes, Holding
    <3> QED
      BY <1>12, <3>1, <3>2, <3>3, <3>4
  <2>3. Showing
    <3>1. CASE CloseRetire(w)
      <4>1. sess'[wr[w].s].closed
        BY <1>0, <1>1, <3>1, RetireEffect, Zenon DEF SessionState
      <4>2. \A s \in Sessions \ {wr[w].s} : sess'[s] = sess[s]
        BY <1>0, <3>1, RetireEffect, Zenon DEF SameSessionsBut
      <4>3. cur # None => cur \in Sessions
        BY <1>0 DEF TypeInv, TypeOK
      <4> QED
        BY <4>1, <4>2, <4>3 DEF Showing
    <3>2. CASE ~CloseRetire(w)
      BY <1>12, <3>2 DEF FlushClosed, CloseBegin, CloseCommit, CloseCommitFails, CloseClear, Showing
    <3> QED
      BY <3>1, <3>2
  <2> QED
    BY <1>0, <1>1, <2>1, <2>2, <2>3, HonestKept DEF Others, HonestInv
<1>13. CASE CloseRemove(w)
  <2>1. cur' = None /\ wr'[w].pc = "rest"
    BY <1>0, <1>13, RestRests, IdleTypes DEF CloseRemove, Rests
  <2>2. \A v \in Threads : wr'[v].pc \in Holding => wr'[v].s # None
    BY <1>0, <1>1, <2>1, AtWork, NothingIsSomething DEF Others, Holding
  <2> QED
    BY <1>1, <2>1, <2>2 DEF HonestInv, AnswersHonestly, HonestFor, Writing, Written, Holding
<1> QED
  BY <1>3, <1>4, <1>5, <1>6, <1>7, <1>8, <1>9, <1>10, <1>11, <1>12, <1>13 DEF Thread, Flush, Reload, Close

LEMMA HonestNext ==
    ~DraftFaults /\ CoreInv /\ CoreInv' /\ CallInv /\ FreshInv /\ HonestInv /\ [Next]_vars => HonestInv'
<1> SUFFICES ASSUME ~DraftFaults, CoreInv, CoreInv', CallInv, FreshInv, HonestInv, [Next]_vars
             PROVE  HonestInv'
  OBVIOUS
<1>0. TypeInv /\ OpenAlone
  BY DEF CoreInv, SequencesInStep
<1>1. CASE OpenRead \/ OpenRefused \/ UNCHANGED vars
  <2>1. UNCHANGED <<disk, foreign, cur, wlock, sess, wr, ed>>
    BY <1>1 DEF OpenRead, OpenRefused, store, history, locks, vars
  <2> QED
    BY <1>0, <2>1, HonestKept DEF HonestInv, Showing
<1>2. CASE OpenInstall
  <2>1. /\ UNCHANGED <<disk, wr, ed>> /\ opening # None /\ foreign' = (foreign /\ disk # opening)
    BY <1>2 DEF OpenInstall, store
  <2>2. /\ sess'[cur'].buf = IF draft # None THEN draft.text ELSE opening
        /\ sess'[cur'].unwritten <=> draft # None
    BY <1>0, <1>2, OpenEffect DEF OpenedState, NoSession
  <2>3. \A w \in Threads : wr'[w].pc \notin Holding
    <3>1. \A w \in Threads : wr[w].pc \notin Engaged
      BY <1>2, EngagedFor DEF OpenInstall
    <3> QED
      BY <2>1, <3>1 DEF Engaged
  <2>4. AnswersHonestly'
    BY <2>1, <2>2 DEF AnswersHonestly, FreshInv, OpeningFresh
  <2> QED
    BY <2>1, <2>3, <2>4 DEF HonestInv, HonestFor, Writing, Written, Holding
<1>3. CASE \E text \in Texts : EditInstall(text)
  <2>1. PICK text \in Texts : EditInstall(text)
    BY <1>3
  <2>2. UNCHANGED <<disk, foreign, cur, wlock, wr>> /\ ed'.pc = "draft"
    BY <1>0, <2>1, EditEffect, Zenon DEF EditInstall, store, locks
  <2>3. /\ sess'[cur].seq = sess[cur].seq + 1 /\ sess'[cur].unwritten
        /\ sess'[cur].closed = sess[cur].closed /\ sess'[cur].awaiting = sess[cur].awaiting
        /\ cur \in Sessions
    BY <1>0, <2>1, EditEffect, Zenon DEF SessionState
  <2>4. \A w \in Threads : wr[w].seq \in Nat /\ sess[cur].seq \in Nat
    BY <1>0, <2>3, Numbers
  <2>5. ASSUME NEW w \in Threads PROVE HonestFor(w)'
    <3>1. HonestFor(w)
      BY DEF HonestInv
    <3>2. wr[w].s = cur /\ ~sess[cur].closed /\ wr[w].pc \in Writing => wr[w].seq < sess'[cur].seq
      BY <2>3, <2>4, <3>1 DEF HonestFor
    <3> QED
      BY <2>2, <2>3, <2>4, <3>1, <3>2 DEF HonestFor
  <2>6. AnswersHonestly'
    BY <2>2, <2>3 DEF AnswersHonestly
  <2> QED
    BY <2>2, <2>5, <2>6 DEF HonestInv
<1>4. CASE EditSettles
  <2>1. EditDraft
    BY <1>4 DEF EditSettles, EditDraftFails, EditRetain, EditUndo, HonestInv
  <2>2. UNCHANGED <<disk, foreign, cur, wlock, wr, sess>> /\ ed'.pc = "idle"
    BY <2>1, IdleTypes DEF EditDraft, Acknowledge, locks
  <2> QED
    BY <1>0, <2>2, HonestKept DEF Showing
<1>5. CASE \E s \in Sessions : TimerFires(s)
  <2>1. PICK s \in Sessions : TimerFires(s)
    BY <1>5
  <2>2. UNCHANGED <<disk, foreign, cur, wlock, sess, ed>>
    BY <2>1 DEF TimerFires, store, history, locks
  <2>3. Others(s) /\ s \in Threads /\ wr'[s].pc = "flush"
    BY <1>0, <2>1, TimerEffect
  <2> QED
    BY <1>0, <2>2, <2>3, HonestKept DEF Others, Holding, HonestInv, Showing
<1>6. CASE \E w \in Workers, call \in {"flush", "reload", "close"} : Call(w, call)
  <2>1. PICK w \in Workers, call \in {"flush", "reload", "close"} : Call(w, call)
    BY <1>6
  <2>2. UNCHANGED <<disk, foreign, cur, wlock, sess, ed>>
    BY <2>1 DEF Call, store, history, locks
  <2>3. Others(w) /\ w \in Threads /\ wr'[w].pc \notin Holding
    BY <1>0, <2>1, CallEffect DEF Holding
  <2> HIDE <2>1
  <2> QED
    BY <1>0, <2>2, <2>3, HonestKept DEF Others, HonestInv, Showing
<1>7. CASE \E w \in Threads : Thread(w)
  BY <1>7, HonestThread
<1>8. CASE \E file \in Files : GuestChanges(file)
  <2>1. foreign' /\ UNCHANGED <<ed, wr, cur, sess>>
    BY <1>8 DEF GuestChanges
  <2> QED
    BY <2>1 DEF HonestInv, AnswersHonestly, HonestFor
<1>9. CASE Crash
  <2>1. cur' = None /\ ed'.pc = "idle" /\ \A w \in Threads : wr'[w].pc = "rest"
    BY <1>9, IdleTypes DEF Crash
  <2> QED
    BY <2>1 DEF HonestInv, AnswersHonestly, HonestFor, Writing, Written
<1> QED
  BY <1>1, <1>2, <1>3, <1>4, <1>5, <1>6, <1>7, <1>8, <1>9 DEF Next, Open, EditSettles

(* A session that reports no unwritten changes has its buffer in the file,   *)
(* unless another program changed the file, whenever no flush or reload is   *)
(* at work: what note_edit_status answers is never the state of an older     *)
(* snapshot. A draft row that fails to be stored is excluded, for its        *)
(* rollback takes back a sequence which a flush has already snapshotted.     *)
THEOREM StatusStaysHonest == ASSUME ~Stragglers, ~DraftFaults PROVE Spec => []StatusHonest
<1> DEFINE Inv == CallInv /\ FreshInv /\ HonestInv
<1>1. Init => Inv
  BY CallInit, FreshInit, HonestInit
<1>2. CoreInv /\ CoreInv' /\ Inv /\ [Next]_vars => Inv'
  BY CallNext, FreshNext, HonestNext
<1>3. Inv => StatusHonest
  BY DEF HonestInv, AnswersHonestly, StatusHonest
<1> QED
  BY <1>1, <1>2, <1>3, CoreHolds, PTL DEF Spec

-----------------------------------------------------------------------------
(* One close at a time.                                                      *)

(* Only the close that retires a session goes on to remove it.               *)
LEMMA OneCloseThread == \A w \in Threads : TypeInv /\ CallInv /\ OneClose /\ Thread(w) => OneClose'
<1> SUFFICES ASSUME NEW w \in Threads, TypeInv, CallInv, OneClose, Thread(w) PROVE OneClose'
  OBVIOUS
<1>1. wr[w].s \in Sessions /\ wr[w].pc # "rest" /\ AtRest.pc = "rest" /\ AtRest.call = "none"
  BY ThreadStep DEF AtRest
<1>2. (Rests(w) /\ ~CloseRetire(w)) \/ GoesOn(w)
  BY CallStep DEF CallInv
<1>3. cur' = cur \/ (CloseRemove(w) /\ wr[w].pc = "remove" /\ cur' = None)
  BY RegistryStep
<1>4. \A s \in Sessions :
         sess'[s].closed = sess[s].closed \/ (CloseRetire(w) /\ s = wr[w].s /\ sess'[s].closed)
  BY SessionStep
<1>5. CloseRemove(w) => wr[w].call = "close" /\ cur = wr[w].s /\ sess[cur].closed
  BY DEF CloseRemove, OneClose, CallInv, Closers, ClosePcs
<1>6. \A v \in Threads : wr'[v].call = wr[v].call \/ (v = w /\ Rests(w))
  BY <1>2 DEF Rests, GoesOn, Becomes, Others
<1>8. \A v \in Threads : wr'[v].call = "close" =>
         /\ wr[v].call = "close" /\ wr'[v].pc # "rest" /\ wr'[v].s = wr[v].s
         /\ v = w => GoesOn(w)
  BY <1>1, <1>2 DEF OneClose, CallInv, Closers, Rests, GoesOn, Becomes, Others, ClosePcs
<1>9. \A v \in Threads : wr'[v].call = "close" => cur' = cur
  <2> SUFFICES ASSUME NEW v \in Threads, wr'[v].call = "close", CloseRemove(w) PROVE FALSE
    BY <1>3
  <2>1. Rests(w)
    BY RestRests DEF CloseRemove
  <2>2. v # w /\ wr[v].call = "close"
    BY <1>1, <1>8, <2>1 DEF Rests
  <2> QED
    BY <1>5, <2>2 DEF OneClose
<1>10. \A v \in Threads : wr'[v].call = "close" => (sess'[cur'].closed <=> wr'[v].pc = "remove")
  <2> SUFFICES ASSUME NEW v \in Threads, wr'[v].call = "close"
               PROVE  sess'[cur].closed <=> wr'[v].pc = "remove"
    BY <1>9
  <2>1. wr[v].call = "close" /\ cur = wr[v].s /\ (sess[cur].closed <=> wr[v].pc = "remove")
        /\ cur \in Sessions
    BY <1>8, AtWork DEF OneClose
  <2>2. CASE v = w
    <3>1. PICK pc : Becomes(w, pc) /\ (pc = "remove" <=> CloseRetire(w))
      BY <1>8, <2>2 DEF GoesOn
    <3>2. wr'[w].pc = "remove" <=> CloseRetire(w)
      BY <3>1 DEF Becomes
    <3>3. wr[w].pc # "remove"
      <4> SUFFICES ASSUME wr[w].pc = "remove" PROVE FALSE
        OBVIOUS
      <4>1. CloseRemove(w)
        BY DEF Thread, Flush, Reload, Close, FlushSnapshot, FlushClosed, FlushCheck, FlushWrite,
               FlushRecord, FlushClear, FlushSettle, FlushFails, FlushError, ReloadRead,
               ReloadDiscard, ReloadFails, ReloadInstall, CloseBegin, CloseCommit,
               CloseCommitFails, CloseClear, CloseRetire
      <4>2. Rests(w)
        BY <4>1, RestRests DEF CloseRemove
      <4> QED
        BY <1>1, <1>8, <2>2, <4>2 DEF Rests
    <3>4. CloseRetire(w) => sess'[cur].closed
      BY <2>1, <2>2, RetireEffect, Zenon DEF TypeInv, TypeOK, SessionState
    <3> QED
      BY <1>4, <2>1, <2>2, <3>2, <3>3, <3>4
  <2>3. CASE v # w
    <3>1. wr'[v] = wr[v]
      BY <1>2, <2>3 DEF Rests, GoesOn, Becomes, Others
    <3>2. ~CloseRetire(w)
      BY <2>1, <2>3 DEF CloseRetire, OneClose, CallInv, Closers, ClosePcs
    <3> QED
      BY <1>4, <2>1, <3>1, <3>2
  <2> QED
    BY <2>2, <2>3
<1>11. cur' # None /\ sess'[cur'].closed => \E v \in Workers : wr'[v].call = "close"
  <2> SUFFICES ASSUME cur' # None, sess'[cur'].closed PROVE \E v \in Workers : wr'[v].call = "close"
    OBVIOUS
  <2>1. cur' = cur /\ cur \in Sessions /\ Workers \subseteq Threads
    BY <1>3 DEF TypeInv, TypeOK, Threads
  <2>2. CASE CloseRetire(w)
    BY <1>2, <2>2 DEF GoesOn, Becomes, CloseRetire, OneClose, CallInv, Closers, ClosePcs
  <2>3. CASE ~CloseRetire(w)
    <3>1. PICK v \in Workers : wr[v].call = "close"
      BY <1>4, <2>1, <2>3 DEF OneClose
    <3>2. wr[v].pc = "remove" /\ cur = wr[v].s
      BY <1>4, <2>1, <2>3, <3>1 DEF OneClose
    <3>3. v = w => CloseRemove(w)
      BY <3>2, Zenon DEF Thread, Flush, Reload, Close, FlushSnapshot, FlushClosed, FlushCheck, FlushWrite,
             FlushRecord, FlushClear, FlushSettle, FlushFails, FlushError, ReloadRead,
             ReloadDiscard, ReloadFails, ReloadInstall, CloseBegin, CloseCommit,
             CloseCommitFails, CloseClear, CloseRetire
    <3>4. v # w
      BY <2>1, <3>3, NothingIsSomething DEF CloseRemove
    <3> QED
      BY <1>6, <2>1, <3>1, <3>4
  <2> QED
    BY <2>2, <2>3
<1>12. \A v \in Threads : wr'[v].call = "close" => v \in Workers /\ wr'[v].pc # "rest" /\ cur' = wr'[v].s
  BY <1>8, <1>9 DEF OneClose
<1>13. \A u, v \in Threads : wr'[u].call = "close" /\ wr'[v].call = "close" => u = v
  BY <1>8 DEF OneClose
<1> QED
  BY <1>10, <1>11, <1>12, <1>13 DEF OneClose

LEMMA OneCloseNext ==
    Orderly /\ CoreInv /\ CallInv /\ OneClose /\ [Next]_vars => OneClose'
<1> SUFFICES ASSUME Orderly, CoreInv, CallInv, OneClose, [Next]_vars PROVE OneClose'
  OBVIOUS
<1>0. TypeInv /\ OpenAlone
  BY DEF CoreInv, SequencesInStep
<1>1. CASE OpenRead \/ OpenRefused
  BY <1>1 DEF OpenRead, OpenRefused, OneClose
<1>2. CASE OpenInstall
  <2>1. \A w \in Threads : wr'[w].pc \notin ClosePcs /\ ~Busy(w)
    BY <1>0, <1>2, OpenStaysAlone
  <2>2. \A w \in Threads : wr'[w].call # "close"
    BY <1>2, <2>1 DEF OneClose, Busy, Straggling, OpenInstall
  <2>3. ~sess'[cur'].closed
    BY <1>0, <1>2, OpenEffect DEF OpenedState, NoSession
  <2> QED
    BY <2>1, <2>2, <2>3 DEF OneClose
<1>3. CASE \E text \in Texts : EditInstall(text)
  <2>1. PICK text \in Texts : EditInstall(text)
    BY <1>3
  <2>2. UNCHANGED <<cur, wr>> /\ cur \in Sessions /\ sess'[cur].closed = sess[cur].closed
    BY <1>0, <2>1, EditEffect, EditClosesNothing, Zenon DEF EditInstall
  <2> QED
    BY <2>2 DEF OneClose
<1>4. CASE EditSettles \/ (\E file \in Files : GuestChanges(file)) \/ UNCHANGED vars
  BY <1>0, <1>4, CallKept, SettleClosesNothing
<1>5. CASE \E s \in Sessions : TimerFires(s)
  <2>1. PICK s \in Sessions : TimerFires(s)
    BY <1>5
  <2>2. UNCHANGED <<cur, opening, sess, ed>>
    BY <2>1 DEF TimerFires
  <2> QED
    BY <1>0, <2>1, <2>2, CallStarts, TimerEffect
<1>6. CASE \E w \in Workers, call \in {"flush", "reload", "close"} : Call(w, call)
  <2>1. PICK w \in Workers, call \in {"flush", "reload", "close"} : Call(w, call)
    BY <1>6
  <2>2. UNCHANGED <<cur, opening, sess, ed>> /\ (Closing(cur) => call # "close")
    BY <2>1 DEF Call, Orderly
  <2>3. /\ Others(w) /\ w \in Threads /\ wr[w].pc = "rest"
        /\ wr'[w].pc = call /\ wr'[w].call = call /\ wr'[w].s = cur /\ cur \in Sessions
    BY <1>0, <2>1, CallEffect
  <2>4. w \in Workers /\ call \in {"flush", "reload", "close"}
    BY <2>1
  <2> HIDE <2>1
  <2> QED
    BY <1>0, <2>2, <2>3, <2>4, CallStarts
<1>7. CASE \E w \in Threads : Thread(w)
  BY <1>0, <1>7, OneCloseThread
<1>8. CASE Crash
  <2>1. cur' = None /\ \A w \in Threads : wr'[w].pc = "rest" /\ wr'[w].call = "none"
    BY <1>8, IdleTypes DEF Crash, AtRest
  <2> QED
    BY <2>1 DEF OneClose
<1> QED
  BY <1>1, <1>2, <1>3, <1>4, <1>5, <1>6, <1>7, <1>8 DEF Next, Open

-----------------------------------------------------------------------------
(* Where the promised text is. Of the row, the file and the thread that is   *)
(* between them one always has it; the sequences tell which.                 *)

(* A guest has replaced a text that the user was promised.                   *)
Overruled == overruled \cap Promised # {}

(* The file has the text, or a guest has replaced it there.                  *)
Held(text) == disk = text \/ text \in overruled

(* A row keeps the text last acknowledged.                                   *)
RowIsAcked == draft # None => draft.text = acked

(* Without a row the file has it.                                            *)
FileIsPromised == draft = None /\ acked # None => disk \in Promised \/ Overruled

(* So has what an open is about to install.                                  *)
OpeningKept ==
    opening # None =>
        /\ disk = opening \/ foreign
        /\ draft = None /\ acked # None => opening = acked \/ acked \in overruled

(* The buffer shows it, or the edit in flight.                               *)
BufferIsPromised ==
    cur # None /\ tier1[cur] = None =>
        sess[cur].buf = IF ed.pc = "idle" THEN acked ELSE ed.text

(* A reload has the text of the file, and has promised it once the row is    *)
(* gone.                                                                     *)
Reloads(w) ==
    /\ wr[w].pc = "discard" => disk = wr[w].text \/ foreign
    /\ wr[w].pc = "install" => acked = wr[w].text /\ ed.pc = "idle"

(* A snapshot is the promised text, one that a newer row follows, or the     *)
(* edit in flight.                                                           *)
Writes(w) ==
    wr[w].pc \in Writing =>
        /\ wr[w].seq < AckedSeq(wr[w].s) => draft # None /\ draft.seq = AckedSeq(wr[w].s)
        /\ wr[w].seq = AckedSeq(wr[w].s) => wr[w].text = acked
        /\ wr[w].seq > AckedSeq(wr[w].s) =>
              ed.pc # "idle" /\ wr[w].seq = ed.seq /\ wr[w].text = ed.text

(* What a flush has written is in the file.                                  *)
Wrote(w) ==
    /\ \/ wr[w].pc \in {"record", "clear", "index"}
       \/ wr[w].pc = "write" /\ wr[w].text = wr[w].rev /\ ~sess[wr[w].s].awaiting
    /\ wr[w].seq >= AckedSeq(wr[w].s)
    => Held(wr[w].text)

(* A close clears rows only as far as the file has their text.               *)
Covers(w) ==
    wr[w].pc \in Covering =>
        /\ wr[w].seq <= sess[wr[w].s].seq
        /\ wr[w].seq < AckedSeq(wr[w].s) => draft = None \/ draft.seq > wr[w].seq
        /\ wr[w].seq = AckedSeq(wr[w].s) => disk \in Promised \/ Overruled
        /\ wr[w].seq > AckedSeq(wr[w].s) => Held(ed.text)

(* No flush has a snapshot that the close at work has already accounted      *)
(* for.                                                                      *)
CoverIsBehind ==
    \A v, w \in Threads :
        wr[v].pc \in Covering /\ wr[w].pc \in Writing => wr[v].seq <= wr[w].seq

ThreadsKeep == \A w \in Threads : Reloads(w) /\ Writes(w) /\ Wrote(w) /\ Covers(w)

DataInv ==
    /\ RowIsAcked /\ FileIsPromised /\ OpeningKept /\ BufferIsPromised
    /\ ed.pc # "undo" /\ ThreadsKeep /\ CoverIsBehind

LEMMA DataInit == Init => DataInv
BY IdleTypes DEF Init, DataInv, RowIsAcked, FileIsPromised, OpeningKept, BufferIsPromised,
   ThreadsKeep, CoverIsBehind, Reloads, Writes, Wrote, Covers, Writing, Covering

(* A call that begins owes nothing yet.                                      *)
LEMMA StartsKeep ==
    ASSUME DataInv, UNCHANGED <<disk, draft, acked, foreign, overruled, opening, ed, cur, tier1, sess>>,
           NEW w \in Threads, Others(w), wr'[w].pc \notin Engaged
    PROVE  DataInv'
<1>1. UNCHANGED Overruled /\ \A text : UNCHANGED Held(text)
  BY DEF Overruled, Promised, Held
<1>2. \A s : UNCHANGED AckedSeq(s)
  BY DEF AckedSeq
<1>3. \A v \in Threads : wr'[v].pc \in Engaged => wr'[v] = wr[v]
  BY DEF Others
<1>4. ThreadsKeep'
  BY <1>1, <1>2, <1>3
     DEF DataInv, ThreadsKeep, Reloads, Writes, Wrote, Covers, Engaged, Holding, Covering, Writing, Promised
<1>5. CoverIsBehind'
  BY <1>3 DEF DataInv, CoverIsBehind, Engaged, Holding, Covering, Writing
<1> QED
  BY <1>1, <1>4, <1>5 DEF DataInv, RowIsAcked, FileIsPromised, OpeningKept, BufferIsPromised, Promised

(* Nobody is engaged beside an open.                                         *)
LEMMA NobodyEngaged ==
    ASSUME CoreInv, CallInv, opening # None \/ \A w \in Threads : wr[w].pc = "rest"
    PROVE  \A w \in Threads : wr[w].pc \notin Engaged
BY EngagedFor DEF Engaged, Holding, Covering

(* An open hands the promised text over.                                     *)
LEMMA DataOpen == Orderly /\ CoreInv /\ CallInv /\ DataInv /\ Open => DataInv'
<1> SUFFICES ASSUME Orderly, CoreInv, CallInv, DataInv, Open PROVE DataInv'
  OBVIOUS
<1>0. TypeInv /\ OpenAlone
  BY DEF CoreInv, SequencesInStep
<1>1. UNCHANGED <<ed, wr, tier1, draft, disk>>
  BY DEF Open, OpenRead, OpenRefused, OpenInstall, store, locks
<1>2. \A w \in Threads : wr[w].pc \notin Engaged
  BY NobodyEngaged DEF Open, OpenRead, OpenRefused, OpenInstall, Quiet, Orderly
<1>3. ThreadsKeep' /\ CoverIsBehind'
  <2>1. \A w \in Threads : wr'[w].pc \notin Engaged
    BY <1>1, <1>2
  <2> QED
    BY <2>1 DEF ThreadsKeep, CoverIsBehind, Reloads, Writes, Wrote, Covers, Writing, Covering, Engaged, Holding
<1>4. CASE OpenRead
  <2>1. ed.pc = "idle" /\ cur = None /\ opening' = disk /\ UNCHANGED <<acked, overruled, foreign, cur, sess>>
    BY <1>4 DEF OpenRead, history
  <2>2. OpeningKept'
    BY <1>1, <2>1 DEF DataInv, OpeningKept, FileIsPromised, Promised, Overruled
  <2> QED
    BY <1>1, <1>3, <2>1, <2>2
       DEF DataInv, RowIsAcked, FileIsPromised, BufferIsPromised, Promised, Overruled
<1>5. CASE OpenRefused
  <2>1. opening' = None /\ UNCHANGED <<acked, overruled, foreign, cur, sess>>
    BY <1>5 DEF OpenRefused, history
  <2> QED
    BY <1>1, <1>3, <2>1
       DEF DataInv, RowIsAcked, FileIsPromised, BufferIsPromised, OpeningKept, Promised, Overruled
<1>6. CASE OpenInstall
  <2>1. /\ ed.pc = "idle" /\ opening # None /\ opening' = None
        /\ draft = None => opening # Absent
        /\ foreign' = (foreign /\ disk # opening)
        /\ overruled' = IF foreign' /\ draft = None THEN {opening} ELSE {}
    BY <1>0, <1>6 DEF OpenInstall, OpenAlone
  <2>2. acked' = sess'[cur'].buf /\ acked' = IF draft # None THEN draft.text ELSE opening
    BY <1>0, <1>6, OpenEffect DEF OpenedState, NoSession
  <2>3. disk = opening \/ foreign
    BY <2>1 DEF DataInv, OpeningKept
  <2>4. FileIsPromised'
    BY <1>1, <2>1, <2>2, <2>3 DEF FileIsPromised, Promised, Overruled
  <2> QED
    BY <1>1, <1>3, <2>1, <2>2, <2>4 DEF DataInv, RowIsAcked, OpeningKept, BufferIsPromised
<1> QED
  BY <1>4, <1>5, <1>6 DEF Open

(* A mutation takes the next sequence; nothing is promised yet.              *)
LEMMA DataEditInstall ==
    \A text \in Texts : CoreInv /\ CallInv /\ DataInv /\ EditInstall(text) => DataInv'
<1> SUFFICES ASSUME NEW text \in Texts, CoreInv, CallInv, DataInv, EditInstall(text) PROVE DataInv'
  OBVIOUS
<1>0. TypeInv /\ TierOneHeld
  BY DEF CoreInv, LockInv
<1>1. /\ UNCHANGED <<draft, disk, cur, wr, opening, tier1, acked, foreign>>
      /\ ed.pc = "idle" /\ opening = None /\ tier1[cur] = None
      /\ cur \in Sessions
      /\ overruled' = overruled \ ({text} \ {acked})
  BY <1>0, EditEffect, Zenon DEF EditInstall, store, locks
<1>2. /\ ed'.pc = "draft" /\ ed'.text = text /\ ed'.s = cur
      /\ ed'.prev.seq = sess[cur].seq
      /\ sess'[cur].buf = text /\ sess'[cur].seq = sess[cur].seq + 1
      /\ sess'[cur].awaiting = sess[cur].awaiting
  BY <1>0, EditEffect, Zenon DEF SessionState
<1>3. Promised' = {acked, text} /\ Promised = {acked}
  BY <1>1, <1>2 DEF Promised
<1>4. Overruled => Overruled'
  BY <1>1, <1>3 DEF Overruled
<1>5. Held(acked) => Held(acked)'
  BY <1>1 DEF Held
<1>6. ASSUME NEW w \in Threads, wr[w].pc \in Engaged
      PROVE  /\ wr[w].s = cur /\ wr[w].pc # "install"
             /\ AckedSeq(wr[w].s)' = AckedSeq(wr[w].s) /\ AckedSeq(wr[w].s) = sess[cur].seq
             /\ AckedSeq(wr[w].s) \in Nat /\ wr[w].seq \in Nat
  <2>1. wr[w].s = cur
    BY <1>1, <1>6, EngagedFor, NothingIsSomething
  <2>2. wr[w].pc # "install"
    BY <1>0, <1>1, <2>1, NothingIsSomething DEF TierOneHeld
  <2>3. sess[cur].seq \in Nat /\ wr[w].seq \in Nat
    BY <1>0, <1>1, Numbers
  <2> QED
    BY <1>1, <1>2, <2>1, <2>2, <2>3 DEF AckedSeq
<1>7. ThreadsKeep'
  <2> SUFFICES ASSUME NEW w \in Threads PROVE Reloads(w)' /\ Writes(w)' /\ Wrote(w)' /\ Covers(w)'
    BY DEF ThreadsKeep
  <2>0. Reloads(w) /\ Writes(w) /\ Wrote(w) /\ Covers(w) /\ wr'[w] = wr[w]
    BY <1>1 DEF DataInv, ThreadsKeep
  <2>1. CASE wr[w].pc \in Engaged
    <3>0. /\ wr[w].s = cur /\ wr[w].pc # "install"
          /\ AckedSeq(wr[w].s)' = AckedSeq(wr[w].s) /\ AckedSeq(wr[w].s) = sess[cur].seq
          /\ AckedSeq(wr[w].s) \in Nat /\ wr[w].seq \in Nat
      BY <1>6, <2>1
    <3>1. Reloads(w)'
      BY <1>1, <2>0, <3>0 DEF Reloads
    <3>2. Writes(w)'
      BY <1>1, <2>0, <3>0 DEF Writes
    <3>3. Wrote(w)'
      <4>1. sess'[wr[w].s].awaiting = sess[wr[w].s].awaiting
        BY <1>2, <3>0
      <4>2. wr[w].pc \in Writing /\ wr[w].seq >= AckedSeq(wr[w].s) => wr[w].text = acked
        BY <1>1, <2>0, <3>0 DEF Writes
      <4>3. wr[w].pc \in Writing /\ wr[w].seq >= AckedSeq(wr[w].s) /\ Held(wr[w].text)
            => Held(wr[w].text)'
        <5> HAVE wr[w].pc \in Writing /\ wr[w].seq >= AckedSeq(wr[w].s) /\ Held(wr[w].text)
        <5>1. wr[w].text = acked /\ wr'[w].text = acked /\ acked' = acked
          BY <1>1, <2>0, <4>2
        <5> QED
          BY <1>1, <5>1 DEF Held
      <4> QED
        BY <2>0, <3>0, <4>1, <4>3 DEF Wrote, Writing
    <3>4. Covers(w)'
      <4>1. wr[w].pc \in Covering => wr[w].seq <= sess[cur].seq
        BY <2>0, <3>0 DEF Covers
      <4>2. wr[w].pc \in Covering /\ wr[w].seq = sess[cur].seq => disk \in Promised' \/ Overruled'
        BY <1>3, <1>4, <2>0, <3>0 DEF Covers
      <4> QED
        BY <1>1, <1>2, <2>0, <3>0, <4>1, <4>2 DEF Covers
    <3> QED
      BY <3>1, <3>2, <3>3, <3>4
  <2>2. CASE wr[w].pc \notin Engaged
    BY <2>0, <2>2 DEF Reloads, Writes, Wrote, Covers, Writing, Covering, Engaged, Holding
  <2> QED
    BY <2>1, <2>2
<1>8. CoverIsBehind'
  BY <1>1 DEF DataInv, CoverIsBehind
<1> QED
  BY <1>1, <1>2, <1>3, <1>4, <1>7, <1>8
     DEF DataInv, RowIsAcked, FileIsPromised, OpeningKept, BufferIsPromised

(* Its row is stored, and its text promised.                                 *)
LEMMA DataEditDraft == CoreInv /\ CallInv /\ DataInv /\ EditDraft => DataInv'
<1> SUFFICES ASSUME CoreInv, CallInv, DataInv, EditDraft PROVE DataInv'
  OBVIOUS
<1>0. TypeInv /\ TierOneHeld /\ EditInStep /\ OpenAlone
  BY DEF CoreInv, LockInv, SequencesInStep
<1>1. /\ UNCHANGED <<disk, cur, wr, opening, tier1, foreign, overruled, sess>>
      /\ ed.pc # "idle" /\ ed'.pc = "idle" /\ acked' = ed.text /\ opening = None
  BY <1>0, IdleTypes DEF EditDraft, Acknowledge, OpenAlone, locks
<1>2. draft' # None /\ draft'.seq = ed.seq /\ draft'.text = ed.text
  <2>1. draft' = Row(ed.seq, ed.text)
    BY <1>0, <1>1 DEF EditDraft, EditInStep, WriteDraft
  <2>2. Row(ed.seq, ed.text) # None
    BY <1>0, NoRowAssumption DEF Row, TypeInv, TypeOK, EditorState
  <2> QED
    BY <2>1, <2>2 DEF Row
<1>3. Promised' = {ed.text} /\ \A text : Held(text)' <=> Held(text)
  BY <1>1 DEF Promised, Held
<1>4. \A w \in Threads : wr[w].pc # "install"
  BY <1>1 DEF DataInv, ThreadsKeep, Reloads
<1>5. ASSUME NEW w \in Threads, wr[w].pc \in Engaged
      PROVE  /\ AckedSeq(wr[w].s)' = ed.seq /\ AckedSeq(wr[w].s) = ed.prev.seq
             /\ sess[wr[w].s].seq = ed.seq /\ ed.seq = ed.prev.seq + 1
             /\ ed.prev.seq \in Nat /\ wr[w].seq \in Nat
  BY <1>0, <1>1, <1>5, EngagedFor, Numbers DEF AckedSeq
<1>6. ThreadsKeep'
  <2> SUFFICES ASSUME NEW w \in Threads PROVE Reloads(w)' /\ Writes(w)' /\ Wrote(w)' /\ Covers(w)'
    BY DEF ThreadsKeep
  <2>0. Reloads(w) /\ Writes(w) /\ Wrote(w) /\ Covers(w) /\ wr'[w] = wr[w]
    BY <1>1 DEF DataInv, ThreadsKeep
  <2>1. CASE wr[w].pc \in Engaged
    <3>0. /\ AckedSeq(wr[w].s)' = ed.seq /\ AckedSeq(wr[w].s) = ed.prev.seq
          /\ sess[wr[w].s].seq = ed.seq /\ ed.seq = ed.prev.seq + 1
          /\ ed.prev.seq \in Nat /\ wr[w].seq \in Nat
      BY <1>5, <2>1
    <3>1. Reloads(w)'
      BY <1>1, <1>4, <2>0 DEF Reloads
    <3>2. Writes(w)'
      BY <1>1, <1>2, <2>0, <3>0 DEF Writes
    <3>3. Wrote(w)'
      <4>1. Held(wr[w].text)' <=> Held(wr[w].text)
        BY <1>1 DEF Held
      <4> QED
        BY <1>1, <2>0, <3>0, <4>1 DEF Wrote
    <3>4. Covers(w)'
      <4>1. wr[w].pc \in Covering /\ wr[w].seq = ed.seq => disk' \in Promised' \/ Overruled'
        BY <1>1, <1>3, <2>0, <3>0 DEF Covers, Held, Overruled
      <4> QED
        BY <1>1, <1>2, <2>0, <3>0, <4>1 DEF Covers
    <3> QED
      BY <3>1, <3>2, <3>3, <3>4
  <2>2. CASE wr[w].pc \notin Engaged
    BY <2>0, <2>2 DEF Reloads, Writes, Wrote, Covers, Writing, Covering, Engaged, Holding
  <2> QED
    BY <2>1, <2>2
<1>7. CoverIsBehind'
  BY <1>1 DEF DataInv, CoverIsBehind
<1>8. BufferIsPromised'
  BY <1>0, <1>1 DEF DataInv, BufferIsPromised
<1> QED
  BY <1>1, <1>2, <1>6, <1>7, <1>8 DEF DataInv, RowIsAcked, FileIsPromised, OpeningKept

(* A guest replaces the text in the file, which is noted.                    *)
LEMMA DataGuest == \A file \in Files : CoreInv /\ CallInv /\ DataInv /\ GuestChanges(file) => DataInv'
<1> SUFFICES ASSUME NEW file \in Files, CoreInv, CallInv, DataInv, GuestChanges(file) PROVE DataInv'
  OBVIOUS
<1>0. TypeInv
  BY DEF CoreInv
<1>1. /\ UNCHANGED <<draft, cur, wr, opening, tier1, acked, ed, sess, Promised>>
      /\ foreign' /\ overruled' = overruled \cup ({disk} \cap Promised)
  BY DEF GuestChanges, locks, Promised
<1>2. Overruled => Overruled'
  BY <1>1 DEF Overruled
<1>3. disk \in Promised => Overruled'
  BY <1>1 DEF Overruled
<1>4. ASSUME NEW text \in Promised, Held(text) PROVE Held(text)'
  BY <1>1, <1>4 DEF Held
<1>5. ThreadsKeep'
  <2> SUFFICES ASSUME NEW w \in Threads PROVE Reloads(w)' /\ Writes(w)' /\ Wrote(w)' /\ Covers(w)'
    BY DEF ThreadsKeep
  <2>0. Reloads(w) /\ Writes(w) /\ Wrote(w) /\ Covers(w) /\ wr'[w] = wr[w]
    BY <1>1 DEF DataInv, ThreadsKeep
  <2>1. AckedSeq(wr[w].s)' = AckedSeq(wr[w].s)
    BY <1>1 DEF AckedSeq
  <2>2. CASE wr[w].pc \in Engaged
    <3>0. AckedSeq(wr[w].s) \in Nat /\ wr[w].seq \in Nat
      BY <1>0, <2>2, EngagedFor, Numbers
    <3>1. Reloads(w)'
      BY <1>1, <2>0 DEF Reloads
    <3>2. Writes(w)'
      BY <1>1, <2>0, <2>1 DEF Writes
    <3>3. Wrote(w)'
      <4>1. wr[w].pc \in Writing /\ wr[w].seq >= AckedSeq(wr[w].s) => wr[w].text \in Promised
        BY <2>0, <3>0 DEF Writes, Promised
      <4>2. wr[w].text \in Promised /\ Held(wr[w].text) => Held(wr[w].text)'
        BY <1>1 DEF Held
      <4> QED
        BY <1>1, <2>0, <2>1, <4>1, <4>2 DEF Wrote, Writing
    <3>4. Covers(w)'
      <4>1. wr[w].pc \in Covering /\ wr[w].seq > AckedSeq(wr[w].s) => ed.pc # "idle"
        BY <2>0, <3>0 DEF Covers, AckedSeq
      <4>2. ed.pc # "idle" /\ Held(ed.text) => Held(ed.text)'
        BY <1>1 DEF Held, Promised
      <4> QED
        BY <1>1, <1>2, <1>3, <2>0, <2>1, <4>1, <4>2 DEF Covers
    <3> QED
      BY <3>1, <3>2, <3>3, <3>4
  <2>3. CASE wr[w].pc \notin Engaged
    BY <2>0, <2>3 DEF Reloads, Writes, Wrote, Covers, Writing, Covering, Engaged, Holding
  <2> QED
    BY <2>2, <2>3
<1>6. CoverIsBehind'
  BY <1>1 DEF DataInv, CoverIsBehind
<1>7. FileIsPromised'
  BY <1>1, <1>2, <1>3 DEF DataInv, FileIsPromised
<1>8. OpeningKept'
  BY <1>1 DEF DataInv, OpeningKept
<1> QED
  BY <1>1, <1>5, <1>6, <1>7, <1>8 DEF DataInv, RowIsAcked, BufferIsPromised

(* A kill takes the threads; the row and the file remain.                    *)
LEMMA DataCrash == CoreInv /\ DataInv /\ Crash => DataInv'
<1> SUFFICES ASSUME CoreInv, DataInv, Crash PROVE DataInv'
  OBVIOUS
<1>1. /\ UNCHANGED <<disk, draft, overruled>> /\ cur' = None /\ opening' = None /\ ed'.pc = "idle"
      /\ \A w \in Threads : wr'[w].pc = "rest"
  BY IdleTypes DEF Crash, store
<1>2. \A w \in Threads : wr'[w].pc \notin Engaged
  BY <1>1 DEF Engaged, Holding, Covering
<1>3. ThreadsKeep' /\ CoverIsBehind'
  BY <1>2 DEF ThreadsKeep, CoverIsBehind, Reloads, Writes, Wrote, Covers, Writing, Covering, Engaged, Holding
<1>4. Promised' = {acked'}
  BY <1>1 DEF Promised
<1>5. CASE /\ ed.pc # "idle" /\ ed.text \in {disk} \cup overruled
           /\ draft = None \/ (draft # None /\ draft.text # acked)
  <2>1. draft = None /\ acked' = ed.text
    BY <1>5 DEF Crash, DataInv, RowIsAcked
  <2>2. RowIsAcked' /\ FileIsPromised'
    BY <1>1, <1>4, <1>5, <2>1 DEF RowIsAcked, FileIsPromised, Overruled
  <2> QED
    BY <1>1, <1>3, <2>2 DEF DataInv, OpeningKept, BufferIsPromised
<1>6. CASE ~(/\ ed.pc # "idle" /\ ed.text \in {disk} \cup overruled
             /\ draft = None \/ (draft # None /\ draft.text # acked))
  <2>1. acked' = acked
    BY <1>6 DEF Crash
  <2>2. RowIsAcked'
    BY <1>1, <2>1 DEF DataInv, RowIsAcked
  <2>3. FileIsPromised'
    BY <1>1, <1>4, <1>6, <2>1 DEF DataInv, FileIsPromised, Overruled, Promised
  <2> QED
    BY <1>1, <1>3, <2>2, <2>3 DEF DataInv, OpeningKept, BufferIsPromised
<1> QED
  BY <1>5, <1>6

(* A step that touches neither the store nor what the user was told owes its own thread only. *)
LEMMA QuietKept ==
    ASSUME CoreInv, CallInv, DataInv, NEW w \in Threads, Others(w),
           UNCHANGED <<disk, draft, acked, foreign, overruled, opening, ed>>,
           \A s \in Sessions : sess'[s].seq = sess[s].seq,
           \A v \in Threads \ {w} :
              wr[v].pc = "write" => sess'[wr[v].s].awaiting = sess[wr[v].s].awaiting,
           BufferIsPromised', Reloads(w)', Writes(w)', Wrote(w)', Covers(w)',
           \A v \in Threads \ {w} :
              /\ wr'[w].pc \in Covering /\ wr[v].pc \in Writing => wr'[w].seq <= wr[v].seq
              /\ wr'[w].pc \in Writing /\ wr[v].pc \in Covering => wr[v].seq <= wr'[w].seq
    PROVE  DataInv'
<1>1. \A s \in Sessions : UNCHANGED AckedSeq(s)
  BY DEF AckedSeq
<1>2. ThreadsKeep'
  <2> SUFFICES ASSUME NEW v \in Threads \ {w} PROVE Reloads(v)' /\ Writes(v)' /\ Wrote(v)' /\ Covers(v)'
    BY DEF ThreadsKeep
  <2>0. Reloads(v) /\ Writes(v) /\ Wrote(v) /\ Covers(v) /\ wr'[v] = wr[v]
    BY DEF DataInv, ThreadsKeep, Others
  <2>1. CASE wr[v].pc \in Engaged
    <3>1. wr[v].s \in Sessions
      BY <2>1, EngagedFor
    <3>2. UNCHANGED <<AckedSeq(wr[v].s), Overruled, Promised>> /\ (Held(wr[v].text)' <=> Held(wr[v].text))
          /\ (Held(ed.text)' <=> Held(ed.text))
      BY <1>1, <2>0, <3>1 DEF Overruled, Promised, Held
    <3>3. Reloads(v)'
      BY <2>0 DEF Reloads
    <3>4. Writes(v)'
      BY <2>0, <3>2 DEF Writes
    <3>5. Wrote(v)'
      BY <2>0, <3>2 DEF Wrote
    <3>6. Covers(v)'
      BY <2>0, <3>1, <3>2 DEF Covers
    <3> QED
      BY <3>3, <3>4, <3>5, <3>6
  <2>2. CASE wr[v].pc \notin Engaged
    BY <2>0, <2>2 DEF Reloads, Writes, Wrote, Covers, Writing, Covering, Engaged, Holding
  <2> QED
    BY <2>1, <2>2
<1>3. CoverIsBehind'
  <2> SUFFICES ASSUME NEW u \in Threads, NEW v \in Threads, wr'[u].pc \in Covering, wr'[v].pc \in Writing
               PROVE  wr'[u].seq <= wr'[v].seq
    BY DEF CoverIsBehind
  <2>1. u # v
    BY DEF Covering, Writing
  <2> QED
    BY <2>1 DEF DataInv, CoverIsBehind, Others
<1> QED
  BY <1>2, <1>3 DEF DataInv, RowIsAcked, FileIsPromised, OpeningKept, Promised, Overruled

(* No session's text moves, and no tier 1 lock: the buffer is what it was. *)
LEMMA BufferKept ==
    ASSUME TypeInv, DataInv, UNCHANGED <<acked, ed, tier1>>, cur' \in {cur, None},
           \A s \in Sessions : sess'[s].buf = sess[s].buf
    PROVE  BufferIsPromised'
<1>1. cur # None => cur \in Sessions
  BY DEF TypeInv, TypeOK
<1> QED
  BY <1>1 DEF DataInv, BufferIsPromised

(* A thread that is not engaged owes nothing. *)
LEMMA OwesNothing ==
    ASSUME NEW w \in Threads, wr'[w].pc \notin Holding \cup Covering
    PROVE  Reloads(w)' /\ Writes(w)' /\ Wrote(w)' /\ Covers(w)' /\ wr'[w].pc \notin Covering \cup Writing
BY DEF Reloads, Writes, Wrote, Covers, Writing, Covering, Holding

(* The step leaves its thread where it owes nothing, and the sessions as they are but for flags. *)
LEMMA DataReleased ==
    ASSUME CoreInv, CallInv, DataInv, NEW w \in Threads, Thread(w),
           wr'[w].pc \notin Holding \cup Covering, ~FlushRecord(w), ~ReloadInstall(w),
           UNCHANGED <<disk, draft, acked, foreign, overruled, tier1>>
    PROVE  DataInv'
<1>0. TypeInv
  BY DEF CoreInv
<1>1. Others(w) /\ UNCHANGED <<opening, ed>> /\ cur' \in {cur, None}
  BY <1>0, ThreadStep DEF Rests, Becomes
<1>2. \A s \in Sessions : KeepsText(s) /\ sess'[s].seq = sess[s].seq
  BY <1>0, SessionStep
<1>3. BufferIsPromised'
  BY <1>0, <1>1, <1>2, BufferKept DEF KeepsText
<1>4. \A v \in Threads \ {w} : wr[v].pc = "write" => sess'[wr[v].s].awaiting = sess[wr[v].s].awaiting
  BY <1>0, <1>2, AtWork DEF KeepsText
<1> QED
  BY <1>1, <1>2, <1>3, <1>4, OwesNothing, QuietKept

(* A flush begins with the buffer.                                           *)
LEMMA DataSnapshot ==
    \A w \in Threads : CoreInv /\ CallInv /\ DataInv /\ FlushSnapshot(w) => DataInv'
<1> SUFFICES ASSUME NEW w \in Threads, CoreInv, CallInv, DataInv, FlushSnapshot(w) PROVE DataInv'
  OBVIOUS
<1>0. TypeInv /\ LocksHeld /\ TierOneHeld /\ EditInStep /\ OneSession
  BY DEF CoreInv, LockInv, SequencesInStep, CallInv
<1> DEFINE s == wr[w].s
<1>1. /\ UNCHANGED <<disk, draft, acked, foreign, overruled, opening, ed, cur, sess, tier1>>
      /\ wlock[s] = None /\ ~sess[s].closed /\ wr[w].pc = "flush"
  BY DEF FlushSnapshot, store, history
<1>2. /\ Others(w) /\ wr'[w].pc = "check" /\ wr'[w].s = s
      /\ wr'[w].text = sess[s].buf /\ wr'[w].seq = sess[s].seq /\ wr'[w].rev = sess[s].rev
  BY <1>0, SnapshotEffect DEF Becomes
<1>3. s \in Sessions /\ cur = s
  BY <1>0, <1>1, AtWork DEF OneSession
<1>4. tier1[s] = None
  BY <1>0, <1>1, <1>3, NothingIsSomething DEF TierOneHeld, LocksHeld, Holding, TypeInv, TypeOK
<1>5. sess[s].buf = IF ed.pc = "idle" THEN acked ELSE ed.text
  BY <1>3, <1>4, NothingIsSomething DEF DataInv, BufferIsPromised
<1>6. ed.pc # "idle" => ed.s = s /\ sess[s].seq = ed.seq /\ ed.seq = ed.prev.seq + 1
  BY <1>0, <1>3, NothingIsSomething DEF EditInStep
<1>7. sess[s].seq \in Nat /\ ed.prev.seq \in Nat
  BY <1>0, <1>3, Numbers
<1>8. Writes(w)'
  <2>1. AckedSeq(wr[w].s)' = IF ed.pc = "idle" THEN sess[s].seq ELSE ed.prev.seq
    BY <1>1, <1>2 DEF AckedSeq
  <2> QED
    BY <1>1, <1>2, <1>5, <1>6, <1>7, <2>1 DEF Writes
<1>9. Reloads(w)' /\ Wrote(w)' /\ Covers(w)'
  BY <1>2 DEF Reloads, Wrote, Covers, Covering
<1>10. \A v \in Threads \ {w} : wr[v].pc \in Covering => wr[v].seq <= sess[s].seq
  <2> SUFFICES ASSUME NEW v \in Threads, wr[v].pc \in Covering PROVE wr[v].seq <= sess[s].seq
    OBVIOUS
  <2>1. wr[v].s = s
    BY <1>3, EngagedFor, NothingIsSomething DEF Engaged
  <2> QED
    BY <2>1 DEF DataInv, ThreadsKeep, Covers
<1>11. BufferIsPromised'
  BY <1>1 DEF DataInv, BufferIsPromised
<1> QED
  BY <1>1, <1>2, <1>8, <1>9, <1>10, <1>11, QuietKept DEF Covering

(* The OCC check has the file as it is.                                      *)
LEMMA DataCheck ==
    \A w \in Threads : CoreInv /\ CallInv /\ DataInv /\ FlushCheck(w) => DataInv'
<1> SUFFICES ASSUME NEW w \in Threads, CoreInv, CallInv, DataInv, FlushCheck(w) PROVE DataInv'
  OBVIOUS
<1>0. TypeInv
  BY DEF CoreInv
<1>1. /\ UNCHANGED <<disk, draft, acked, foreign, overruled, opening, ed, cur, sess, tier1>>
      /\ wr[w].pc = "check" /\ Current(w)
  BY DEF FlushCheck, store, history, locks
<1>2. Becomes(w, "write") /\ KeepsWork(w)
  BY <1>0, GotoBecomes DEF FlushCheck
<1>3. AckedSeq(wr[w].s)' = AckedSeq(wr[w].s)
  BY <1>1, <1>2 DEF AckedSeq, Becomes
<1>4. Writes(w)'
  BY <1>1, <1>2, <1>3 DEF DataInv, ThreadsKeep, Writes, Becomes, KeepsWork, Writing
<1>5. Wrote(w)'
  <2>1. wr[w].text = wr[w].rev /\ ~sess[wr[w].s].awaiting => disk = wr[w].text
    BY <1>1 DEF Current, Missing, Hash
  <2>2. disk = wr[w].text => Held(wr[w].text)'
    BY <1>1, <1>2 DEF Held, KeepsWork
  <2> QED
    BY <1>1, <1>2, <2>1, <2>2 DEF Wrote, Becomes, KeepsWork
<1>6. Reloads(w)' /\ Covers(w)'
  BY <1>2 DEF Reloads, Covers, Covering, Becomes
<1>7. BufferIsPromised'
  BY <1>1 DEF DataInv, BufferIsPromised
<1>8. \A v \in Threads : wr[v].pc \in Covering => wr[v].seq <= wr[w].seq
  BY <1>1 DEF DataInv, CoverIsBehind, Writing
<1> QED
  BY <1>1, <1>2, <1>4, <1>5, <1>6, <1>7, <1>8, QuietKept DEF Becomes, KeepsWork, Covering

(* The revision is recorded, and the buffer said to be written.              *)
LEMMA DataRecord ==
    \A w \in Threads : CoreInv /\ CallInv /\ DataInv /\ FlushRecord(w) => DataInv'
<1> SUFFICES ASSUME NEW w \in Threads, CoreInv, CallInv, DataInv, FlushRecord(w) PROVE DataInv'
  OBVIOUS
<1>0. TypeInv
  BY DEF CoreInv
<1>1. /\ UNCHANGED <<disk, draft, acked, foreign, overruled, opening, ed, cur, tier1>>
      /\ wr[w].pc = "record"
  BY DEF FlushRecord, store, history, locks
<1>2. Becomes(w, "clear") /\ KeepsWork(w) /\ Thread(w)
  BY <1>0, GotoBecomes DEF FlushRecord, Thread, Flush
<1>3. \A s \in Sessions : sess'[s].seq = sess[s].seq /\ sess'[s].buf = sess[s].buf
  BY <1>0, <1>1, <1>2, SessionStep, Zenon DEF KeepsText, ReloadInstall
<1>4. wr[w].s \in Sessions
  BY <1>0, <1>1, AtWork
<1>5. AckedSeq(wr[w].s)' = AckedSeq(wr[w].s)
  BY <1>1, <1>2, <1>3, <1>4 DEF AckedSeq, Becomes
<1>6. Writes(w)'
  BY <1>1, <1>2, <1>5 DEF DataInv, ThreadsKeep, Writes, Becomes, KeepsWork, Writing
<1>7. Wrote(w)'
  <2>1. Held(wr[w].text)' <=> Held(wr[w].text)
    BY <1>1, <1>2 DEF Held, KeepsWork
  <2> QED
    BY <1>1, <1>2, <1>5, <2>1 DEF DataInv, ThreadsKeep, Wrote, Becomes, KeepsWork
<1>8. Reloads(w)' /\ Covers(w)'
  BY <1>2 DEF Reloads, Covers, Covering, Becomes
<1>9. BufferIsPromised'
  BY <1>0, <1>1, <1>3, BufferKept
<1>10. \A v \in Threads \ {w} : wr[v].pc # "write"
  BY <1>1, HoldsAlone DEF Holding
<1>11. \A v \in Threads : wr[v].pc \in Covering => wr[v].seq <= wr[w].seq
  BY <1>1 DEF DataInv, CoverIsBehind, Writing
<1> QED
  BY <1>1, <1>2, <1>3, <1>6, <1>7, <1>8, <1>9, <1>10, <1>11, QuietKept DEF Becomes, KeepsWork, Covering

(* The flush ends, or its close goes on to commit.                           *)
LEMMA DataSettle ==
    \A w \in Threads : CoreInv /\ CallInv /\ DataInv /\ FlushSettle(w) => DataInv'
<1> SUFFICES ASSUME NEW w \in Threads, CoreInv, CallInv, DataInv, FlushSettle(w) PROVE DataInv'
  OBVIOUS
<1>0. TypeInv
  BY DEF CoreInv
<1>1. /\ UNCHANGED <<disk, draft, acked, foreign, overruled, opening, ed, cur, tier1>>
      /\ wr[w].pc = "index" /\ Thread(w)
  BY DEF FlushSettle, store, history, locks, Thread, Flush
<1>2. CASE wr[w].call # "close"
  BY <1>0, <1>1, <1>2, SettleEffect, DataReleased, IdleTypes, Zenon
     DEF Rests, FlushRecord, ReloadInstall, Holding, Covering
<1>3. CASE wr[w].call = "close"
  <2>1. Becomes(w, "commit") /\ KeepsWork(w)
    BY <1>0, <1>3, SettleEffect, Zenon
  <2>2. \A s \in Sessions : sess'[s].seq = sess[s].seq /\ KeepsText(s)
    BY <1>0, <1>1, SessionStep, Zenon DEF ReloadInstall, FlushRecord
  <2>3. /\ wr[w].s \in Sessions
        /\ ed.pc # "idle" => sess[wr[w].s].seq = ed.seq /\ ed.seq = ed.prev.seq + 1
    BY <1>1, EngagedFor DEF Engaged, Holding
  <2>4. sess[wr[w].s].seq \in Nat /\ wr[w].seq \in Nat /\ ed.prev.seq \in Nat
        /\ AckedSeq(wr[w].s) \in Nat
    BY <1>0, <2>3, Numbers
  <2>5. AckedSeq(wr[w].s)' = AckedSeq(wr[w].s)
    BY <1>1, <2>1, <2>2, <2>3 DEF AckedSeq, Becomes
  <2>6. Writes(w) /\ (wr[w].seq >= AckedSeq(wr[w].s) => Held(wr[w].text))
    BY <1>1 DEF DataInv, ThreadsKeep, Wrote
  <2>7. Covers(w)'
    <3>1. wr[w].seq <= sess[wr[w].s].seq
      BY <1>1, <2>3, <2>4, <2>6 DEF Writes, Writing, AckedSeq
    <3>2. wr[w].seq < AckedSeq(wr[w].s) => draft = None \/ draft.seq > wr[w].seq
      BY <1>1, <2>4, <2>6 DEF Writes, Writing
    <3>3. wr[w].seq = AckedSeq(wr[w].s) => disk' \in Promised' \/ Overruled'
      BY <1>1, <2>4, <2>6 DEF Writes, Writing, Held, Overruled, Promised
    <3>4. wr[w].seq > AckedSeq(wr[w].s) => Held(ed.text)'
      BY <1>1, <2>4, <2>6 DEF Writes, Writing, Held
    <3> QED
      BY <1>1, <2>1, <2>2, <2>3, <2>5, <3>1, <3>2, <3>3, <3>4 DEF Covers, Becomes, KeepsWork
  <2>8. Reloads(w)' /\ Writes(w)' /\ Wrote(w)'
    BY <2>1 DEF Reloads, Writes, Wrote, Writing, Becomes
  <2>9. BufferIsPromised'
    BY <1>0, <1>1, <2>2, BufferKept DEF KeepsText
  <2>10. \A v \in Threads \ {w} : wr[v].pc \notin Writing
    BY <1>1, HoldsAlone DEF Holding, Writing
  <2> QED
    BY <1>1, <2>1, <2>2, <2>7, <2>8, <2>9, <2>10, QuietKept DEF Becomes, Writing
<1> QED
  BY <1>2, <1>3

(* A reload reads the file.                                                  *)
LEMMA DataRead ==
    \A w \in Threads : CoreInv /\ CallInv /\ DataInv /\ ReloadRead(w) => DataInv'
<1> SUFFICES ASSUME NEW w \in Threads, CoreInv, CallInv, DataInv, ReloadRead(w) PROVE DataInv'
  OBVIOUS
<1>0. TypeInv
  BY DEF CoreInv
<1>1. /\ UNCHANGED <<disk, draft, acked, foreign, overruled, opening, ed, cur, sess, tier1>>
      /\ wr[w].pc = "reload" /\ Thread(w)
  BY DEF ReloadRead, store, history, Thread, Reload
<1>2. CASE disk = Absent
  BY <1>0, <1>1, <1>2, ReadEffect, DataReleased, IdleTypes, Zenon
     DEF Rests, FlushRecord, ReloadInstall, Holding, Covering
<1>3. CASE disk # Absent
  <2>1. Becomes(w, "discard") /\ wr'[w].text = disk
    BY <1>0, <1>3, ReadEffect
  <2>2. Reloads(w)' /\ Writes(w)' /\ Wrote(w)' /\ Covers(w)'
    BY <1>1, <2>1 DEF Reloads, Writes, Wrote, Covers, Writing, Covering, Becomes
  <2>3. BufferIsPromised'
    BY <1>1 DEF DataInv, BufferIsPromised
  <2> QED
    BY <1>1, <2>1, <2>2, <2>3, QuietKept DEF Becomes, Writing, Covering
<1> QED
  BY <1>2, <1>3

(* A reload has installed it.                                                *)
LEMMA DataReloaded ==
    \A w \in Threads : CoreInv /\ CallInv /\ DataInv /\ ReloadInstall(w) => DataInv'
<1> SUFFICES ASSUME NEW w \in Threads, CoreInv, CallInv, DataInv, ReloadInstall(w) PROVE DataInv'
  OBVIOUS
<1>0. TypeInv
  BY DEF CoreInv
<1>1. /\ UNCHANGED <<disk, draft, acked, foreign, overruled, opening, ed, cur>>
      /\ tier1' = [tier1 EXCEPT ![wr[w].s] = None]
      /\ wr[w].pc = "install" /\ Thread(w)
  BY DEF ReloadInstall, store, history, locks, Thread, Reload
<1>2. Rests(w)
  BY <1>0, InstallEffect, Zenon
<1>3. \A s \in Sessions : /\ sess'[s].seq = sess[s].seq
                          /\ IF s = wr[w].s THEN sess'[s].buf = wr[w].text
                             ELSE sess'[s].buf = sess[s].buf
  <2>1. wr[w].s \in Sessions /\ sess[wr[w].s] \in SessionState
    BY <1>0, <1>1, AtWork
  <2>2. \A s \in Sessions \ {wr[w].s} : sess'[s] = sess[s]
    BY <1>0, InstallEffect, Zenon DEF SameSessionsBut
  <2>3. sess'[wr[w].s].seq = sess[wr[w].s].seq /\ sess'[wr[w].s].buf = wr[w].text
    BY <1>0, <2>1, InstallEffect, Zenon DEF SessionState
  <2> QED
    BY <2>2, <2>3
<1>4. acked = wr[w].text /\ ed.pc = "idle"
  BY <1>1 DEF DataInv, ThreadsKeep, Reloads
<1>5. BufferIsPromised'
  <2>1. cur # None => cur \in Sessions /\ tier1 \in [Sessions -> Threads \cup {None}]
    BY <1>0 DEF TypeInv, TypeOK
  <2> QED
    BY <1>1, <1>3, <1>4, <2>1 DEF DataInv, BufferIsPromised
<1>6. \A v \in Threads \ {w} : wr[v].pc # "write"
  BY <1>1, HoldsAlone DEF Holding
<1>7. wr'[w].pc \notin Holding \cup Covering
  BY <1>2, IdleTypes DEF Rests, Holding, Covering
<1> QED
  BY <1>1, <1>2, <1>3, <1>5, <1>6, <1>7, OwesNothing, QuietKept DEF Rests

(* A commit changes no tier.                                                 *)
LEMMA DataCommit ==
    \A w \in Threads : CoreInv /\ CallInv /\ DataInv /\ (CloseCommit(w) \/ CloseCommitFails(w)) => DataInv'
<1> SUFFICES ASSUME NEW w \in Threads, CoreInv, CallInv, DataInv,
                    CloseCommit(w) \/ CloseCommitFails(w)
             PROVE  DataInv'
  OBVIOUS
<1>0. TypeInv
  BY DEF CoreInv
<1>1. /\ UNCHANGED <<disk, draft, acked, foreign, overruled, opening, ed, cur, sess, tier1>>
      /\ wr[w].pc = "commit"
  BY DEF CloseCommit, CloseCommitFails, store, history, locks
<1>2. Becomes(w, "unstage") /\ KeepsWork(w)
  BY <1>0, GotoBecomes DEF CloseCommit, CloseCommitFails
<1>3. UNCHANGED <<AckedSeq(wr[w].s), Overruled, Promised>> /\ (Held(ed.text)' <=> Held(ed.text))
  BY <1>1, <1>2 DEF AckedSeq, Overruled, Promised, Held, Becomes
<1>4. Covers(w)'
  BY <1>1, <1>2, <1>3 DEF DataInv, ThreadsKeep, Covers, Becomes, KeepsWork, Covering
<1>5. Reloads(w)' /\ Writes(w)' /\ Wrote(w)'
  BY <1>2 DEF Reloads, Writes, Wrote, Writing, Becomes
<1>6. BufferIsPromised'
  BY <1>1 DEF DataInv, BufferIsPromised
<1>7. \A v \in Threads : wr[v].pc \in Writing => wr[w].seq <= wr[v].seq
  BY <1>1 DEF DataInv, CoverIsBehind, Covering
<1> QED
  BY <1>1, <1>2, <1>4, <1>5, <1>6, <1>7, QuietKept DEF Becomes, KeepsWork, Writing

(* The atomic replacement of the file.                                       *)
LEMMA DataWrite ==
    \A w \in Threads : CoreInv /\ CallInv /\ DataInv /\ FlushWrite(w) => DataInv'
<1> SUFFICES ASSUME NEW w \in Threads, CoreInv, CallInv, DataInv, FlushWrite(w) PROVE DataInv'
  OBVIOUS
<1>0. TypeInv
  BY DEF CoreInv
<1>1. /\ UNCHANGED <<draft, acked, overruled, opening, ed, cur, sess, tier1>>
      /\ wr[w].pc = "write"
  BY DEF FlushWrite, locks
<1>2. Becomes(w, "record") /\ KeepsWork(w)
  BY <1>0, GotoBecomes DEF FlushWrite
<1>3. disk' = wr[w].text \/ (disk' = disk /\ wr[w].text = wr[w].rev /\ ~sess[wr[w].s].awaiting)
  BY DEF FlushWrite
<1>4. opening = None /\ wr[w].s \in Sessions
  BY <1>1, EngagedFor DEF Engaged, Holding
<1>5. AckedSeq(wr[w].s) \in Nat /\ wr[w].seq \in Nat
  BY <1>0, <1>4, Numbers
<1>6. \A s : UNCHANGED AckedSeq(s)
  BY <1>1 DEF AckedSeq
<1>7. UNCHANGED <<Promised, Overruled>>
  BY <1>1 DEF Promised, Overruled
<1>8. Writes(w) /\ Wrote(w)
  BY DEF DataInv, ThreadsKeep
<1>9. \/ wr[w].seq < AckedSeq(wr[w].s) /\ draft # None
      \/ wr[w].seq >= AckedSeq(wr[w].s) /\ wr[w].text \in Promised
  BY <1>1, <1>5, <1>8 DEF Writes, Writing, Promised
<1>10. FileIsPromised'
  BY <1>1, <1>3, <1>7, <1>9 DEF DataInv, FileIsPromised
<1>11. Reloads(w)' /\ Writes(w)' /\ Wrote(w)' /\ Covers(w)'
  <2>1. Reloads(w)' /\ Covers(w)'
    BY <1>2 DEF Reloads, Covers, Covering, Becomes
  <2>2. AckedSeq(wr[w].s)' = AckedSeq(wr[w].s)
    BY <1>2, <1>6 DEF Becomes, AckedSeq
  <2>3. Writes(w)'
    BY <1>1, <1>2, <1>8, <2>2 DEF Writes, Writing, Becomes, KeepsWork
  <2>4. wr[w].seq >= AckedSeq(wr[w].s) => Held(wr[w].text)'
    BY <1>1, <1>2, <1>3, <1>8 DEF Wrote, Held, KeepsWork
  <2>5. Wrote(w)'
    BY <1>2, <2>2, <2>4 DEF Wrote, Becomes, KeepsWork
  <2> QED
    BY <2>1, <2>3, <2>5
<1>12. ASSUME NEW v \in Threads \ {w}
       PROVE  Reloads(v)' /\ Writes(v)' /\ Wrote(v)' /\ Covers(v)'
  <2>0. wr'[v] = wr[v] /\ wr[v].pc \notin Holding
    BY <1>1, <1>2, HoldsAlone DEF Becomes, Others, Holding
  <2>1. Reloads(v)' /\ Writes(v)' /\ Wrote(v)'
    BY <2>0 DEF Reloads, Writes, Wrote, Writing, Holding
  <2>2. Covers(v)'
    <3> SUFFICES ASSUME wr[v].pc \in Covering PROVE Covers(v)'
      BY <2>0 DEF Covers
    <3>1. Covers(v) /\ wr[v].seq <= wr[w].seq
      BY <1>1 DEF DataInv, ThreadsKeep, CoverIsBehind, Writing
    <3>2. wr[v].s = wr[w].s /\ wr[v].seq \in Nat
      BY <1>0, <1>1, EngagedFor, Numbers DEF Engaged, Holding
    <3>3. AckedSeq(wr[v].s)' = AckedSeq(wr[w].s)
      BY <1>1, <2>0, <3>2 DEF AckedSeq
    <3>4. wr[v].seq = AckedSeq(wr[w].s) => disk' \in Promised' \/ Overruled'
      BY <1>3, <1>5, <1>7, <1>9, <3>1, <3>2 DEF Covers
    <3>5. wr[v].seq > AckedSeq(wr[w].s) => Held(ed.text)'
      <4> HAVE wr[v].seq > AckedSeq(wr[w].s)
      <4>1. wr[w].text = ed.text
        BY <1>1, <1>5, <1>8, <3>1, <3>2 DEF Writes, Writing
      <4>2. Held(ed.text)
        BY <3>1, <3>2 DEF Covers
      <4> QED
        BY <1>1, <1>3, <4>1, <4>2 DEF Held
    <3> QED
      BY <1>1, <2>0, <3>1, <3>2, <3>3, <3>4, <3>5 DEF Covers
  <2> QED
    BY <2>1, <2>2
<1>13. CoverIsBehind'
  <2>1. \A v \in Threads : /\ wr'[v].pc \in Covering => wr[v].pc \in Covering
                           /\ wr'[v].pc \in Writing => wr[v].pc \in Writing
                           /\ wr'[v].seq = wr[v].seq
    BY <1>1, <1>2 DEF Becomes, Others, KeepsWork, Covering, Writing
  <2> QED
    BY <2>1 DEF DataInv, CoverIsBehind
<1> QED
  BY <1>1, <1>4, <1>10, <1>11, <1>12, <1>13
     DEF DataInv, ThreadsKeep, RowIsAcked, OpeningKept, BufferIsPromised

(* What the deletion of a row that a step accounted for leaves behind. *)
LEMMA RowCleared ==
    ASSUME CoreInv, CallInv, DataInv, NEW w \in Threads, Others(w), wr'[w].s = wr[w].s,
           wr[w].pc \in Engaged,
           UNCHANGED <<disk, acked, foreign, overruled, opening, ed, cur, sess, tier1>>,
           draft' = draft \/ (draft' = None /\ draft.seq <= wr[w].seq),
           draft # None /\ draft' = None => disk \in Promised \/ Overruled,
           \A v \in Threads : wr[v].pc \in Writing /\ v # w => wr[w].seq <= wr[v].seq,
           Reloads(w)' /\ Writes(w)' /\ Wrote(w)' /\ Covers(w)', CoverIsBehind'
    PROVE  DataInv'
<1>0. TypeInv
  BY DEF CoreInv
<1>1. UNCHANGED <<Promised, Overruled>> /\ opening = None /\ opening' = None
  BY EngagedFor DEF Promised, Overruled
<1>2. FileIsPromised'
  BY <1>1 DEF DataInv, FileIsPromised
<1>3. ASSUME NEW v \in Threads \ {w}
      PROVE  Reloads(v)' /\ Writes(v)' /\ Wrote(v)' /\ Covers(v)'
  <2>0. wr'[v] = wr[v] /\ Reloads(v) /\ Writes(v) /\ Wrote(v) /\ Covers(v)
    BY DEF Others, DataInv, ThreadsKeep
  <2>1. AckedSeq(wr[v].s)' = AckedSeq(wr[v].s) /\ (Held(wr[v].text)' <=> Held(wr[v].text))
        /\ (Held(ed.text)' <=> Held(ed.text))
    BY <2>0 DEF AckedSeq, Held
  <2>2. Reloads(v)'
    BY <2>0 DEF Reloads
  <2>3. Wrote(v)'
    BY <2>0, <2>1 DEF Wrote
  <2>4. Covers(v)'
    BY <1>1, <2>0, <2>1 DEF Covers
  <2>5. Writes(v)'
    <3> SUFFICES ASSUME wr[v].pc \in Writing PROVE Writes(v)'
      BY <2>0 DEF Writes
    <3>1. wr[v].s \in Sessions
      BY EngagedFor DEF Engaged, Holding, Writing
    <3>2. wr[v].seq \in Nat /\ wr[w].seq \in Nat /\ AckedSeq(wr[v].s) \in Nat /\ wr[w].seq <= wr[v].seq
      BY <1>0, <3>1, Numbers
    <3>3. wr[v].seq < AckedSeq(wr[v].s) => draft' = draft
      BY <2>0, <3>2 DEF Writes
    <3> QED
      BY <2>0, <2>1, <3>3 DEF Writes
  <2> QED
    BY <2>2, <2>3, <2>4, <2>5
<1> QED
  BY <1>1, <1>2, <1>3 DEF DataInv, ThreadsKeep, RowIsAcked, OpeningKept, BufferIsPromised

(* A flush clears the row through its own snapshot.                          *)
LEMMA DataClear ==
    \A w \in Threads : CoreInv /\ CallInv /\ DataInv /\ FlushClear(w) => DataInv'
<1> SUFFICES ASSUME NEW w \in Threads, CoreInv, CallInv, DataInv, FlushClear(w) PROVE DataInv'
  OBVIOUS
<1>0. TypeInv
  BY DEF CoreInv
<1>1. /\ UNCHANGED <<disk, acked, foreign, overruled, opening, ed, cur, sess, tier1>>
      /\ wr[w].pc = "clear" /\ wr[w].pc \in Engaged
      /\ draft' = draft \/ (draft' = None /\ draft.seq <= wr[w].seq)
  BY DEF FlushClear, ClearThrough, locks, history, Engaged, Holding
<1>2. Becomes(w, "index") /\ KeepsWork(w)
  BY <1>0, GotoBecomes DEF FlushClear
<1>3. AckedSeq(wr[w].s) \in Nat /\ wr[w].seq \in Nat
  BY <1>0, <1>1, EngagedFor, Numbers
<1>4. Writes(w) /\ Wrote(w)
  BY DEF DataInv, ThreadsKeep
<1>5. wr[w].seq < AckedSeq(wr[w].s) => draft' = draft
  BY <1>1, <1>3, <1>4 DEF Writes, Writing
<1>6. draft # None /\ draft' = None => disk \in Promised \/ Overruled
  <2> HAVE draft # None /\ draft' = None
  <2>1. wr[w].seq >= AckedSeq(wr[w].s)
    BY <1>3, <1>5
  <2>2. wr[w].text \in Promised
    BY <1>1, <1>3, <1>4, <2>1 DEF Writes, Writing, Promised
  <2>3. Held(wr[w].text)
    BY <1>1, <1>4, <2>1 DEF Wrote
  <2> QED
    BY <2>2, <2>3 DEF Held, Overruled
<1>7. Reloads(w)' /\ Writes(w)' /\ Wrote(w)' /\ Covers(w)'
  <2>1. AckedSeq(wr[w].s)' = AckedSeq(wr[w].s) /\ (Held(wr[w].text)' <=> Held(wr[w].text))
    BY <1>1, <1>2 DEF AckedSeq, Held, Becomes, KeepsWork
  <2>2. Reloads(w)' /\ Covers(w)'
    BY <1>2 DEF Reloads, Covers, Covering, Becomes
  <2>3. Writes(w)'
    BY <1>1, <1>2, <1>4, <1>5, <2>1 DEF Writes, Writing, Becomes, KeepsWork
  <2>4. Wrote(w)'
    BY <1>1, <1>2, <1>4, <2>1 DEF Wrote, Becomes, KeepsWork
  <2> QED
    BY <2>2, <2>3, <2>4
<1>8. CoverIsBehind'
  <2>1. \A v \in Threads : /\ wr'[v].pc \in Covering => wr[v].pc \in Covering
                           /\ wr'[v].pc \in Writing => wr[v].pc \in Writing
                           /\ wr'[v].seq = wr[v].seq
    BY <1>1, <1>2 DEF Becomes, Others, KeepsWork, Covering, Writing
  <2> QED
    BY <2>1 DEF DataInv, CoverIsBehind
<1>9. \A v \in Threads : wr[v].pc \in Writing => v = w
  BY <1>1, HoldsAlone DEF Writing, Holding
<1> QED
  BY <1>1, <1>2, <1>6, <1>7, <1>8, <1>9, RowCleared DEF Becomes

(* A close clears it through what was written.                               *)
LEMMA DataUnstage ==
    \A w \in Threads : CoreInv /\ CallInv /\ DataInv /\ CloseClear(w) => DataInv'
<1> SUFFICES ASSUME NEW w \in Threads, CoreInv, CallInv, DataInv, CloseClear(w) PROVE DataInv'
  OBVIOUS
<1>0. TypeInv
  BY DEF CoreInv
<1>1. /\ UNCHANGED <<disk, acked, foreign, overruled, opening, ed, cur, sess, tier1>>
      /\ wr[w].pc = "unstage" /\ wr[w].pc \in Engaged
      /\ draft' = draft \/ (draft' = None /\ draft.seq <= wr[w].seq)
  BY DEF CloseClear, ClearThrough, locks, history, Engaged, Covering
<1>2. Becomes(w, "retire") /\ KeepsWork(w)
  BY <1>0, GotoBecomes DEF CloseClear
<1>3. AckedSeq(wr[w].s) \in Nat /\ wr[w].seq \in Nat /\ (draft # None => draft.seq \in Nat)
      /\ sess[wr[w].s].seq \in Nat
  BY <1>0, <1>1, EngagedFor, Numbers
<1>4. Covers(w)
  BY DEF DataInv, ThreadsKeep
<1>5. draft # None /\ draft' = None => disk \in Promised \/ Overruled
  <2> HAVE draft # None /\ draft' = None
  <2>0. draft.seq <= wr[w].seq
    BY <1>1
  <2>1. wr[w].seq >= AckedSeq(wr[w].s)
    BY <1>1, <1>3, <1>4, <2>0 DEF Covers, Covering
  <2>2. CASE wr[w].seq = AckedSeq(wr[w].s)
    BY <1>1, <1>4, <2>2 DEF Covers, Covering
  <2>3. CASE wr[w].seq > AckedSeq(wr[w].s)
    <3>1. Held(ed.text)
      BY <1>1, <1>4, <2>3 DEF Covers, Covering
    <3>2. ed.pc # "idle"
      BY <1>1, <1>3, <1>4, <2>3 DEF Covers, Covering, AckedSeq
    <3> QED
      BY <3>1, <3>2 DEF Held, Overruled, Promised
  <2> QED
    BY <1>3, <2>1, <2>2, <2>3
<1>6. Reloads(w)' /\ Writes(w)' /\ Wrote(w)' /\ Covers(w)'
  BY <1>2, OwesNothing DEF Becomes, Holding, Covering
<1>7. CoverIsBehind'
  <2>1. \A v \in Threads : /\ wr'[v].pc \in Covering => wr[v].pc \in Covering
                           /\ wr'[v].pc \in Writing => wr[v].pc \in Writing
                           /\ wr'[v].seq = wr[v].seq
    BY <1>1, <1>2 DEF Becomes, Others, KeepsWork, Covering, Writing
  <2> QED
    BY <2>1 DEF DataInv, CoverIsBehind
<1>8. \A v \in Threads : wr[v].pc \in Writing => wr[w].seq <= wr[v].seq
  BY <1>1 DEF DataInv, CoverIsBehind, Covering
<1> QED
  BY <1>1, <1>2, <1>5, <1>6, <1>7, <1>8, RowCleared DEF Becomes

(* A reload discards it, and promises the file instead.                      *)
LEMMA DataDiscard ==
    \A w \in Threads : CoreInv /\ CallInv /\ DataInv /\ ReloadDiscard(w) => DataInv'
<1> SUFFICES ASSUME NEW w \in Threads, CoreInv, CallInv, DataInv, ReloadDiscard(w) PROVE DataInv'
  OBVIOUS
<1>0. TypeInv
  BY DEF CoreInv
<1>1. /\ UNCHANGED <<disk, opening, ed, cur, sess>>
      /\ wr[w].pc = "discard" /\ draft' = None /\ acked' = wr[w].text
      /\ foreign' = (foreign /\ disk # wr[w].text)
      /\ overruled' = IF foreign' THEN {wr[w].text} ELSE {}
      /\ tier1' = [tier1 EXCEPT ![wr[w].s] = w]
  BY DEF ReloadDiscard
<1>2. Becomes(w, "install") /\ KeepsWork(w)
  BY <1>0, GotoBecomes DEF ReloadDiscard
<1>3. opening = None /\ cur \in {wr[w].s, None} /\ wr[w].s \in Sessions
      /\ ed.pc = "idle"
      /\ \A v \in Threads : wr[v].pc \in Engaged => wr[v].s = wr[w].s
  BY <1>1, EngagedFor DEF Engaged, Holding, ReloadDiscard, TierOneFree
<1>4. disk = wr[w].text \/ foreign
  BY <1>1 DEF DataInv, ThreadsKeep, Reloads
<1>5. Promised' = {wr[w].text} /\ (disk' \in Promised' \/ Overruled')
  BY <1>1, <1>3, <1>4 DEF Promised, Overruled
<1>6. BufferIsPromised'
  <2>1. tier1'[wr[w].s] # None
    BY <1>0, <1>1, <1>3, NothingIsSomething DEF TypeInv, TypeOK
  <2> QED
    BY <1>1, <1>3, <2>1 DEF BufferIsPromised
<1>7. \A v \in Threads : wr'[v].pc \notin Writing /\ (v # w => wr'[v] = wr[v] /\ wr[v].pc \notin Holding)
  BY <1>1, <1>2, HoldsAlone DEF Becomes, Others, Writing, Holding
<1>8. ThreadsKeep'
  <2> SUFFICES ASSUME NEW v \in Threads PROVE Reloads(v)' /\ Writes(v)' /\ Wrote(v)' /\ Covers(v)'
    BY DEF ThreadsKeep
  <2>1. Writes(v)' /\ Wrote(v)'
    BY <1>7 DEF Writes, Wrote, Writing
  <2>2. CASE v = w
    BY <1>1, <1>2, <1>3, <2>1, <2>2 DEF Reloads, Covers, Covering, Becomes, KeepsWork
  <2>3. CASE v # w
    <3>1. Reloads(v)'
      BY <1>7, <2>3 DEF Reloads, Holding
    <3>2. Covers(v)'
      <4> SUFFICES ASSUME wr[v].pc \in Covering PROVE Covers(v)'
        BY <1>7, <2>3 DEF Covers
      <4>1. Covers(v) /\ wr'[v] = wr[v] /\ wr[v].s = wr[w].s
        BY <1>3, <1>7, <2>3 DEF DataInv, ThreadsKeep, Engaged
      <4>2. wr[v].seq \in Nat /\ sess[wr[v].s].seq \in Nat
        BY <1>0, <1>3, <4>1, Numbers
      <4>3. AckedSeq(wr[v].s)' = sess[wr[v].s].seq
        BY <1>1, <1>3, <4>1 DEF AckedSeq
      <4> QED
        BY <1>1, <1>5, <4>1, <4>2, <4>3 DEF Covers
    <3> QED
      BY <2>1, <3>1, <3>2
  <2> QED
    BY <2>2, <2>3
<1> QED
  BY <1>1, <1>3, <1>5, <1>6, <1>7, <1>8
     DEF DataInv, RowIsAcked, FileIsPromised, OpeningKept, CoverIsBehind

(* Every step of a flush, a reload or a close.                               *)
LEMMA DataThread ==
    \A w \in Threads : CoreInv /\ CallInv /\ OneClose /\ DataInv /\ Thread(w) => DataInv'
<1> SUFFICES ASSUME NEW w \in Threads, CoreInv, CallInv, OneClose, DataInv, Thread(w) PROVE DataInv'
  OBVIOUS
<1>0. TypeInv
  BY DEF CoreInv
<1>1. ASSUME wr'[w].pc \in {"rest", "flush", "retire", "remove"},
             wr[w].pc # "record", wr[w].pc # "install",
             UNCHANGED <<disk, draft, acked, foreign, overruled, tier1>>
      PROVE  DataInv'
  BY <1>1, DataReleased, Zenon DEF FlushRecord, ReloadInstall, Holding, Covering
<1>2. CASE FlushClosed(w)
  <2>1. wr[w].call # "close"
    BY <1>0, <1>2, AtWork DEF FlushClosed, OneClose
  <2>2. wr'[w].pc = "rest"
    BY <1>0, <1>2, <2>1, ClosedEffect, IdleTypes DEF Rests
  <2> QED
    BY <1>1, <1>2, <2>2 DEF FlushClosed, store, history, locks
<1>3. CASE FlushFails(w)
  <2>1. wr'[w].pc \in {"rest", "retire"}
    BY <1>0, <1>3, FailsEffect, IdleTypes DEF Rests, Becomes
  <2>2. wr[w].pc \in {"check", "write", "clear", "index"}
    BY <1>0, <1>3, FailsEffect
  <2> QED
    BY <1>1, <1>3, <2>1, <2>2 DEF FlushFails, store, history
<1>4. CASE ReloadFails(w)
  <2>1. wr'[w].pc = "rest"
    BY <1>0, <1>4, RestRests, IdleTypes DEF ReloadFails, Rests
  <2> QED
    BY <1>1, <1>4, <2>1 DEF ReloadFails, store, history
<1>5. CASE CloseBegin(w)
  <2>1. wr'[w].pc \in {"flush", "retire"}
    BY <1>0, <1>5, BeginEffect DEF Becomes
  <2> QED
    BY <1>1, <1>5, <2>1 DEF CloseBegin, store, history, locks
<1>6. CASE CloseRetire(w)
  <2>1. wr'[w].pc = "remove"
    BY <1>0, <1>6, RetireEffect, Zenon DEF Becomes
  <2> QED
    BY <1>1, <1>6, <2>1 DEF CloseRetire, store, history, locks
<1>7. CASE CloseRemove(w)
  <2>1. wr'[w].pc = "rest"
    BY <1>0, <1>7, RestRests, IdleTypes DEF CloseRemove, Rests
  <2> QED
    BY <1>1, <1>7, <2>1 DEF CloseRemove, store, history, locks
<1> QED
  BY <1>2, <1>3, <1>4, <1>5, <1>6, <1>7, DataSnapshot, DataCheck, DataWrite, DataRecord, DataClear,
     DataSettle, DataRead, DataDiscard, DataReloaded, DataCommit, DataUnstage
     DEF Thread, Flush, Reload, Close

LEMMA DataNext == Orderly /\ CoreInv /\ CallInv /\ OneClose /\ DataInv /\ [Next]_vars => DataInv'
<1> SUFFICES ASSUME Orderly, CoreInv, CallInv, OneClose, DataInv, [Next]_vars PROVE DataInv'
  OBVIOUS
<1>0. TypeInv
  BY DEF CoreInv
<1>1. CASE EditDraftFails \/ EditRetain \/ EditUndo
  BY <1>1 DEF EditDraftFails, EditRetain, EditUndo, Orderly, DataInv
<1>2. CASE \E s \in Sessions : TimerFires(s)
  <2>1. PICK s \in Sessions : TimerFires(s)
    BY <1>2
  <2>2. UNCHANGED <<disk, draft, acked, foreign, overruled, opening, ed, cur, tier1, sess>>
    BY <2>1 DEF TimerFires, store, history, locks
  <2> QED
    BY <1>0, <2>1, <2>2, TimerEffect, StartsKeep DEF Engaged, Holding, Covering
<1>3. CASE \E w \in Workers, call \in {"flush", "reload", "close"} : Call(w, call)
  <2>1. PICK w \in Workers, call \in {"flush", "reload", "close"} : Call(w, call)
    BY <1>3
  <2>2. UNCHANGED <<disk, draft, acked, foreign, overruled, opening, ed, cur, tier1, sess>>
    BY <2>1 DEF Call, store, history, locks
  <2>3. Others(w) /\ w \in Threads /\ wr'[w].pc \in {"flush", "reload", "close"}
    BY <1>0, <2>1, CallEffect
  <2> QED
    BY <2>2, <2>3, StartsKeep DEF Engaged, Holding, Covering
<1>4. CASE UNCHANGED vars
  BY <1>4 DEF vars, store, history, locks, DataInv, RowIsAcked, FileIsPromised, OpeningKept,
     BufferIsPromised, ThreadsKeep, CoverIsBehind, Reloads, Writes, Wrote, Covers, Held, Overruled,
     Promised, AckedSeq
<1> QED
  BY <1>1, <1>2, <1>3, <1>4, DataOpen, DataEditInstall, DataEditDraft, DataThread, DataGuest, DataCrash
     DEF Next, EditSettles

-----------------------------------------------------------------------------
(* Recovery.                                                                 *)

(* The inductive invariant of recovery.                                      *)
DurableInv == CoreInv /\ CallInv /\ OneClose /\ DataInv

LEMMA DurableInit == Init => DurableInv
BY CoreInit, CallInit, DataInit DEF DurableInv

LEMMA DurableNext == Orderly /\ DurableInv /\ [Next]_vars => DurableInv'
BY CoreNext, CallNext, OneCloseNext, DataNext DEF DurableInv, Orderly

(* In orderly use the sequences are in step, the calls at work are for one   *)
(* session, at most one close is among them, and the promised text is in     *)
(* the row, in the file or in the hands of the one thread that is between    *)
(* them, whatever edit_note, flush_note_file, reload_note, close_note and a  *)
(* kill interleave.                                                          *)
THEOREM DurableHolds == ASSUME Orderly PROVE Spec => []DurableInv
<1>1. DurableInv /\ [Next]_vars => DurableInv'
  BY DurableNext
<1> QED
  BY <1>1, DurableInit, PTL DEF Spec

(* At every moment, a kill included, the text last answered with Ok is the   *)
(* one an open will hand back: it is in the draft row, and without a row it  *)
(* is in the file, unless another program replaced it there. No              *)
(* interleaving of the flush, reload and close paths of persist.rs clears a  *)
(* row that the file does not cover.                                         *)
THEOREM NothingAckedIsLost == ASSUME Orderly PROVE Spec => []Recoverable
<1>1. DurableInv => Recoverable
  BY DEF DurableInv, DataInv, RowIsAcked, FileIsPromised, Recoverable, Overruled, Promised
<1> QED
  BY <1>1, DurableHolds, PTL

(* What an open installs is the row, or what it read.                        *)
LEMMA OpenRecoversStep == DurableInv /\ [Next]_vars =>
    [cur = None /\ cur' # None /\ acked # None /\ overruled \cap Promised = {}
        => sess'[cur'].buf = acked]_vars
<1> SUFFICES ASSUME DurableInv, [Next]_vars, cur = None, cur' # None, acked # None,
                    overruled \cap Promised = {}
             PROVE  sess'[cur'].buf = acked
  OBVIOUS
<1>0. TypeInv /\ OpenAlone
  BY DEF DurableInv, CoreInv, SequencesInStep
<1>1. OpenInstall
  <2>1. \A w \in Threads : ~Thread(w)
    BY <1>0, ThreadStep
  <2> QED
    BY <2>1, Zenon DEF Next, Open, OpenRead, OpenRefused, EditInstall, EditSettles, EditDraft, EditDraftFails,
       EditRetain, EditUndo, TimerFires, Call, GuestChanges, Crash, vars
<1>2. sess'[cur'].buf = IF draft # None THEN draft.text ELSE opening
  BY <1>0, <1>1, OpenEffect DEF OpenedState, NoSession
<1>3. acked \notin overruled /\ opening # None
  BY <1>1 DEF OpenInstall, Promised
<1> QED
  BY <1>2, <1>3 DEF DurableInv, DataInv, RowIsAcked, OpeningKept

(* The buffer that open_note installs is the text last acknowledged in any   *)
(* earlier session of the Note, unless another program replaced that text    *)
(* in the file.                                                              *)
THEOREM OpenHandsBack == ASSUME Orderly PROVE Spec => OpenRecovers
BY DurableHolds, OpenRecoversStep, PTL DEF OpenRecovers, Spec

(* Only a flush or a close clears a row there, and the file has its text.    *)
LEMMA ClearStep == DurableInv /\ DurableInv' /\ [Next]_vars =>
    [(\E w \in Threads : wr[w].pc \in {"clear", "unstage"} /\ wr'[w] # wr[w])
          /\ draft # None /\ draft' = None /\ draft.text \in Promised
       => disk \in Promised \/ overruled \cap Promised # {}]_vars
<1> SUFFICES ASSUME DurableInv, DurableInv', [Next]_vars, draft # None, draft' = None,
                    NEW w \in Threads, wr[w].pc \in {"clear", "unstage"}, wr'[w] # wr[w]
             PROVE  disk \in Promised \/ overruled \cap Promised # {}
  OBVIOUS
<1>0. TypeInv
  BY DEF DurableInv, CoreInv
<1>1. wr[w].pc # "rest" /\ wr' # wr
  OBVIOUS
<1>2. ~Open /\ ~EditSettles /\ ~UNCHANGED vars /\ ~Crash
  BY <1>1 DEF Open, OpenRead, OpenRefused, OpenInstall, EditSettles, EditDraft, EditDraftFails, EditRetain,
     EditUndo, Acknowledge, vars, Crash, store
<1>3. ~(\E text \in Texts : EditInstall(text)) /\ ~(\E file \in Files : GuestChanges(file))
  BY <1>1, Zenon DEF EditInstall, GuestChanges
<1>4. ~\E s \in Sessions : TimerFires(s)
  BY <1>0, <1>1, TimerEffect DEF Others
<1>5. ~\E v \in Workers, call \in {"flush", "reload", "close"} : Call(v, call)
  BY <1>0, <1>1, CallEffect DEF Others
<1>6. PICK v \in Threads : Thread(v)
  BY <1>2, <1>3, <1>4, <1>5 DEF Next
<1>7. v = w
  BY <1>0, <1>6, ThreadStep DEF Rests, Becomes, Others
<1>8. FlushClear(w) \/ CloseClear(w)
  BY <1>6, <1>7, Zenon DEF Thread, Flush, Reload, Close, FlushSnapshot, FlushClosed, FlushCheck, FlushWrite, FlushRecord,
     FlushSettle, FlushFails, ReloadRead, ReloadDiscard, ReloadFails, ReloadInstall,
     CloseBegin, CloseCommit, CloseCommitFails, CloseRetire, CloseRemove, store
<1>9. UNCHANGED <<disk, acked, overruled, ed>>
  BY <1>8 DEF FlushClear, CloseClear, history
<1>10. Promised' = Promised /\ acked' # None
  BY <1>0, <1>9, NothingIsSomething
     DEF Promised, DurableInv, DataInv, RowIsAcked, TypeInv, TypeOK, DraftRow
<1> QED
  BY <1>9, <1>10 DEF DurableInv, DataInv, FileIsPromised, Overruled

(* No deletion of a draft row by a flush or a close removes promised text    *)
(* that the file does not hold: the sequence bound of clear_draft_through    *)
(* is right although the row was staged, the file written and the row        *)
(* deleted at three moments.                                                 *)
THEOREM ClearsKeepNewerWork == ASSUME Orderly PROVE Spec => ClearKeepsNewerWork
<1>1. DurableInv /\ [Next]_vars => DurableInv'
  BY DurableNext
<1> QED
  BY <1>1, DurableHolds, ClearStep, PTL DEF ClearKeepsNewerWork, Spec

-----------------------------------------------------------------------------
(* While no guest changes the file.                                          *)

(* No guest has been at the file.                                            *)
Untouched == ~foreign /\ overruled = {} /\ guests = 0

(* A reload has the text that is in the file.                                *)
ReloadsDisk == \A w \in Threads : wr[w].pc \in {"discard", "install"} => disk = wr[w].text

(* The steps of a flush that has not written yet.                            *)
Unwritten == {"check", "write"}

(* A flush of a text with no row of its own rewrites what the file has.      *)
Rewrites ==
    \A w \in Threads :
        /\ wr[w].pc \in Unwritten /\ wr[w].seq = AckedSeq(wr[w].s)
        /\ draft = None \/ \E v \in Threads : wr[v].pc \in Covering /\ wr[v].seq = wr[w].seq
        => disk = acked

OwnInv == Untouched /\ ReloadsDisk /\ Rewrites

LEMMA OwnInit == Init => OwnInv
BY IdleTypes DEF Init, OwnInv, Untouched, ReloadsDisk, Rewrites, Unwritten

LEMMA UntouchedNext == MaxGuest = 0 /\ CoreInv /\ Untouched /\ [Next]_vars => Untouched'
<1> SUFFICES ASSUME MaxGuest = 0, Untouched, [Next]_vars PROVE Untouched'
  OBVIOUS
<1> USE DEF Untouched, history, bounds
<1>0. ASSUME NEW text, foreign' = (foreign /\ disk # text) PROVE foreign' = FALSE
  BY <1>0
<1>1. CASE Open
  <2>1. CASE OpenInstall
    <3>1. foreign' = FALSE /\ guests' = guests
      BY <1>0, <2>1 DEF OpenInstall
    <3>2. overruled' = IF foreign' /\ draft = None THEN {opening} ELSE {}
      BY <2>1 DEF OpenInstall
    <3> QED
      BY <3>1, <3>2
  <2> QED
    BY <1>1, <2>1 DEF Open, OpenRead, OpenRefused
<1>2. CASE \E text \in Texts : EditInstall(text)
  BY <1>2 DEF EditInstall
<1>3. CASE EditSettles
  BY <1>3 DEF EditSettles, EditDraft, EditDraftFails, EditRetain, EditUndo
<1>4. CASE \E s \in Sessions : TimerFires(s)
  BY <1>4 DEF TimerFires
<1>5. CASE \E w \in Workers, call \in {"flush", "reload", "close"} : Call(w, call)
  BY <1>5 DEF Call
<1>6. CASE \E w \in Threads : Thread(w)
  <2>1. PICK w \in Threads : Thread(w)
    BY <1>6
  <2>2. CASE Flush(w)
    <3>1. CASE FlushWrite(w)
      BY <3>1 DEF FlushWrite
    <3>2. CASE FlushSnapshot(w) \/ FlushClosed(w) \/ FlushCheck(w)
      BY <3>2 DEF FlushSnapshot, FlushClosed, FlushCheck
    <3>3. CASE FlushRecord(w) \/ FlushClear(w)
      BY <3>3 DEF FlushRecord, FlushClear
    <3>4. CASE FlushSettle(w) \/ FlushFails(w)
      BY <3>4 DEF FlushSettle, FlushFails
    <3> QED
      BY <2>2, <3>1, <3>2, <3>3, <3>4 DEF Flush
  <2>3. CASE Reload(w)
    <3>1. CASE ReloadDiscard(w)
      <4>1. foreign' = FALSE /\ guests' = guests
        BY <1>0, <3>1 DEF ReloadDiscard
      <4>2. overruled' = IF foreign' THEN {wr[w].text} ELSE {}
        BY <3>1 DEF ReloadDiscard
      <4> QED
        BY <4>1, <4>2
    <3>2. ASSUME UNCHANGED <<foreign, overruled, bounds>> PROVE Untouched'
      BY <3>2
    <3>3. CASE ReloadRead(w) \/ ReloadFails(w)
      <4>1. UNCHANGED <<history, bounds>>
        BY <3>3 DEF ReloadRead, ReloadFails
      <4> QED
        BY <3>2, <4>1
    <3>4. CASE ReloadInstall(w)
      <4>1. UNCHANGED <<foreign, overruled, bounds>>
        BY <3>4 DEF ReloadInstall
      <4> QED
        BY <3>2, <4>1
    <3> QED
      BY <2>3, <3>1, <3>3, <3>4 DEF Reload
  <2>4. CASE Close(w)
    BY <2>4 DEF Close, CloseBegin, CloseCommit, CloseCommitFails, CloseClear, CloseRetire, CloseRemove
  <2> QED
    BY <2>1, <2>2, <2>3, <2>4 DEF Thread
<1>7. CASE \E file \in Files : GuestChanges(file)
  BY <1>7 DEF GuestChanges
<1>8. CASE Crash
  BY <1>8 DEF Crash
<1>9. CASE UNCHANGED vars
  BY <1>9 DEF vars
<1> QED
  BY <1>1, <1>2, <1>3, <1>4, <1>5, <1>6, <1>7, <1>8, <1>9 DEF Next

(* Nobody starts a comparison or a commit. *)
LEMMA RewritesKept ==
    ASSUME TypeInv, Rewrites, UNCHANGED <<disk, draft, acked, ed>>,
           \A s \in Sessions : sess'[s].seq = sess[s].seq,
           \A v \in Threads :
              /\ wr'[v].pc \in Unwritten =>
                    wr[v].pc \in Unwritten /\ wr'[v].seq = wr[v].seq /\ wr'[v].s = wr[v].s
              /\ wr'[v].pc \in Covering => wr[v].pc \in Covering /\ wr'[v].seq = wr[v].seq
    PROVE  Rewrites'
<1>1. \A s \in Sessions : UNCHANGED AckedSeq(s)
  BY DEF AckedSeq
<1> SUFFICES ASSUME NEW w \in Threads, wr'[w].pc \in Unwritten, (wr[w].seq = AckedSeq(wr[w].s))',
                    draft = None \/ \E v \in Threads : wr'[v].pc \in Covering /\ wr'[v].seq = wr'[w].seq
             PROVE  disk = acked
  BY DEF Rewrites
<1>2. wr[w].pc \in Unwritten /\ wr'[w].seq = wr[w].seq /\ wr'[w].s = wr[w].s
  OBVIOUS
<1>3. wr[w].s \in Sessions
  BY <1>2, AtWork DEF Unwritten
<1>4. wr[w].seq = AckedSeq(wr[w].s)
  BY <1>1, <1>2, <1>3 DEF AckedSeq
<1> QED
  BY <1>2, <1>4 DEF Rewrites

LEMMA NoRewrite ==
    ASSUME \A v \in Threads : wr'[v].pc \notin Unwritten PROVE Rewrites'
BY DEF Rewrites

(* The step of a thread that held the write lock and does not go on to write. *)
LEMMA HolderLeaves ==
    ASSUME CoreInv, CallInv, NEW w \in Threads, Others(w), wr[w].pc \in Holding,
           wr'[w].pc \notin Unwritten
    PROVE  Rewrites'
<1>1. \A v \in Threads \ {w} : wr[v].pc \notin Unwritten
  BY HoldsAlone DEF Holding, Unwritten
<1> QED
  BY <1>1, NoRewrite DEF Others

(* Every step of a flush, a reload or a close.                               *)
LEMMA RewritesThread ==
    \A w \in Threads : DurableInv /\ OwnInv /\ Thread(w) => Rewrites'
<1> SUFFICES ASSUME NEW w \in Threads, CoreInv, CallInv, OneClose, DataInv, Untouched, Rewrites, Thread(w)
             PROVE  Rewrites'
  BY DEF DurableInv, OwnInv
<1>0. TypeInv /\ EditInStep
  BY DEF CoreInv, SequencesInStep
<1>1. Others(w) /\ UNCHANGED <<opening, ed>> /\ \A s \in Sessions : sess'[s].seq = sess[s].seq
  BY <1>0, ThreadStep, SessionStep DEF Rests, Becomes
<1>2. ASSUME wr'[w].pc \notin Unwritten \cup Covering, UNCHANGED <<disk, draft, acked>>
      PROVE  Rewrites'
  BY <1>0, <1>1, <1>2, RewritesKept DEF Others
<1>3. CASE FlushSnapshot(w)
  <2>1. UNCHANGED <<disk, draft, acked, sess>> /\ ~sess[wr[w].s].closed /\ wr[w].pc = "flush"
        /\ wlock[wr[w].s] = None /\ wr[w].s \in Sessions /\ cur = wr[w].s
    BY <1>0, <1>3, AtWork DEF FlushSnapshot, store, history, CallInv, OneSession
  <2>2. wr'[w].pc = "check" /\ wr'[w].seq = sess[wr[w].s].seq /\ wr'[w].s = wr[w].s
    BY <1>0, <1>3, SnapshotEffect DEF Becomes
  <2> SUFFICES ASSUME NEW v \in Threads, wr'[v].pc \in Unwritten, (wr[v].seq = AckedSeq(wr[v].s))',
                      draft = None \/ \E u \in Threads : wr'[u].pc \in Covering /\ wr'[u].seq = wr'[v].seq
               PROVE  disk = acked
    BY <2>1 DEF Rewrites
  <2>3. draft = None \/ \E u \in Threads : wr[u].pc \in Covering /\ wr[u].seq = wr'[v].seq
    BY <1>1, <2>2 DEF Others, Covering
  <2>4. CASE v # w
    <3>1. wr'[v] = wr[v] /\ wr[v].seq = AckedSeq(wr[v].s)
      BY <1>1, <2>1, <2>4 DEF Others, AckedSeq
    <3> QED
      BY <2>3, <3>1 DEF Rewrites
  <2>5. CASE v = w
    <3>1. ed.pc # "idle" => sess[cur].seq = ed.seq /\ ed.seq = ed.prev.seq + 1
      BY <1>0, <2>1, NothingIsSomething DEF EditInStep
    <3>2. ed.pc = "idle"
      BY <1>0, <1>1, <2>1, <2>2, <2>5, <3>1, Numbers DEF AckedSeq
    <3>3. Promised = {acked} /\ ~Overruled /\ AckedSeq(cur) = sess[cur].seq
      BY <3>2 DEF Promised, Overruled, Untouched, AckedSeq
    <3>4. CASE \E u \in Threads : wr[u].pc \in Covering /\ wr[u].seq = wr'[v].seq
      <4>1. PICK u \in Threads : wr[u].pc \in Covering /\ wr[u].seq = wr'[v].seq
        BY <3>4
      <4>2. wr[u].s = cur
        BY <2>1, <4>1, EngagedFor, NothingIsSomething DEF Engaged
      <4> QED
        BY <2>1, <2>2, <2>5, <3>3, <4>1, <4>2 DEF DataInv, ThreadsKeep, Covers
    <3>5. CASE draft = None
      <4>1. tier1[cur] = None
        <5>1. LocksHeld /\ TierOneHeld
          BY DEF CoreInv, LockInv
        <5> QED
          BY <1>0, <2>1, <5>1, NothingIsSomething DEF TierOneHeld, LocksHeld, Holding, TypeInv, TypeOK
      <4>2. sess[cur].buf = acked
        BY <2>1, <3>2, <4>1, NothingIsSomething DEF DataInv, BufferIsPromised
      <4>3. acked # None
        BY <1>0, <2>1, <4>2, NothingIsSomething DEF TypeInv, TypeOK, SessionState
      <4> QED
        BY <3>3, <3>5, <4>3 DEF DataInv, FileIsPromised
    <3> QED
      BY <2>3, <3>4, <3>5
  <2> QED
    BY <2>4, <2>5
<1>4. CASE FlushClosed(w)
  <2>1. wr'[w].pc = "rest"
    BY <1>0, <1>4, AtWork, ClosedEffect, IdleTypes DEF FlushClosed, OneClose, Rests
  <2> QED
    BY <1>2, <1>4, <2>1 DEF FlushClosed, store, history, Unwritten, Covering
<1>5. CASE FlushCheck(w)
  <2>1. Becomes(w, "write") /\ KeepsWork(w) /\ UNCHANGED <<disk, draft, acked>> /\ wr[w].pc = "check"
    BY <1>0, <1>5, GotoBecomes DEF FlushCheck, store, history
  <2> QED
    BY <1>0, <1>1, <2>1, RewritesKept DEF Becomes, KeepsWork, Others, Unwritten, Covering
<1>6. CASE FlushWrite(w) \/ FlushRecord(w) \/ FlushClear(w)
  BY <1>0, <1>1, <1>6, GotoBecomes, HolderLeaves
     DEF FlushWrite, FlushRecord, FlushClear, Becomes, Holding, Unwritten
<1>7. CASE FlushSettle(w)
  <2>1. wr[w].pc = "index" /\ wr'[w].pc \in {"rest", "commit"}
    BY <1>0, <1>7, SettleEffect, IdleTypes, Zenon DEF FlushSettle, Rests, Becomes
  <2> QED
    BY <1>1, <2>1, HolderLeaves DEF Holding, Unwritten
<1>8. CASE FlushFails(w)
  <2>1. wr[w].pc \in {"check", "write", "clear", "index"} /\ wr'[w].pc \in {"rest", "retire"}
    BY <1>0, <1>8, FailsEffect, IdleTypes DEF Rests, Becomes
  <2> QED
    BY <1>1, <2>1, HolderLeaves DEF Holding, Unwritten
<1>9. CASE ReloadRead(w)
  <2>1. wr'[w].pc \in {"rest", "discard"}
    BY <1>0, <1>9, ReadEffect, IdleTypes DEF Rests, Becomes
  <2> QED
    BY <1>2, <1>9, <2>1 DEF ReloadRead, store, history, Unwritten, Covering
<1>10. CASE ReloadDiscard(w)
  BY <1>0, <1>1, <1>10, GotoBecomes, HolderLeaves DEF ReloadDiscard, Becomes, Holding, Unwritten
<1>11. CASE ReloadFails(w)
  <2>1. wr'[w].pc = "rest"
    BY <1>0, <1>11, RestRests, IdleTypes DEF ReloadFails, Rests
  <2> QED
    BY <1>2, <1>11, <2>1 DEF ReloadFails, store, history, Unwritten, Covering
<1>12. CASE ReloadInstall(w)
  <2>1. wr[w].pc = "install" /\ wr'[w].pc = "rest"
    BY <1>0, <1>12, InstallEffect, IdleTypes, Zenon DEF ReloadInstall, Rests
  <2> QED
    BY <1>1, <2>1, HolderLeaves DEF Holding, Unwritten
<1>13. CASE CloseBegin(w)
  <2>1. wr'[w].pc \in {"flush", "retire"}
    BY <1>0, <1>13, BeginEffect DEF Becomes
  <2> QED
    BY <1>2, <1>13, <2>1 DEF CloseBegin, store, history, Unwritten, Covering
<1>14. CASE CloseCommit(w) \/ CloseCommitFails(w)
  <2>1. Becomes(w, "unstage") /\ KeepsWork(w) /\ UNCHANGED <<disk, draft, acked>> /\ wr[w].pc = "commit"
    BY <1>0, <1>14, GotoBecomes DEF CloseCommit, CloseCommitFails, store, history
  <2> QED
    BY <1>0, <1>1, <2>1, RewritesKept DEF Becomes, KeepsWork, Others, Unwritten, Covering
<1>15. CASE CloseClear(w)
  <2>1. /\ UNCHANGED <<disk, acked, sess>> /\ wr[w].pc = "unstage"
        /\ draft' = draft \/ (draft' = None /\ draft.seq <= wr[w].seq)
    BY <1>15 DEF CloseClear, ClearThrough, history
  <2>2. wr'[w].pc = "retire"
    BY <1>0, <1>15, GotoBecomes DEF CloseClear, Becomes
  <2> SUFFICES ASSUME NEW v \in Threads, wr'[v].pc \in Unwritten, (wr[v].seq = AckedSeq(wr[v].s))',
                      draft' = None \/ \E u \in Threads : wr'[u].pc \in Covering /\ wr'[u].seq = wr'[v].seq
               PROVE  disk = acked
    BY <2>1 DEF Rewrites
  <2>3. v # w /\ wr'[v] = wr[v] /\ wr[v].seq = AckedSeq(wr[v].s) /\ wr[v].pc \in Unwritten
    BY <1>1, <2>1, <2>2 DEF Others, AckedSeq, Unwritten
  <2>4. CASE \E u \in Threads : wr'[u].pc \in Covering /\ wr'[u].seq = wr'[v].seq
    <3>1. \E u \in Threads : wr[u].pc \in Covering /\ wr[u].seq = wr[v].seq
      BY <1>1, <2>2, <2>3, <2>4 DEF Others, Covering
    <3> QED
      BY <2>3, <3>1 DEF Rewrites
  <2>5. CASE draft' = None
    <3>1. CASE draft = None
      BY <2>3, <3>1 DEF Rewrites
    <3>2. CASE draft # None
      <4>1. draft.seq <= wr[w].seq /\ wr[w].seq <= wr[v].seq /\ wr[v].s = wr[w].s /\ wr[v].s \in Sessions
        BY <2>1, <2>3, <2>5, <3>2, EngagedFor
           DEF DataInv, CoverIsBehind, Covering, Writing, Unwritten, Engaged, Holding
      <4>2. wr[w].seq \in Nat /\ wr[v].seq \in Nat /\ draft.seq \in Nat
        BY <1>0, <3>2, Numbers
      <4>3. ~(wr[w].seq < AckedSeq(wr[w].s))
        BY <2>1, <3>2, <4>1, <4>2 DEF DataInv, ThreadsKeep, Covers, Covering
      <4>4. wr[w].seq = wr[v].seq
        BY <2>3, <4>1, <4>2, <4>3
      <4> QED
        BY <2>1, <2>3, <4>4 DEF Rewrites, Covering
    <3> QED
      BY <3>1, <3>2
  <2> QED
    BY <2>4, <2>5
<1>16. CASE CloseRetire(w)
  <2>1. wr'[w].pc = "remove"
    BY <1>0, <1>16, RetireEffect, Zenon DEF Becomes
  <2> QED
    BY <1>2, <1>16, <2>1 DEF CloseRetire, store, history, Unwritten, Covering
<1>17. CASE CloseRemove(w)
  <2>1. wr'[w].pc = "rest"
    BY <1>0, <1>17, RestRests, IdleTypes DEF CloseRemove, Rests
  <2> QED
    BY <1>2, <1>17, <2>1 DEF CloseRemove, store, history, Unwritten, Covering
<1> QED
  BY <1>3, <1>4, <1>5, <1>6, <1>7, <1>8, <1>9, <1>10, <1>11, <1>12, <1>13, <1>14, <1>15, <1>16, <1>17
     DEF Thread, Flush, Reload, Close

LEMMA ReloadsThread == \A w \in Threads : DurableInv /\ OwnInv /\ Thread(w) => ReloadsDisk'
<1> SUFFICES ASSUME NEW w \in Threads, CoreInv, CallInv, DataInv, Untouched, ReloadsDisk, Thread(w)
             PROVE  ReloadsDisk'
  BY DEF DurableInv, OwnInv
<1>0. TypeInv
  BY DEF CoreInv
<1>1. Others(w)
  BY <1>0, ThreadStep DEF Rests, Becomes
<1>2. CASE FlushWrite(w)
  <2>1. wr[w].pc = "write" /\ wr'[w].pc = "record"
    BY <1>0, <1>2, GotoBecomes DEF FlushWrite, Becomes
  <2>2. \A v \in Threads \ {w} : wr[v].pc \notin Holding
    BY <2>1, HoldsAlone DEF Holding
  <2> QED
    BY <1>1, <2>1, <2>2 DEF ReloadsDisk, Others, Holding
<1>3. CASE ReloadRead(w)
  BY <1>0, <1>1, <1>3, ReadEffect, IdleTypes DEF ReloadRead, store, ReloadsDisk, Others, Rests, Becomes
<1>4. CASE ReloadDiscard(w)
  <2>1. wr[w].pc = "discard" /\ wr'[w].text = wr[w].text /\ disk' = disk
    BY <1>0, <1>4, GotoBecomes DEF ReloadDiscard, KeepsWork
  <2> QED
    BY <1>1, <2>1 DEF ReloadsDisk, Others
<1>5. CASE ~FlushWrite(w) /\ ~ReloadRead(w) /\ ~ReloadDiscard(w)
  <2>1. disk' = disk
    BY <1>5, Zenon DEF Thread, Flush, Reload, Close, FlushSnapshot, FlushClosed, FlushCheck, FlushRecord, FlushClear,
       FlushSettle, FlushFails, ReloadFails, ReloadInstall,
       CloseBegin, CloseCommit, CloseCommitFails, CloseClear, CloseRetire, CloseRemove, store
  <2>2. wr'[w].pc \notin {"discard", "install"}
    <3>1. FlushSnapshot(w) \/ FlushClosed(w) \/ FlushSettle(w) \/ FlushFails(w) \/ ReloadInstall(w)
          => wr'[w].pc \notin {"discard", "install"}
      BY <1>0, SnapshotEffect, ClosedEffect, SettleEffect, FailsEffect, InstallEffect, IdleTypes, Zenon
         DEF Rests, Becomes
    <3>2. CloseBegin(w) \/ CloseRetire(w) => wr'[w].pc \notin {"discard", "install"}
      BY <1>0, BeginEffect, RetireEffect, Zenon DEF Becomes
    <3>3. FlushCheck(w) \/ FlushRecord(w) \/ FlushClear(w) \/ ReloadFails(w)
          \/ CloseCommit(w) \/ CloseCommitFails(w) \/ CloseClear(w) \/ CloseRemove(w)
          => wr'[w].pc \notin {"discard", "install"}
      BY <1>0, GotoBecomes, RestRests, IdleTypes
         DEF Rests, Becomes, FlushCheck, FlushRecord, FlushClear, ReloadFails, CloseCommit,
             CloseCommitFails, CloseClear, CloseRemove
    <3> QED
      BY <1>5, <3>1, <3>2, <3>3 DEF Thread, Flush, Reload, Close
  <2> QED
    BY <1>1, <2>1, <2>2 DEF ReloadsDisk, Others
<1> QED
  BY <1>2, <1>3, <1>4, <1>5

LEMMA OwnNext == Orderly /\ MaxGuest = 0 /\ DurableInv /\ OwnInv /\ [Next]_vars => OwnInv'
<1> SUFFICES ASSUME Orderly, MaxGuest = 0, DurableInv, OwnInv, [Next]_vars
             PROVE  ReloadsDisk' /\ Rewrites'
  BY UntouchedNext DEF OwnInv, DurableInv
<1>0. /\ TypeInv /\ EditInStep /\ CoreInv /\ CallInv /\ DataInv
      /\ Untouched /\ ReloadsDisk /\ Rewrites
  BY DEF DurableInv, OwnInv, CoreInv, SequencesInStep
<1>1. ASSUME UNCHANGED <<disk, draft, acked, ed, sess>>, NEW v \in Threads, Others(v),
             wr'[v].pc \notin Unwritten \cup Covering \cup {"discard", "install"}
      PROVE  ReloadsDisk' /\ Rewrites'
  BY <1>0, <1>1, RewritesKept DEF ReloadsDisk, Others
<1>2. ASSUME UNCHANGED <<disk, draft, acked, ed, sess, wr>> PROVE ReloadsDisk' /\ Rewrites'
  BY <1>0, <1>2, RewritesKept DEF ReloadsDisk
<1>3. CASE OpenRead \/ OpenRefused \/ UNCHANGED vars
  BY <1>2, <1>3 DEF OpenRead, OpenRefused, store, history, vars
<1>4. CASE OpenInstall
  <2>1. \A w \in Threads : wr[w].pc \notin Engaged
    BY <1>0, <1>4, EngagedFor DEF OpenInstall
  <2> QED
    BY <1>4, <2>1 DEF OpenInstall, ReloadsDisk, Rewrites, Unwritten, Engaged, Holding
<1>5. CASE \E text \in Texts : EditInstall(text)
  <2>1. PICK text \in Texts : EditInstall(text)
    BY <1>5
  <2>2. UNCHANGED <<disk, draft, acked, cur, wr>> /\ ed.pc = "idle"
    BY <2>1 DEF EditInstall, store
  <2>3. cur \in Sessions /\ ed'.pc = "draft" /\ ed'.prev.seq = sess[cur].seq
    BY <1>0, <2>1, EditEffect, Zenon
  <2>4. \A w \in Threads : wr[w].pc \in Unwritten => wr[w].s = cur
    BY <1>0, <2>3, EngagedFor, NothingIsSomething DEF Unwritten, Engaged, Holding
  <2>5. \A w \in Threads : wr[w].pc \in Unwritten => AckedSeq(wr[w].s)' = AckedSeq(wr[w].s)
    BY <2>2, <2>3, <2>4 DEF AckedSeq
  <2> QED
    BY <1>0, <2>2, <2>5 DEF ReloadsDisk, Rewrites
<1>6. CASE EditDraft
  <2>1. /\ UNCHANGED <<disk, sess, wr>> /\ ed.pc = "draft" /\ ed'.pc = "idle"
        /\ acked' = ed.text /\ draft' = WriteDraft(ed.seq, ed.text)
    BY <1>6, IdleTypes DEF EditDraft, Acknowledge
  <2>2. draft' # None
    BY <1>0, <2>1, NoRowAssumption, Numbers DEF EditInStep, WriteDraft, Row, TypeInv, TypeOK, EditorState
  <2> SUFFICES ASSUME NEW w \in Threads, wr[w].pc \in Unwritten, wr[w].seq = sess[wr[w].s].seq,
                      NEW v \in Threads, wr[v].pc \in Covering, wr[v].seq = wr[w].seq
               PROVE  disk = ed.text
    BY <1>0, <2>1, <2>2 DEF ReloadsDisk, Rewrites, AckedSeq
  <2>3. wr[w].s = ed.s /\ sess[wr[w].s].seq = ed.seq /\ ed.seq = ed.prev.seq + 1 /\ wr[v].s = wr[w].s
    BY <1>0, <2>1, EngagedFor DEF Unwritten, Engaged, Holding
  <2>4. wr[v].seq > AckedSeq(wr[v].s)
    BY <1>0, <2>1, <2>3, Numbers DEF AckedSeq
  <2>5. Held(ed.text)
    BY <1>0, <2>4 DEF DataInv, ThreadsKeep, Covers
  <2> QED
    BY <1>0, <2>5 DEF Held, Untouched
<1>7. CASE EditDraftFails \/ EditRetain \/ EditUndo
  BY <1>0, <1>7 DEF EditDraftFails, EditRetain, EditUndo, Orderly, DataInv
<1>8. CASE \E s \in Sessions : TimerFires(s)
  <2>1. PICK s \in Sessions : TimerFires(s)
    BY <1>8
  <2>2. UNCHANGED <<disk, draft, acked, ed, sess>>
    BY <2>1 DEF TimerFires, store, history
  <2>3. Others(s) /\ s \in Threads /\ wr'[s].pc = "flush"
    BY <1>0, <2>1, TimerEffect
  <2> QED
    BY <1>1, <2>2, <2>3 DEF Unwritten, Covering
<1>9. CASE \E w \in Workers, call \in {"flush", "reload", "close"} : Call(w, call)
  <2>1. PICK w \in Workers, call \in {"flush", "reload", "close"} : Call(w, call)
    BY <1>9
  <2>2. UNCHANGED <<disk, draft, acked, ed, sess>>
    BY <2>1 DEF Call, store, history
  <2>3. Others(w) /\ w \in Threads /\ wr'[w].pc = call /\ call \in {"flush", "reload", "close"}
    BY <1>0, <2>1, CallEffect
  <2> HIDE <2>1
  <2> QED
    BY <1>1, <2>2, <2>3 DEF Unwritten, Covering
<1>10. CASE \E w \in Threads : Thread(w)
  BY <1>10, RewritesThread, ReloadsThread
<1>11. CASE \E file \in Files : GuestChanges(file)
  BY <1>0, <1>11 DEF GuestChanges, Untouched
<1>12. CASE Crash
  BY <1>12, IdleTypes DEF Crash, ReloadsDisk, Rewrites, Unwritten
<1> QED
  BY <1>3, <1>4, <1>5, <1>6, <1>7, <1>8, <1>9, <1>10, <1>11, <1>12 DEF Next, Open, EditSettles

(* While no other program changes the file, a flush whose row is gone        *)
(* rewrites the text that the file already has, and a reload has read what   *)
(* is there still.                                                           *)
THEOREM OwnHolds == ASSUME Orderly, MaxGuest = 0 PROVE Spec => []OwnInv
<1>1. DurableInv /\ OwnInv /\ [Next]_vars => OwnInv'
  BY OwnNext
<1> QED
  BY <1>1, DurableHolds, OwnInit, PTL DEF Spec

-----------------------------------------------------------------------------
(* The refinement of DurableNote, one abstract step for each action.         *)

(* What the refinement needs of a state.                                     *)
Promising == DurableInv /\ OwnInv /\ ShownInv

PromiseStep == Durable!Next \/ UNCHANGED Durable!vars

(* A reload may discard the row.                                             *)
Discarding == \E w \in Threads : wr[w].pc = "discard"

(* The texts of rows and mutations are texts.                                *)
LEMMA Rows ==
    ASSUME TypeInv
    PROVE  /\ draft # None => draft.text \in Texts /\ draft.text # None
           /\ ed.text \in Texts /\ ed.text # None
BY NothingIsSomething DEF TypeInv, TypeOK, DraftRow, EditorState

LEMMA PromiseInit == Init => Durable!Init
BY IdleTypes DEF Init, Durable!Init

(* A step that leaves the files, the row, the mutation and the promise alone. *)
LEMMA PromiseRests ==
    ASSUME UNCHANGED <<disk, draft, head, ed, acked, known>>, Discarding' = Discarding
    PROVE  PromiseStep
BY DEF PromiseStep, Durable!vars, Discarding

(* Another thread's reload goes on as before.                                *)
LEMMA DiscardingKept ==
    ASSUME NEW w \in Threads, Others(w), wr[w].pc # "discard", wr'[w].pc # "discard"
    PROVE  Discarding' = Discarding
<1>1. \A v \in Threads : wr'[v].pc = "discard" <=> wr[v].pc = "discard"
  BY DEF Others
<1> QED
  BY <1>1 DEF Discarding

(* Only one reload may discard.                                              *)
LEMMA DiscardingEnds ==
    ASSUME CoreInv, CallInv, NEW w \in Threads, Others(w), wr[w].pc = "discard", wr'[w].pc # "discard"
    PROVE  ~Discarding'
<1>1. \A v \in Threads : wr[v].pc = "discard" => v = w
  BY HoldsAlone DEF Holding
<1> QED
  BY <1>1 DEF Discarding, Others

(* Open.                                                                     *)
LEMMA PromiseOpen == Promising /\ Open => PromiseStep
<1> SUFFICES ASSUME Promising, Open PROVE PromiseStep
  OBVIOUS
<1>0. TypeInv /\ OpenAlone /\ OpeningKept /\ Untouched
  BY DEF Promising, DurableInv, CoreInv, SequencesInStep, DataInv, OwnInv
<1>1. CASE OpenRead \/ OpenRefused
  <2>1. UNCHANGED <<disk, draft, head, ed, acked, known, wr>>
    BY <1>1 DEF OpenRead, OpenRefused, store, history
  <2> QED
    BY <2>1, PromiseRests DEF Discarding
<1>2. CASE OpenInstall
  <2>1. /\ UNCHANGED <<disk, draft, head, ed, wr>> /\ ed.pc = "idle" /\ disk = opening
        /\ acked' = OpenedState.buf /\ known' = known \cup {OpenedState.buf}
    BY <1>0, <1>2, OpenEffect DEF OpenInstall, store, OpenAlone, OpeningKept, Untouched
  <2>2. OpenedState.buf = IF draft # None THEN draft.text ELSE disk
    BY <2>1 DEF OpenedState, NoSession
  <2>3. UNCHANGED Discarding
    BY <2>1 DEF Discarding
  <2>4. Durable!Open
    BY <1>0, <2>1, <2>2, <2>3, Rows DEF Durable!Open, Durable!Kept, Discarding
  <2> QED
    BY <2>4 DEF PromiseStep, Durable!Next
<1> QED
  BY <1>1, <1>2 DEF Open

(* Offer, Accept and Refuse.                                                 *)
LEMMA PromiseEdit ==
    Orderly /\ Promising /\ ((\E text \in Texts : EditInstall(text)) \/ EditSettles) => PromiseStep
<1> SUFFICES ASSUME Orderly, Promising, (\E text \in Texts : EditInstall(text)) \/ EditSettles
             PROVE  PromiseStep
  OBVIOUS
<1>0. TypeInv /\ EditInStep /\ DataInv
  BY DEF Promising, DurableInv, CoreInv, SequencesInStep
<1>1. CASE \E text \in Texts : EditInstall(text)
  <2>1. PICK text \in Texts : EditInstall(text)
    BY <1>1
  <2>2. /\ UNCHANGED <<disk, draft, head, wr, acked>> /\ ed.pc = "idle" /\ known' = known \cup {text}
        /\ ed'.pc = "draft" /\ ed'.text = text
    BY <1>0, <2>1, EditEffect, Zenon DEF EditInstall, store
  <2>3. Durable!Offer(text)
    BY <2>2 DEF Durable!Offer
  <2> QED
    BY <2>3 DEF PromiseStep, Durable!Next
<1>2. CASE EditDraft
  <2>1. /\ UNCHANGED <<disk, head, wr, known>> /\ ed.pc = "draft" /\ ed'.pc = "idle"
        /\ acked' = ed.text /\ draft' = WriteDraft(ed.seq, ed.text)
    BY <1>2, IdleTypes DEF EditDraft, Acknowledge
  <2>2. draft' = Row(ed.seq, ed.text) /\ draft' # None /\ draft'.text = ed.text
    BY <1>0, <2>1, NoRowAssumption, Numbers DEF EditInStep, WriteDraft, Row, TypeInv, TypeOK, EditorState
  <2>3. Durable!Accept
    BY <1>0, <2>1, <2>2, Rows DEF Durable!Accept, Durable!Kept
  <2> QED
    BY <2>3 DEF PromiseStep, Durable!Next
<1>3. CASE EditDraftFails \/ EditRetain \/ EditUndo
  BY <1>0, <1>3 DEF EditDraftFails, EditRetain, EditUndo, Orderly, DataInv
<1> QED
  BY <1>1, <1>2, <1>3 DEF EditSettles

(* A row goes only where the file, or the mutation in flight, has its text.  *)
LEMMA PromiseForget ==
    ASSUME TypeInv, DataInv, DataInv', Untouched', UNCHANGED <<disk, head, ed, acked, known>>,
           UNCHANGED Discarding, draft' = draft \/ draft' = None
    PROVE  PromiseStep
<1>1. CASE draft' = draft
  BY <1>1, PromiseRests
<1>2. CASE draft' = None /\ draft # None
  <2>1. draft.text = acked /\ acked # None /\ disk \in {acked} \cup (IF ed.pc = "idle" THEN {} ELSE {ed.text})
    BY <1>2, Rows DEF DataInv, RowIsAcked, FileIsPromised, Untouched, Overruled, Promised
  <2>2. Durable!Forget
    BY <1>2, <2>1 DEF Durable!Forget, Durable!Kept, Discarding
  <2> QED
    BY <2>2 DEF PromiseStep, Durable!Next
<1> QED
  BY <1>1, <1>2

(* Publish.                                                                  *)
LEMMA PromiseWrite ==
    \A w \in Threads : Promising /\ FlushWrite(w) => PromiseStep
<1> SUFFICES ASSUME NEW w \in Threads, Promising, FlushWrite(w) PROVE PromiseStep
  OBVIOUS
<1>0. TypeInv /\ DataInv /\ Rewrites /\ WritesShown
  BY DEF Promising, DurableInv, CoreInv, OwnInv, ShownInv
<1>1. /\ UNCHANGED <<draft, head, ed, acked, known>> /\ wr[w].pc = "write"
      /\ disk' = disk \/ disk' = wr[w].text
  BY DEF FlushWrite
<1>2. Others(w) /\ wr'[w].pc = "record"
  BY <1>0, GotoBecomes DEF FlushWrite, Becomes
<1>3. Discarding' = Discarding
  BY <1>1, <1>2, DiscardingKept
<1>4. CASE disk' = disk
  BY <1>1, <1>3, <1>4, PromiseRests
<1>5. CASE disk' = wr[w].text
  <2>1. wr[w].text \in known /\ wr[w].text \in Texts
    BY <1>0, <1>1 DEF WritesShown, Unrecorded, TypeInv, TypeOK, ThreadState
  <2>2. draft = None => wr[w].text = disk \/ (ed.pc # "idle" /\ wr[w].text = ed.text)
    <3> SUFFICES ASSUME draft = None PROVE wr[w].text = disk \/ (ed.pc # "idle" /\ wr[w].text = ed.text)
      OBVIOUS
    <3>1. wr[w].seq \in Nat /\ AckedSeq(wr[w].s) \in Nat
      BY <1>0, <1>1, AtWork, Numbers
    <3>2. CASE wr[w].seq = AckedSeq(wr[w].s)
      BY <1>0, <1>1, <3>2 DEF DataInv, ThreadsKeep, Writes, Writing, Rewrites, Unwritten
    <3>3. CASE wr[w].seq # AckedSeq(wr[w].s)
      BY <1>0, <1>1, <3>1, <3>3 DEF DataInv, ThreadsKeep, Writes, Writing
    <3> QED
      BY <3>2, <3>3
  <2>3. Durable!Publish(wr[w].text)
    BY <1>0, <1>1, <1>3, <1>5, <2>1, <2>2, Rows DEF Durable!Publish, Durable!Kept, Discarding
  <2> QED
    BY <2>1, <2>3 DEF PromiseStep, Durable!Next
<1> QED
  BY <1>1, <1>4, <1>5

(* Ask, Revert, GiveUp and Show.                                             *)
LEMMA PromiseReload ==
    \A w \in Threads : Promising /\ Reload(w) => PromiseStep
<1> SUFFICES ASSUME NEW w \in Threads, Promising, Reload(w) PROVE PromiseStep
  OBVIOUS
<1>0. TypeInv /\ CoreInv /\ CallInv /\ ReloadsDisk
  BY DEF Promising, DurableInv, CoreInv, OwnInv
<1>1. CASE ReloadRead(w)
  <2>1. UNCHANGED <<disk, draft, head, ed, acked, known>> /\ wr[w].pc = "reload"
    BY <1>1 DEF ReloadRead, store, history
  <2>2. Others(w)
    BY <1>0, <1>1, ReadEffect DEF Rests, Becomes
  <2>3. CASE wr'[w].pc = "discard"
    <3>1. Durable!Ask
      BY <2>1, <2>3 DEF Durable!Ask
    <3> QED
      BY <3>1 DEF PromiseStep, Durable!Next
  <2> QED
    BY <2>1, <2>2, <2>3, DiscardingKept, PromiseRests
<1>2. CASE ReloadDiscard(w)
  <2>1. /\ UNCHANGED <<disk, head, ed, known>> /\ wr[w].pc = "discard" /\ draft' = None
        /\ acked' = wr[w].text /\ disk = wr[w].text
    BY <1>0, <1>2 DEF ReloadDiscard, ReloadsDisk
  <2>2. Others(w) /\ wr'[w].pc = "install"
    BY <1>0, <1>2, GotoBecomes DEF ReloadDiscard, Becomes
  <2>3. Discarding /\ ~Discarding'
    BY <1>0, <2>1, <2>2, DiscardingEnds DEF Discarding
  <2>4. Durable!Revert
    BY <2>1, <2>3 DEF Durable!Revert, Discarding
  <2> QED
    BY <2>4 DEF PromiseStep, Durable!Next
<1>3. CASE ReloadFails(w)
  <2>1. UNCHANGED <<disk, draft, head, ed, acked, known>> /\ wr[w].pc \in {"reload", "discard"}
    BY <1>3 DEF ReloadFails, store, history
  <2>2. Others(w) /\ wr'[w].pc = "rest"
    BY <1>0, <1>3, RestRests, IdleTypes DEF ReloadFails, Rests
  <2>3. CASE wr[w].pc = "discard"
    <3>1. ~Discarding'
      BY <1>0, <2>2, <2>3, DiscardingEnds
    <3>2. Durable!GiveUp
      BY <2>1, <3>1 DEF Durable!GiveUp, Discarding
    <3> QED
      BY <3>2 DEF PromiseStep, Durable!Next
  <2> QED
    BY <2>1, <2>2, <2>3, DiscardingKept, PromiseRests
<1>4. CASE ReloadInstall(w)
  <2>1. /\ UNCHANGED <<disk, draft, head, ed, acked>> /\ wr[w].pc = "install"
        /\ known' = known \cup {disk}
    BY <1>0, <1>4, Zenon DEF ReloadInstall, ReloadsDisk, store
  <2>2. Others(w) /\ wr'[w].pc = "rest"
    BY <1>0, <1>4, InstallEffect, IdleTypes, Zenon DEF Rests
  <2>3. Discarding' = Discarding
    BY <2>1, <2>2, DiscardingKept
  <2>4. Durable!Show
    BY <2>1, <2>3 DEF Durable!Show, Discarding
  <2> QED
    BY <2>4 DEF PromiseStep, Durable!Next
<1> QED
  BY <1>1, <1>2, <1>3, <1>4 DEF Reload

(* The other steps of a flush.                                               *)
LEMMA PromiseFlush ==
    \A w \in Threads : Promising /\ Promising' /\ Flush(w) => PromiseStep
<1> SUFFICES ASSUME NEW w \in Threads, Promising, Promising', Flush(w) PROVE PromiseStep
  OBVIOUS
<1>0. TypeInv /\ DataInv /\ DataInv' /\ Untouched'
  BY DEF Promising, DurableInv, CoreInv, OwnInv
<1>1. CASE FlushWrite(w)
  BY <1>1, PromiseWrite
<1>2. CASE FlushClear(w)
  <2>1. /\ UNCHANGED <<disk, head, ed, acked, known>> /\ wr[w].pc = "clear"
        /\ draft' = draft \/ draft' = None
    BY <1>2 DEF FlushClear, ClearThrough, history
  <2>2. Others(w) /\ wr'[w].pc = "index"
    BY <1>0, <1>2, GotoBecomes DEF FlushClear, Becomes
  <2> QED
    BY <1>0, <2>1, <2>2, DiscardingKept, PromiseForget
<1>3. CASE FlushSnapshot(w) \/ FlushClosed(w) \/ FlushCheck(w) \/ FlushRecord(w) \/ FlushSettle(w) \/ FlushFails(w)
  <2>1. UNCHANGED <<disk, draft, head, ed, acked, known>> /\ wr[w].pc # "discard"
    BY <1>3 DEF FlushSnapshot, FlushClosed, FlushCheck, FlushRecord, FlushSettle, FlushFails, FlushError, store, history
  <2>2. Others(w) /\ wr'[w].pc # "discard"
    <3>1. CASE FlushSnapshot(w) \/ FlushCheck(w) \/ FlushRecord(w)
      BY <1>0, <3>1, SnapshotEffect, GotoBecomes DEF FlushCheck, FlushRecord, Becomes
    <3>2. CASE FlushClosed(w)
      BY <1>0, <3>2, ClosedEffect, IdleTypes DEF Rests, Becomes
    <3>3. CASE FlushSettle(w)
      BY <1>0, <3>3, SettleEffect, IdleTypes, Zenon DEF Rests, Becomes
    <3>4. CASE FlushFails(w)
      BY <1>0, <3>4, FailsEffect, IdleTypes DEF Rests, Becomes
    <3> QED
      BY <1>3, <3>1, <3>2, <3>3, <3>4
  <2> QED
    BY <2>1, <2>2, DiscardingKept, PromiseRests
<1> QED
  BY <1>1, <1>2, <1>3 DEF Flush

(* Record and Forget.                                                        *)
LEMMA PromiseClose ==
    \A w \in Threads : Promising /\ Promising' /\ Close(w) => PromiseStep
<1> SUFFICES ASSUME NEW w \in Threads, Promising, Promising', Close(w) PROVE PromiseStep
  OBVIOUS
<1>0. TypeInv /\ DataInv /\ DataInv' /\ Untouched'
  BY DEF Promising, DurableInv, CoreInv, OwnInv
<1>1. CASE CloseCommit(w)
  <2>1. /\ UNCHANGED <<disk, draft, ed, acked, known>> /\ wr[w].pc = "commit"
        /\ head' = head \/ head' = disk
    BY <1>1 DEF CloseCommit, history
  <2>2. Others(w) /\ wr'[w].pc = "unstage"
    BY <1>0, <1>1, GotoBecomes DEF CloseCommit, Becomes
  <2>3. Discarding' = Discarding
    BY <2>1, <2>2, DiscardingKept
  <2>4. CASE head' = disk
    <3>1. Durable!Record
      BY <2>1, <2>3, <2>4 DEF Durable!Record, Discarding
    <3> QED
      BY <3>1 DEF PromiseStep, Durable!Next
  <2> QED
    BY <2>1, <2>3, <2>4, PromiseRests
<1>2. CASE CloseClear(w)
  <2>1. /\ UNCHANGED <<disk, head, ed, acked, known>> /\ wr[w].pc = "unstage"
        /\ draft' = draft \/ draft' = None
    BY <1>2 DEF CloseClear, ClearThrough, history
  <2>2. Others(w) /\ wr'[w].pc = "retire"
    BY <1>0, <1>2, GotoBecomes DEF CloseClear, Becomes
  <2> QED
    BY <1>0, <2>1, <2>2, DiscardingKept, PromiseForget
<1>3. CASE CloseBegin(w) \/ CloseCommitFails(w) \/ CloseRetire(w) \/ CloseRemove(w)
  <2>1. UNCHANGED <<disk, draft, head, ed, acked, known>> /\ wr[w].pc # "discard"
    BY <1>3 DEF CloseBegin, CloseCommitFails, CloseRetire, CloseRemove, store, history
  <2>2. Others(w) /\ wr'[w].pc # "discard"
    <3>1. CASE CloseBegin(w)
      BY <1>0, <3>1, BeginEffect DEF Becomes
    <3>3. CASE CloseCommitFails(w)
      BY <1>0, <3>3, GotoBecomes DEF CloseCommitFails, Becomes
    <3>4. CASE CloseRetire(w)
      BY <1>0, <3>4, RetireEffect, Zenon DEF Becomes
    <3>2. CASE CloseRemove(w)
      BY <1>0, <3>2, RestRests, IdleTypes DEF CloseRemove, Rests
    <3> QED
      BY <1>3, <3>1, <3>2, <3>3, <3>4
  <2> QED
    BY <2>1, <2>2, DiscardingKept, PromiseRests
<1> QED
  BY <1>1, <1>2, <1>3 DEF Close

(* Kill.                                                                     *)
LEMMA PromiseKill == Promising /\ Crash => PromiseStep
<1> SUFFICES ASSUME Promising, Crash PROVE PromiseStep
  OBVIOUS
<1>0. TypeInv /\ RowIsAcked /\ FileIsPromised /\ Untouched
  BY DEF Promising, DurableInv, CoreInv, DataInv, OwnInv
<1>1. /\ UNCHANGED <<disk, draft, head, known>> /\ ed'.pc = "idle" /\ ~Discarding'
      /\ acked' = IF /\ ed.pc # "idle" /\ ed.text \in {disk} \cup overruled
                     /\ draft = None \/ (draft # None /\ draft.text # acked)
                  THEN ed.text ELSE acked
  BY IdleTypes DEF Crash, store, Discarding
<1>2. acked' = IF ed.pc # "idle" /\ ed.text = disk /\ draft = None THEN ed.text ELSE acked
  BY <1>0, <1>1 DEF Untouched, RowIsAcked
<1>3. draft = None /\ acked # None => disk = acked \/ (ed.pc # "idle" /\ disk = ed.text)
  BY <1>0 DEF FileIsPromised, Untouched, Overruled, Promised
<1>4. Durable!Kill
  BY <1>0, <1>1, <1>2, <1>3, Rows DEF Durable!Kill, Durable!Kept, Discarding, RowIsAcked
<1> QED
  BY <1>4 DEF PromiseStep, Durable!Next

LEMMA PromiseNext == Orderly /\ Promising /\ Promising' /\ [Next]_vars => [Durable!Next]_Durable!vars
<1> SUFFICES ASSUME Orderly, Promising, Promising', [Next]_vars PROVE PromiseStep
  BY DEF PromiseStep
<1>0. TypeInv /\ Untouched
  BY DEF Promising, DurableInv, CoreInv, OwnInv
<1>1. CASE Open
  BY <1>1, PromiseOpen
<1>2. CASE (\E text \in Texts : EditInstall(text)) \/ EditSettles
  BY <1>2, PromiseEdit
<1>3. CASE \E s \in Sessions : TimerFires(s)
  <2>1. PICK s \in Sessions : TimerFires(s)
    BY <1>3
  <2>2. UNCHANGED <<disk, draft, head, ed, acked, known>>
    BY <2>1 DEF TimerFires, store, history
  <2>3. Others(s) /\ s \in Threads /\ wr'[s].pc = "flush" /\ wr[s].pc = "rest"
    BY <1>0, <2>1, TimerEffect
  <2> QED
    BY <2>2, <2>3, DiscardingKept, PromiseRests
<1>4. CASE \E w \in Workers, call \in {"flush", "reload", "close"} : Call(w, call)
  <2>1. PICK w \in Workers, call \in {"flush", "reload", "close"} : Call(w, call)
    BY <1>4
  <2>2. UNCHANGED <<disk, draft, head, ed, acked, known>>
    BY <2>1 DEF Call, store, history
  <2>3. Others(w) /\ w \in Threads /\ wr'[w].pc # "discard" /\ wr[w].pc = "rest"
    BY <1>0, <2>1, CallEffect
  <2> HIDE <2>1
  <2> QED
    BY <2>2, <2>3, DiscardingKept, PromiseRests
<1>5. CASE \E w \in Threads : Thread(w)
  BY <1>5, PromiseFlush, PromiseReload, PromiseClose DEF Thread
<1>6. CASE \E file \in Files : GuestChanges(file)
  <2>1. PICK file \in Files : GuestChanges(file)
    BY <1>6
  <2>2. guests' = guests + 1 /\ guests = 0 /\ guests' = 0
    BY <1>0, <2>1 DEF GuestChanges, Untouched, Promising, OwnInv
  <2> QED
    BY <2>2
<1>7. CASE Crash
  BY <1>7, PromiseKill
<1>8. CASE UNCHANGED vars
  BY <1>8, PromiseRests DEF vars, store, history, Discarding
<1> QED
  BY <1>1, <1>2, <1>3, <1>4, <1>5, <1>6, <1>7, <1>8 DEF Next

(* The persistence of a Note implements DurableNote while no other program   *)
(* changes the file: what an open would hand back, now or after a kill,      *)
(* follows the acknowledged edits and reloads alone, every text that         *)
(* reaches the file has been shown, and history records what was in the      *)
(* file, although flush, reload and close each take several steps with the   *)
(* locks released in between.                                                *)
THEOREM PromiseKept == ASSUME Orderly, MaxGuest = 0 PROVE Spec => KeepsItsPromise
<1>1. Spec => []Promising
  <2>1. DurableInv /\ OwnInv /\ ShownInv /\ [Next]_vars => OwnInv' /\ ShownInv'
    BY OwnNext, ShownNext DEF DurableInv
  <2>2. Init => OwnInv /\ ShownInv
    BY OwnInit, ShownInit
  <2> QED
    BY <2>1, <2>2, DurableHolds, PTL DEF Spec, Promising
<1>2. Promising /\ Promising' /\ [Next]_vars => [Durable!Next]_Durable!vars
  BY PromiseNext
<1> QED
  BY <1>1, <1>2, PromiseInit, PTL DEF Spec, KeepsItsPromise, Durable!Spec

=============================================================================
