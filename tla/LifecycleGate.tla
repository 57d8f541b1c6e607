--------------------------- MODULE LifecycleGate ---------------------------
(***************************************************************************)
(* The locks of an open Workspace (rust/src/workspace/persist.rs): how the  *)
(* operations that create, open, rename, move and delete Notes keep out of  *)
(* each other's way, of the edits of open Notes and of the writes of their  *)
(* sessions.                                                                *)
(*                                                                          *)
(*   - Operations (the bridge's worker threads) hold the lifecycle lock,    *)
(*     close the admission gate, wait for the admitted edits to end, and    *)
(*     take the write lock of every open session, in the order of the       *)
(*     Notes' ids.                                                          *)
(*   - Editors (the Dart isolate's synchronous calls) take an edit lease    *)
(*     before they look a session up, or are refused.                       *)
(*   - Writers (idle timers, and worker threads in a flush, a reload or a   *)
(*     close) know neither the lifecycle lock nor the gate.                 *)
(*                                                                          *)
(* What a file, a row or a buffer holds is left to NoteSession: here an     *)
(* operation's body is what it does to the sessions and their registry. A   *)
(* call that is refused (an edit at a closed gate, a Note that is not open) *)
(* changes nothing and is not a step.                                       *)
(***************************************************************************)
EXTENDS Naturals, FiniteSets

CONSTANTS
    Ids,        \* the Notes' concept ids; only their order matters
    Sessions,   \* identities of sessions
    Operations, Editors, Writers,    \* the threads
    None

Threads == Operations \cup Editors \cup Writers

ASSUME IdsAssumption == Ids \subseteq Nat
ASSUME ThreadsAssumption ==
    /\ Operations \cap Editors = {} /\ Operations \cap Writers = {}
    /\ Editors \cap Writers = {}
ASSUME NoneAssumption == None \notin Ids \cup Sessions \cup Threads

VARIABLES
    registry,   \* id -> the session that is registered for it, or None
    id,         \* session -> its Note's id; None when it does not exist yet
    closed,     \* session -> it was retired, by a close or an operation
    settled,    \* history: the sessions an operation retired
    lifecycle,  \* the holder of the lifecycle lock
    active,     \* the admission gate is closed
    leases,     \* the editors with a counted lease
    wlock,      \* session -> the holder of its tier 2 write lock
    tier1,      \* session -> the holder of its tier 1 lock
    th          \* thread -> its call in progress

sessions == <<registry, id, closed, settled>>
gate     == <<lifecycle, active, leases>>
locks    == <<wlock, tier1>>
vars     == <<sessions, gate, locks, th>>

(* `locked` is the snapshot with_write_locks works on, `todo` what is left of *)
(* the Notes an operation affects, `to` the id a session is moved to.        *)
Idle == [pc |-> "idle", call |-> "none", note |-> None, to |-> None, s |-> None,
         locked |-> {}, todo |-> {}]

Init ==
    /\ registry = [i \in Ids |-> None]
    /\ id = [s \in Sessions |-> None]
    /\ closed = [s \in Sessions |-> FALSE]
    /\ settled = {}
    /\ lifecycle = None
    /\ active = FALSE
    /\ leases = {}
    /\ wlock = [s \in Sessions |-> None]
    /\ tier1 = [s \in Sessions |-> None]
    /\ th = [t \in Threads |-> Idle]

(* Mutation: the ids are listed, vacant ones included, and not the sessions. *)
RegisteredWithVacant == {registry[i] : i \in Ids}

Registered == {registry[i] : i \in Ids} \ {None}

Held(t) == {s \in Sessions : wlock[s] = t}

At(t, pc) == th[t].pc = pc
Goto(t, pc) == th' = [th EXCEPT ![t].pc = pc]
Leave(t, pc) == th' = [th EXCEPT ![t] = [Idle EXCEPT !.pc = pc]]
Return(t) == Leave(t, "idle")

-----------------------------------------------------------------------------
(* with_lifecycle_lock: the lock, the gate, the drain.                       *)

(* A worker thread is handed an operation. `open` stands for every operation *)
(* that takes no write locks (creations and a reindex among them), `delete`  *)
(* and `reidentify` for those that do.                                       *)
Request(l, call) ==
    /\ At(l, "idle")
    /\ th' = [th EXCEPT ![l] = [Idle EXCEPT !.pc = "request", !.call = call]]
    /\ UNCHANGED <<sessions, gate, locks>>

(* Mutation: an open does not take the lock. *)
LifecycleLockNotByOpen(l) ==
    /\ At(l, "request")
    /\ \/ th[l].call = "open" /\ UNCHANGED lifecycle /\ Goto(l, "open")
       \/ th[l].call # "open" /\ lifecycle = None /\ lifecycle' = l /\ Goto(l, "gate")
    /\ UNCHANGED <<sessions, active, leases, locks>>

LifecycleLock(l) ==
    /\ At(l, "request")
    /\ lifecycle = None
    /\ lifecycle' = l
    /\ Goto(l, "gate")
    /\ UNCHANGED <<sessions, active, leases, locks>>

CloseGate(l) ==
    /\ At(l, "gate")
    /\ active' = TRUE
    /\ Goto(l, "drain")
    /\ UNCHANGED <<sessions, lifecycle, leases, locks>>

(* Mutation: the operation starts beside the edits that were admitted. *)
DrainedUnchecked == TRUE

Drained == leases = {}

Drain(l) ==
    /\ At(l, "drain")
    /\ Drained
    /\ Goto(l, IF th[l].call = "open" THEN "open" ELSE "snapshot")
    /\ UNCHANGED <<sessions, gate, locks>>

(* The gate reopens before the lock is released.                             *)
Reopen(l) ==
    /\ At(l, "reopen")
    /\ active' = FALSE
    /\ Goto(l, "unlock")
    /\ UNCHANGED <<sessions, lifecycle, leases, locks>>

Unlock(l) ==
    /\ At(l, "unlock")
    /\ lifecycle' = None
    /\ Return(l)
    /\ UNCHANGED <<sessions, active, leases, locks>>

-----------------------------------------------------------------------------
(* with_write_locks, by an operation or by an editor's commit_block.         *)

Snapshot(t) ==
    /\ At(t, "snapshot")
    /\ th' = [th EXCEPT ![t].pc = "take", ![t].locked = Registered]
    /\ UNCHANGED <<sessions, gate, locks>>

(* Mutation: the locks are taken in the order the registry happens to have. *)
NextLockUnsorted(t, s) == s \in th[t].locked \ Held(t)

(* One lock after the other, in the order of the ids.                        *)
NextLock(t, s) ==
    /\ s \in th[t].locked \ Held(t)
    /\ \A other \in th[t].locked \ Held(t) : id[s] <= id[other]

TakeLock(t) ==
    /\ At(t, "take")
    /\ \E s \in Sessions :
        /\ NextLock(t, s)
        /\ wlock[s] = None
        /\ wlock' = [wlock EXCEPT ![s] = t]
    /\ UNCHANGED <<sessions, gate, tier1, th>>

(* With every lock in hand the registry is read again. A session that has    *)
(* appeared, by identity, sends the caller back to take them all anew. The   *)
(* code gives up after 64 such rounds, which Sessions is too small for.      *)
Recheck(t) ==
    /\ At(t, "take")
    /\ th[t].locked \subseteq Held(t)
    /\ IF Registered \subseteq th[t].locked
       THEN /\ th' = [th EXCEPT ![t].pc = "body", ![t].locked = {}]
            /\ UNCHANGED wlock
       ELSE /\ th' = [th EXCEPT ![t].locked = @ \cup Registered]
            /\ wlock' = [s \in Sessions |-> IF wlock[s] = t THEN None ELSE wlock[s]]
    /\ UNCHANGED <<sessions, gate, tier1>>

ReleaseLocks(t) ==
    /\ At(t, "release")
    /\ wlock' = [s \in Sessions |-> IF wlock[s] = t THEN None ELSE wlock[s]]
    /\ IF t \in Operations THEN Leave(t, "reopen") ELSE Return(t)
    /\ UNCHANGED <<sessions, gate, tier1>>

-----------------------------------------------------------------------------
(* The bodies of the operations, as far as they reach the sessions.          *)

Create(s, note) ==
    /\ id[s] = None
    /\ registry' = [registry EXCEPT ![note] = s]
    /\ id' = [id EXCEPT ![s] = note]

(* An open finds the session that is registered, or installs one, or fails.  *)
Open(l) ==
    /\ At(l, "open")
    /\ \/ \E note \in Ids, s \in Sessions : registry[note] = None /\ Create(s, note)
       \/ UNCHANGED <<registry, id>>
    /\ Leave(l, "reopen")
    /\ UNCHANGED <<closed, settled, gate, locks>>

(* An operation finds out which Notes it affects; those that are not open    *)
(* are of no account, and one that fails reaches none of them.               *)
Plan(l) ==
    /\ l \in Operations
    /\ At(l, "body")
    /\ \E affected \in SUBSET {i \in Ids : registry[i] # None} :
          th' = [th EXCEPT ![l].pc = "apply", ![l].todo = affected]
    /\ UNCHANGED <<sessions, gate, locks>>

Done(l, note) == th[l].todo \ {note}

(* A Note that was closed meanwhile is passed over.                          *)
PassOver(l, note) ==
    /\ At(l, "apply")
    /\ note \in th[l].todo
    /\ registry[note] = None
    /\ th' = [th EXCEPT ![l].todo = Done(l, note)]
    /\ UNCHANGED <<sessions, gate, locks>>

BodyEnds(l) ==
    /\ At(l, "apply")
    /\ th[l].todo = {}
    /\ Leave(l, "release")
    /\ UNCHANGED <<sessions, gate, locks>>

(* A destination is an id that no session is open under and that is not one  *)
(* of the Notes that are still to be moved. That a session is left to be     *)
(* built is a bound.                                                         *)
Destination(l, to) ==
    \/ th[l].call = "delete" /\ to = None
    \/ /\ th[l].call = "reidentify"
       /\ to \in Ids \ th[l].todo /\ registry[to] = None
       /\ \E spare \in Sessions : id[spare] = None

(* carry_session_forward and discard_session: the registry gives the session *)
(* up first ...                                                              *)
Deregister(l, note, to) ==
    LET s == registry[note] IN
    /\ At(l, "apply")
    /\ note \in th[l].todo
    /\ s # None
    /\ Destination(l, to)
    /\ registry' = [registry EXCEPT ![note] = None]
    /\ th' = [th EXCEPT ![l].pc = "settle", ![l].todo = Done(l, note),
                        ![l].s = s, ![l].to = to]
    /\ UNCHANGED <<id, closed, settled, gate, locks>>

(* ... then the session is marked closed ...                                 *)
Settle(l) ==
    LET s == th[l].s IN
    /\ At(l, "settle")
    /\ closed' = [closed EXCEPT ![s] = TRUE]
    /\ settled' = settled \cup {s}
    /\ IF th[l].to # None
       THEN Goto(l, "install")
       ELSE th' = [th EXCEPT ![l].pc = "apply", ![l].s = None]
    /\ UNCHANGED <<registry, id, gate, locks>>

(* ... and a move installs one built from it, open, under the new id. Its    *)
(* write lock is its own, and nobody holds it.                               *)
Install(l) ==
    /\ At(l, "install")
    /\ \E s \in Sessions : Create(s, th[l].to)
    /\ th' = [th EXCEPT ![l].pc = "apply", ![l].s = None, ![l].to = None]
    /\ UNCHANGED <<closed, settled, gate, locks>>

(* install_rewrite, of a Note whose Links were rewritten in place: under its *)
(* tier 1 lock, which is taken below the write locks.                        *)
InstallRewrite(l, note) ==
    LET s == registry[note] IN
    /\ At(l, "apply")
    /\ th[l].call = "reidentify"
    /\ note \in th[l].todo
    /\ s # None
    /\ tier1[s] = None
    /\ th' = [th EXCEPT ![l].todo = Done(l, note)]
    /\ UNCHANGED <<sessions, gate, locks>>

-----------------------------------------------------------------------------
(* Edits.                                                                    *)

(* Mutation: an edit is admitted through a closed gate. *)
AdmittedAlways == TRUE

Admitted == ~active

(* The lease comes before the lookup and ends with the call.                 *)
Edit(e, note) ==
    /\ At(e, "idle")
    /\ Admitted
    /\ leases' = leases \cup {e}
    /\ th' = [th EXCEPT ![e] = [Idle EXCEPT !.pc = "lookup", !.call = "edit", !.note = note]]
    /\ UNCHANGED <<sessions, lifecycle, active, locks>>

(* commit_block takes the write locks first, and the lease under them.       *)
CommitBlock(e, note) ==
    /\ At(e, "idle")
    /\ th' = [th EXCEPT ![e] = [Idle EXCEPT !.pc = "snapshot", !.call = "commit",
                                            !.note = note]]
    /\ UNCHANGED <<sessions, gate, locks>>

CommitLease(e) ==
    /\ e \in Editors
    /\ At(e, "body")
    /\ IF Admitted
       THEN leases' = leases \cup {e} /\ Goto(e, "lookup")
       ELSE leases' = leases /\ Leave(e, "release")
    /\ UNCHANGED <<sessions, lifecycle, active, locks>>

Found(e) == registry[th[e].note] # None

LookUp(e) ==
    /\ At(e, "lookup")
    /\ Found(e)
    /\ th' = [th EXCEPT ![e].s = registry[th[e].note],
                        ![e].pc = IF th[e].call = "edit" THEN "tier1" ELSE "reparse"]
    /\ UNCHANGED <<sessions, gate, locks>>

EndLease(e) ==
    /\ leases' = leases \ {e}
    /\ IF th[e].call = "edit" THEN Return(e) ELSE Leave(e, "release")

LookUpFails(e) ==
    /\ At(e, "lookup")
    /\ ~Found(e)
    /\ EndLease(e)
    /\ UNCHANGED <<sessions, lifecycle, active, locks>>

EditTierOne(e) ==
    LET s == th[e].s IN
    /\ At(e, "tier1")
    /\ e \in Editors
    /\ tier1[s] = None
    /\ tier1' = [tier1 EXCEPT ![s] = e]
    /\ Goto(e, "mutate")
    /\ UNCHANGED <<sessions, gate, wlock>>

(* The mutation and its draft row, or a refusal.                             *)
Mutate(e) ==
    /\ At(e, "mutate")
    /\ tier1' = [tier1 EXCEPT ![th[e].s] = None]
    /\ EndLease(e)
    /\ UNCHANGED <<sessions, lifecycle, active, wlock>>

Reparse(e) ==
    /\ At(e, "reparse")
    /\ EndLease(e)
    /\ UNCHANGED <<sessions, lifecycle, active, locks>>

-----------------------------------------------------------------------------
(* Writes, by sessions that may be retired while the thread waits.           *)

Begin(w, call, s) ==
    /\ At(w, "idle")
    /\ th' = [th EXCEPT ![w] = [Idle EXCEPT !.pc = "write", !.call = call, !.s = s]]
    /\ UNCHANGED <<sessions, gate, locks>>

(* By the timer of a session that still exists, or by a worker.              *)
Flush(w, s) == id[s] # None /\ Begin(w, "flush", s)

Call(w, call, note) ==
    /\ registry[note] # None
    /\ Begin(w, call, registry[note])

(* Mutation: the closed flag is read before the wait for the write lock. *)
WriteLockStale(w) ==
    LET s == th[w].s IN
    /\ At(w, "write")
    /\ wlock[s] = None
    /\ wlock' = [wlock EXCEPT ![s] = w]
    /\ Goto(w, IF th[w].call = "reload" THEN "tier1" ELSE "writing")
    /\ UNCHANGED <<sessions, gate, tier1>>

(* Under the write lock, a closed session is left alone, except by a reload. *)
WriteLock(w) ==
    LET s == th[w].s IN
    /\ At(w, "write")
    /\ wlock[s] = None
    /\ \/ th[w].call = "reload" \/ ~closed[s]
    /\ wlock' = [wlock EXCEPT ![s] = w]
    /\ Goto(w, IF th[w].call = "reload" THEN "tier1" ELSE "writing")
    /\ UNCHANGED <<sessions, gate, tier1>>

WriteSkipped(w) ==
    LET s == th[w].s IN
    /\ At(w, "write")
    /\ wlock[s] = None
    /\ closed[s]
    /\ \/ th[w].call = "flush" /\ Return(w)
       \/ th[w].call = "close" /\ Goto(w, "retire")
    /\ UNCHANGED <<sessions, gate, locks>>

(* A close with nothing to write goes straight to its end.                   *)
CloseUnedited(w) ==
    /\ At(w, "write")
    /\ th[w].call = "close"
    /\ Goto(w, "retire")
    /\ UNCHANGED <<sessions, gate, locks>>

(* A write that fails refuses the close.                                     *)
Written(w) ==
    LET s == th[w].s IN
    /\ At(w, "writing")
    /\ wlock' = [wlock EXCEPT ![s] = None]
    /\ Return(w) \/ (th[w].call = "close" /\ Goto(w, "retire"))
    /\ UNCHANGED <<sessions, gate, tier1>>

ReloadTierOne(w) ==
    LET s == th[w].s IN
    /\ At(w, "tier1")
    /\ w \in Writers
    /\ tier1[s] = None
    /\ tier1' = [tier1 EXCEPT ![s] = w]
    /\ Goto(w, "reloading")
    /\ UNCHANGED <<sessions, gate, wlock>>

Reloaded(w) ==
    LET s == th[w].s IN
    /\ At(w, "reloading")
    /\ wlock' = [wlock EXCEPT ![s] = None]
    /\ tier1' = [tier1 EXCEPT ![s] = None]
    /\ Return(w)
    /\ UNCHANGED <<sessions, gate>>

Retire(w) ==
    LET s == th[w].s IN
    /\ At(w, "retire")
    /\ closed' = [closed EXCEPT ![s] = TRUE]
    /\ Goto(w, "remove")
    /\ UNCHANGED <<registry, id, settled, gate, locks>>

(* The entry is removed by id, whichever session it holds by now.            *)
Remove(w) ==
    /\ At(w, "remove")
    /\ registry' = [registry EXCEPT ![id[th[w].s]] = None]
    /\ Return(w)
    /\ UNCHANGED <<id, closed, settled, gate, locks>>

-----------------------------------------------------------------------------

WithWriteLocks(t) == Snapshot(t) \/ TakeLock(t) \/ Recheck(t) \/ ReleaseLocks(t)

Body(l) ==
    \/ Open(l) \/ Plan(l) \/ BodyEnds(l) \/ Settle(l) \/ Install(l)
    \/ \E note \in Ids :
        \/ PassOver(l, note) \/ InstallRewrite(l, note)
        \/ \E to \in Ids \cup {None} : Deregister(l, note, to)

Operation(l) ==
    \/ LifecycleLock(l) \/ CloseGate(l) \/ Drain(l)
    \/ WithWriteLocks(l) \/ Body(l) \/ Reopen(l) \/ Unlock(l)

Editing(e) ==
    \/ WithWriteLocks(e) \/ CommitLease(e) \/ LookUp(e) \/ LookUpFails(e)
    \/ EditTierOne(e) \/ Mutate(e) \/ Reparse(e)

Writing(w) ==
    \/ WriteLock(w) \/ WriteSkipped(w) \/ CloseUnedited(w) \/ Written(w)
    \/ ReloadTierOne(w) \/ Reloaded(w) \/ Retire(w) \/ Remove(w)

Progress ==
    \/ \E l \in Operations : Operation(l)
    \/ \E e \in Editors : Editing(e)
    \/ \E w \in Writers : Writing(w)

Next ==
    \/ \E l \in Operations, call \in {"open", "delete", "reidentify"} : Request(l, call)
    \/ \E e \in Editors, note \in Ids : Edit(e, note) \/ CommitBlock(e, note)
    \/ \E w \in Writers :
        \/ \E s \in Sessions : Flush(w, s)
        \/ \E call \in {"reload", "close"}, note \in Ids : Call(w, call, note)
    \/ Progress

Spec == Init /\ [][Next]_vars

(* A call that was made goes on as far as the locks let it, and a thread     *)
(* that waits for a lock that is released again and again gets it. Nobody    *)
(* has to make a call, and timers need not fire.                             *)
Fairness ==
    /\ \A l \in Operations : /\ WF_vars(Operation(l))
                             /\ SF_vars(LifecycleLock(l))
                             /\ SF_vars(TakeLock(l))
    /\ \A e \in Editors : /\ WF_vars(Editing(e))
                          /\ SF_vars(TakeLock(e))
                          /\ SF_vars(EditTierOne(e))
    /\ \A w \in Writers : /\ WF_vars(Writing(w))
                          /\ SF_vars(WriteLock(w) \/ WriteSkipped(w))
                          /\ SF_vars(ReloadTierOne(w))

FairSpec == Spec /\ Fairness

-----------------------------------------------------------------------------
(* Properties.                                                               *)

CallState ==
    [pc: {"idle", "request", "gate", "drain", "open", "snapshot", "take", "body", "apply",
          "settle", "install", "release", "reopen", "unlock",
          "lookup", "tier1", "mutate", "reparse",
          "write", "writing", "reloading", "retire", "remove"},
     call: {"none", "open", "delete", "reidentify", "edit", "commit",
            "flush", "reload", "close"},
     note: Ids \cup {None}, to: Ids \cup {None}, s: Sessions \cup {None},
     locked: SUBSET Sessions, todo: SUBSET Ids]

TypeOK ==
    /\ registry \in [Ids -> Sessions \cup {None}]
    /\ id \in [Sessions -> Ids \cup {None}]
    /\ closed \in [Sessions -> BOOLEAN]
    /\ settled \subseteq Sessions
    /\ lifecycle \in Operations \cup {None}
    /\ active \in BOOLEAN
    /\ leases \subseteq Editors
    /\ wlock \in [Sessions -> Threads \cup {None}]
    /\ tier1 \in [Sessions -> Threads \cup {None}]
    /\ th \in [Threads -> CallState]

(* Between the drain of with_lifecycle_lock and the reopening of its gate no *)
(* edit holds a lease, so none is between its lookup and its draft row while *)
(* an operation plans, moves files or exchanges sessions.                    *)
Inside == {"open", "snapshot", "take", "body", "apply", "settle", "install", "release", "reopen"}

NoEditInsideOperation == \A l \in Operations : th[l].pc \in Inside => leases = {}

(* An edit never works on a session an operation has retired: what           *)
(* with_open_session_edit says of a request that is paused after its lookup. *)
EditOnLiveSession ==
    \A e \in Editors : th[e].pc \in {"tier1", "mutate", "reparse"} => th[e].s \notin settled

(* While an operation's body runs, it holds the write lock of every session  *)
(* that is registered and that it did not install itself.                    *)
BodyCoversSessions ==
    \A l \in Operations :
        /\ th[l].pc = "body" => \A s \in Registered : wlock[s] = l
        /\ th[l].pc \in {"settle", "install"} => wlock[th[l].s] = l

(* A flush that waited for its lock through a rename or a deletion writes    *)
(* nothing: no write is under way of a session an operation has retired.     *)
RetiredNotWritten ==
    \A w \in Writers : th[w].pc = "writing" => th[w].s \notin settled

(* with_write_locks: "when f begins, every session open in this Workspace is *)
(* write-locked by this call", commit_block's call included.                 *)
CoveredWhenBodyBegins ==
    \A t \in Operations \cup Editors : th[t].pc = "body" => \A s \in Registered : wlock[s] = t

(* "update_block and commit_block never take [the write lock], so no         *)
(* keystroke can wait on it".                                                *)
EditorNeverWaits ==
    \A e \in Editors, s \in Sessions :
        th[e].pc = "take" /\ NextLock(e, s) => wlock[s] = None

(* A session that is open is the one the registry holds for its Note, unless *)
(* an operation has it in hand.                                              *)
OpenIsRegistered ==
    \A s \in Sessions :
        id[s] # None /\ ~closed[s] =>
            \/ registry[id[s]] = s
            \/ \E l \in Operations : th[l].pc = "settle" /\ th[l].s = s

(* A close that has retired its session is not undone: no operation builds   *)
(* an open session from one that a close has marked closed.                  *)
ClosedStaysClosed ==
    [][\A l \in Operations :
          th[l].pc = "settle" /\ th'[l].pc = "install" => ~closed[th[l].s]]_vars

(* No order of the locks, the gate and the leases leaves calls waiting for   *)
(* each other: as long as one has not ended, one can go on.                  *)
NeverStuck == (\E t \in Threads : th[t].pc # "idle") => ENABLED Progress

(* Operations, edits and writes end, each of them.                           *)
CallsEnd == \A t \in Threads : th[t].pc # "idle" ~> th[t].pc = "idle"
=============================================================================
