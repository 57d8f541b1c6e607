------------------------ MODULE LifecycleGate_proofs ------------------------
(***************************************************************************)
(* Proofs about LifecycleGate for every number of Notes, sessions and       *)
(* threads.                                                                 *)
(***************************************************************************)
EXTENDS LifecycleGate, TLAPS

(* A thread with no call in progress is of the type ...                      *)
LEMMA IdleTyped == Idle \in CallState
BY DEF Idle, CallState

(* ... and so has one that leaves for it with everything forgotten.         *)
LEMMA LeaveTyped ==
    ASSUME TypeOK, NEW t \in Threads,
           NEW pc \in {"idle", "release", "reopen"}, Leave(t, pc)
    PROVE  /\ th' \in [Threads -> CallState]
           /\ th'[t].pc = pc
           /\ \A u \in Threads \ {t} : th'[u] = th[u]
BY DEF Leave, Idle, CallState, TypeOK

(* A thread that goes on keeps what its call works on.                      *)
LEMMA GotoTyped ==
    ASSUME TypeOK, NEW t \in Threads,
           NEW pc \in {"gate", "drain", "open", "snapshot", "install", "release", "unlock",
                       "lookup", "mutate", "tier1", "writing", "reloading", "retire", "remove"},
           Goto(t, pc)
    PROVE  /\ th' \in [Threads -> CallState]
           /\ th'[t] = [th[t] EXCEPT !.pc = pc]
           /\ th'[t].pc = pc /\ th'[t].call = th[t].call /\ th'[t].note = th[t].note
           /\ th'[t].to = th[t].to /\ th'[t].s = th[t].s
           /\ th'[t].locked = th[t].locked /\ th'[t].todo = th[t].todo
           /\ \A u \in Threads \ {t} : th'[u] = th[u]
<1> DEFINE moved == [th[t] EXCEPT !.pc = pc]
<1>1. moved \in CallState /\ moved.pc = pc
  BY ZenonT(60) DEF CallState, TypeOK
<1>2. /\ moved.call = th[t].call /\ moved.note = th[t].note /\ moved.to = th[t].to
      /\ moved.s = th[t].s /\ moved.locked = th[t].locked /\ moved.todo = th[t].todo
  BY DEF CallState, TypeOK
<1>3. th' = [th EXCEPT ![t] = moved]
  BY DEF Goto
<1>4. th'[t] = moved /\ \A u \in Threads \ {t} : th'[u] = th[u]
  <2> HIDE DEF moved
  <2> QED BY <1>3 DEF TypeOK
<1>5. th' \in [Threads -> CallState]
  <2> HIDE DEF moved
  <2> QED BY <1>1, <1>3 DEF TypeOK
<1> QED
  BY <1>1, <1>2, <1>4, <1>5

-----------------------------------------------------------------------------
(* Types: what a thread works on once its call has got to it.               *)

CallTyped ==
    /\ \A l \in Operations :
        /\ th[l].pc \in {"settle", "install"} => th[l].s \in Sessions
        /\ th[l].pc = "install" => th[l].to \in Ids
    /\ \A e \in Editors :
        /\ th[e].pc \in {"snapshot", "take", "body", "lookup"} => th[e].note \in Ids
        /\ th[e].pc \in {"tier1", "mutate", "reparse"} => th[e].s \in Sessions
    /\ \A w \in Writers : th[w].pc # "idle" => th[w].s \in Sessions

TypeInv == TypeOK /\ CallTyped

(* with_lifecycle_lock keeps the types.                                      *)
LEMMA GateTyped ==
    ASSUME TypeInv, NEW l \in Operations,
           \/ \E call \in {"open", "delete", "reidentify"} : Request(l, call)
           \/ LifecycleLock(l) \/ CloseGate(l) \/ Drain(l) \/ Reopen(l) \/ Unlock(l)
    PROVE  TypeInv'
<1> USE ThreadsAssumption
<1> l \in Threads BY DEF Threads
<1>1. CASE \E call \in {"open", "delete", "reidentify"} : Request(l, call)
  <2> PICK call \in {"open", "delete", "reidentify"} : Request(l, call)
      BY <1>1
  <2>1. /\ th' \in [Threads -> CallState] /\ th'[l].pc = "request"
        /\ \A u \in Threads \ {l} : th'[u] = th[u]
      BY DEF TypeInv, TypeOK, Request, CallState, Idle
  <2> QED BY <2>1 DEF TypeInv, TypeOK, CallTyped, Request, sessions, gate, locks, Threads
<1>2. CASE LifecycleLock(l)
  <2>1. /\ th' \in [Threads -> CallState] /\ th'[l].pc = "gate"
        /\ \A u \in Threads \ {l} : th'[u] = th[u]
      BY <1>2, GotoTyped DEF LifecycleLock, TypeInv
  <2> QED BY <1>2, <2>1 DEF TypeInv, TypeOK, CallTyped, LifecycleLock, sessions, locks, Threads
<1>3. CASE CloseGate(l)
  <2>1. /\ th' \in [Threads -> CallState] /\ th'[l].pc = "drain"
        /\ \A u \in Threads \ {l} : th'[u] = th[u]
      BY <1>3, GotoTyped DEF CloseGate, TypeInv
  <2>2. active' \in BOOLEAN
      BY <1>3 DEF CloseGate
  <2>3. UNCHANGED <<sessions, lifecycle, leases, locks>>
      BY <1>3 DEF CloseGate
  <2> QED BY <2>1, <2>2, <2>3 DEF TypeInv, TypeOK, CallTyped, sessions, locks, Threads
<1>4. CASE Drain(l)
  <2>1. /\ th' \in [Threads -> CallState] /\ th'[l].pc \in {"open", "snapshot"}
        /\ \A u \in Threads \ {l} : th'[u] = th[u]
      BY <1>4, GotoTyped DEF Drain, TypeInv
  <2> QED BY <1>4, <2>1 DEF TypeInv, TypeOK, CallTyped, Drain, sessions, gate, locks, Threads
<1>5. CASE Reopen(l)
  <2>1. /\ th' \in [Threads -> CallState] /\ th'[l].pc = "unlock"
        /\ \A u \in Threads \ {l} : th'[u] = th[u]
      BY <1>5, GotoTyped DEF Reopen, TypeInv
  <2>2. active' \in BOOLEAN
      BY <1>5 DEF Reopen
  <2>3. UNCHANGED <<sessions, lifecycle, leases, locks>>
      BY <1>5 DEF Reopen
  <2> QED BY <2>1, <2>2, <2>3 DEF TypeInv, TypeOK, CallTyped, sessions, locks, Threads
<1>6. CASE Unlock(l)
  <2>1. /\ th' \in [Threads -> CallState] /\ th'[l].pc = "idle"
        /\ \A u \in Threads \ {l} : th'[u] = th[u]
      BY <1>6, LeaveTyped DEF Unlock, Return, TypeInv
  <2> QED BY <1>6, <2>1 DEF TypeInv, TypeOK, CallTyped, Unlock, sessions, locks, Threads
<1> QED BY <1>1, <1>2, <1>3, <1>4, <1>5, <1>6

(* with_write_locks keeps them, called by an operation or by an editor.      *)
LEMMA LocksTyped ==
    ASSUME TypeInv, NEW t \in Operations \cup Editors, WithWriteLocks(t)
    PROVE  TypeInv'
<1> USE ThreadsAssumption
<1> t \in Threads BY DEF Threads
<1>0. Registered \subseteq Sessions
    BY DEF TypeInv, TypeOK, Registered
<1>1. CASE Snapshot(t)
  <2>1. /\ th' \in [Threads -> CallState] /\ th'[t].pc = "take"
        /\ th[t].pc = "snapshot" /\ th'[t].note = th[t].note
        /\ \A u \in Threads \ {t} : th'[u] = th[u]
    <3>1. th' \in [Threads -> CallState]
      <4> DEFINE c == [th[t] EXCEPT !.pc = "take", !.locked = Registered]
      <4>1. th[t] \in CallState
          BY DEF TypeInv, TypeOK
      <4>2. c \in CallState
          BY <1>0, <4>1 DEF CallState
      <4>3. th' = [th EXCEPT ![t] = c]
          BY <1>1 DEF Snapshot, TypeInv, TypeOK
      <4> HIDE DEF c
      <4> QED BY <4>2, <4>3 DEF TypeInv, TypeOK
    <3>2. /\ th[t].pc = "snapshot" /\ th'[t].pc = "take" /\ th'[t].note = th[t].note
          /\ \A u \in Threads \ {t} : th'[u] = th[u]
        BY <1>1 DEF TypeInv, TypeOK, Snapshot, CallState, At
    <3> QED BY <3>1, <3>2
  <2> QED BY <1>1, <2>1 DEF TypeInv, TypeOK, CallTyped, Snapshot, sessions, gate, locks, Threads
<1>2. CASE TakeLock(t)
  <2>1. wlock' \in [Sessions -> Threads \cup {None}]
      BY <1>2 DEF TypeInv, TypeOK, TakeLock
  <2> QED BY <1>2, <2>1 DEF TypeInv, TypeOK, CallTyped, TakeLock, sessions, gate
<1>3. CASE Recheck(t)
  <2>1. wlock' \in [Sessions -> Threads \cup {None}]
      BY <1>3 DEF TypeInv, TypeOK, Recheck
  <2>2. /\ th' \in [Threads -> CallState] /\ th'[t].pc \in {"take", "body"}
        /\ th[t].pc = "take" /\ th'[t].note = th[t].note
        /\ \A u \in Threads \ {t} : th'[u] = th[u]
    <3>1. th[t] \in CallState /\ th[t].pc = "take"
        BY <1>3 DEF Recheck, At, TypeInv, TypeOK
    <3>2. CASE Registered \subseteq th[t].locked
      <4> DEFINE c == [th[t] EXCEPT !.pc = "body", !.locked = {}]
      <4>1. c \in CallState /\ c.pc = "body" /\ c.note = th[t].note
          BY ZenonT(60), <3>1 DEF CallState
      <4>2. th' = [th EXCEPT ![t] = c]
          BY <1>3, <3>2 DEF Recheck
      <4> HIDE DEF c
      <4> QED BY <3>1, <4>1, <4>2 DEF TypeInv, TypeOK
    <3>3. CASE ~(Registered \subseteq th[t].locked)
      <4> DEFINE c == [th[t] EXCEPT !.locked = @ \cup Registered]
      <4>1. c \in CallState /\ c.pc = "take" /\ c.note = th[t].note
          BY ZenonT(60), <1>0, <3>1 DEF CallState
      <4>2. th' = [th EXCEPT ![t] = c]
          BY <1>3, <3>3 DEF Recheck
      <4> HIDE DEF c
      <4> QED BY <3>1, <4>1, <4>2 DEF TypeInv, TypeOK
    <3> QED BY <3>2, <3>3
  <2> QED BY <1>3, <2>1, <2>2
          DEF TypeInv, TypeOK, CallTyped, Recheck, sessions, gate, Threads
<1>4. CASE ReleaseLocks(t)
  <2>1. wlock' \in [Sessions -> Threads \cup {None}]
      BY <1>4 DEF TypeInv, TypeOK, ReleaseLocks
  <2>2. /\ th' \in [Threads -> CallState] /\ th'[t].pc \in {"reopen", "idle"}
        /\ \A u \in Threads \ {t} : th'[u] = th[u]
      BY <1>4, LeaveTyped DEF TypeInv, ReleaseLocks, Return
  <2> QED BY <1>4, <2>1, <2>2
          DEF TypeInv, TypeOK, CallTyped, ReleaseLocks, sessions, gate, Threads
<1> QED BY <1>1, <1>2, <1>3, <1>4 DEF WithWriteLocks

(* The operations' bodies keep them: what an operation does to the sessions  *)
(* and their registry.                                                       *)
LEMMA BodyTyped ==
    ASSUME TypeInv, NEW l \in Operations, Body(l)
    PROVE  TypeInv'
<1> USE ThreadsAssumption
<1> l \in Threads BY DEF Threads
<1>1. CASE Open(l)
  <2>1. /\ th' \in [Threads -> CallState] /\ th'[l].pc = "reopen"
        /\ \A u \in Threads \ {l} : th'[u] = th[u]
      BY <1>1, LeaveTyped DEF Open, TypeInv
  <2>2. /\ registry' \in [Ids -> Sessions \cup {None}]
        /\ id' \in [Sessions -> Ids \cup {None}]
      BY <1>1 DEF Open, Create, TypeInv, TypeOK
  <2> QED BY <1>1, <2>1, <2>2 DEF TypeInv, TypeOK, CallTyped, Open, gate, locks, Threads
<1>2. CASE Plan(l)
  <2>1. th' \in [Threads -> CallState]
    <3> PICK affected \in SUBSET Ids :
               th' = [th EXCEPT ![l].pc = "apply", ![l].todo = affected]
        BY <1>2 DEF Plan
    <3> DEFINE c == [th[l] EXCEPT !.pc = "apply", !.todo = affected]
    <3>1. th[l] \in CallState
        BY DEF TypeInv, TypeOK
    <3>2. c \in CallState
        BY <3>1 DEF CallState
    <3>3. th' = [th EXCEPT ![l] = c]
        BY DEF TypeInv, TypeOK
    <3> HIDE DEF c
    <3> QED BY <3>2, <3>3 DEF TypeInv, TypeOK
  <2>2. /\ th'[l].pc = "apply"
        /\ \A u \in Threads \ {l} : th'[u] = th[u]
      BY <1>2 DEF Plan, TypeInv, TypeOK, CallState
  <2> QED BY <1>2, <2>1, <2>2
          DEF TypeInv, TypeOK, CallTyped, Plan, sessions, gate, locks, Threads
<1>3. CASE BodyEnds(l)
  <2>1. /\ th' \in [Threads -> CallState] /\ th'[l].pc = "release"
        /\ \A u \in Threads \ {l} : th'[u] = th[u]
      BY <1>3, LeaveTyped DEF BodyEnds, TypeInv
  <2> QED BY <1>3, <2>1
          DEF TypeInv, TypeOK, CallTyped, BodyEnds, sessions, gate, locks, Threads
<1>4. CASE Settle(l)
  <2>0. th[l].s \in Sessions /\ th[l].to \in Ids \cup {None}
      BY <1>4 DEF Settle, At, TypeInv, TypeOK, CallTyped, CallState
  <2>1. th' \in [Threads -> CallState]
      BY <1>4 DEF Settle, Goto, TypeInv, TypeOK, CallState
  <2>2. /\ th'[l].pc \in {"apply", "install"}
        /\ th'[l].pc = "install" => th'[l].to \in Ids /\ th'[l].s \in Sessions
        /\ \A u \in Threads \ {l} : th'[u] = th[u]
      BY <1>4, <2>0 DEF Settle, Goto, TypeInv, TypeOK, CallState
  <2>3. closed' \in [Sessions -> BOOLEAN] /\ settled' \subseteq Sessions
      BY <1>4, <2>0 DEF Settle, TypeInv, TypeOK
  <2> QED BY <1>4, <2>1, <2>2, <2>3
          DEF TypeInv, TypeOK, CallTyped, Settle, gate, locks, Threads
<1>5. CASE Install(l)
  <2>0. th[l].to \in Ids
      BY <1>5 DEF Install, At, TypeInv, CallTyped
  <2>1. th' \in [Threads -> CallState]
    <3> DEFINE c == [th[l] EXCEPT !.pc = "apply", !.s = None, !.to = None]
    <3>1. th[l] \in CallState
        BY DEF TypeInv, TypeOK
    <3>2. c \in CallState
        BY <3>1 DEF CallState
    <3>3. th' = [th EXCEPT ![l] = c]
        BY <1>5 DEF Install, TypeInv, TypeOK
    <3> HIDE DEF c
    <3> QED BY <3>2, <3>3 DEF TypeInv, TypeOK
  <2>2. /\ th'[l].pc = "apply"
        /\ \A u \in Threads \ {l} : th'[u] = th[u]
      BY <1>5 DEF Install, TypeInv, TypeOK, CallState
  <2>3. /\ registry' \in [Ids -> Sessions \cup {None}]
        /\ id' \in [Sessions -> Ids \cup {None}]
      BY <1>5, <2>0 DEF Install, Create, TypeInv, TypeOK
  <2> QED BY <1>5, <2>1, <2>2, <2>3
          DEF TypeInv, TypeOK, CallTyped, Install, gate, locks, Threads
<1>6. ASSUME NEW note \in Ids, PassOver(l, note) \/ InstallRewrite(l, note)
      PROVE  TypeInv'
  <2>1. th' \in [Threads -> CallState]
    <3> DEFINE c == [th[l] EXCEPT !.todo = Done(l, note)]
    <3>1. th[l] \in CallState
        BY DEF TypeInv, TypeOK
    <3>2. c \in CallState
        BY <3>1 DEF CallState, Done
    <3>3. th' = [th EXCEPT ![l] = c]
        BY <1>6 DEF PassOver, InstallRewrite, TypeInv, TypeOK
    <3> HIDE DEF c
    <3> QED BY <3>2, <3>3 DEF TypeInv, TypeOK
  <2>2. /\ th[l].pc = "apply" /\ th'[l].pc = "apply"
        /\ \A u \in Threads \ {l} : th'[u] = th[u]
      BY <1>6 DEF PassOver, InstallRewrite, At, TypeInv, TypeOK, CallState
  <2> QED BY <1>6, <2>1, <2>2 DEF TypeInv, TypeOK, CallTyped, PassOver, InstallRewrite,
                                  sessions, gate, locks, Threads
<1>7. ASSUME NEW note \in Ids, NEW to \in Ids \cup {None}, Deregister(l, note, to)
      PROVE  TypeInv'
  <2>0. registry[note] \in Sessions
      BY <1>7 DEF Deregister, TypeInv, TypeOK
  <2>1. th' \in [Threads -> CallState]
      BY <1>7, <2>0 DEF Deregister, Done, TypeInv, TypeOK, CallState
  <2>2. /\ th'[l].pc = "settle" /\ th'[l].s = registry[note]
        /\ \A u \in Threads \ {l} : th'[u] = th[u]
      BY <1>7 DEF Deregister, TypeInv, TypeOK, CallState
  <2>3. registry' \in [Ids -> Sessions \cup {None}]
      BY <1>7 DEF Deregister, TypeInv, TypeOK
  <2> QED BY <1>7, <2>0, <2>1, <2>2, <2>3
          DEF TypeInv, TypeOK, CallTyped, Deregister, gate, locks, Threads
<1> QED BY <1>1, <1>2, <1>3, <1>4, <1>5, <1>6, <1>7 DEF Body

(* Edits keep them: an edit works on the session its lookup found.           *)
LEMMA EditTyped ==
    ASSUME TypeInv, NEW e \in Editors,
           \/ \E note \in Ids : Edit(e, note) \/ CommitBlock(e, note)
           \/ CommitLease(e) \/ LookUp(e) \/ LookUpFails(e)
           \/ EditTierOne(e) \/ Mutate(e) \/ Reparse(e)
    PROVE  TypeInv'
<1> USE ThreadsAssumption
<1> e \in Threads BY DEF Threads
<1>1. ASSUME NEW note \in Ids, Edit(e, note) \/ CommitBlock(e, note)
      PROVE  TypeInv'
  <2>1. th' \in [Threads -> CallState]
    <3> PICK pc \in {"lookup", "snapshot"}, call \in {"edit", "commit"} :
               th' = [th EXCEPT ![e] = [Idle EXCEPT !.pc = pc, !.call = call, !.note = note]]
        BY <1>1, Zenon DEF Edit, CommitBlock
    <3> DEFINE c == [Idle EXCEPT !.pc = pc, !.call = call, !.note = note]
    <3>1. c \in CallState
        BY DEF Idle, CallState
    <3> HIDE DEF c
    <3>2. th' = [th EXCEPT ![e] = c]
        BY DEF c
    <3> QED BY <3>1, <3>2 DEF TypeInv, TypeOK
  <2>2. /\ th'[e].pc \in {"lookup", "snapshot"} /\ th'[e].note = note
        /\ \A u \in Threads \ {e} : th'[u] = th[u]
    <3>1. CASE Edit(e, note)
        BY <3>1, Zenon DEF Edit, Idle, TypeInv, TypeOK
    <3>2. CASE CommitBlock(e, note)
        BY <3>2, Zenon DEF CommitBlock, Idle, TypeInv, TypeOK
    <3> QED BY <1>1, <3>1, <3>2
  <2>3. leases' \subseteq Editors
      BY <1>1, Zenon DEF Edit, CommitBlock, gate, TypeInv, TypeOK
  <2> QED BY <1>1, <2>1, <2>2, <2>3, Zenon DEF TypeInv, TypeOK, CallTyped, Edit, CommitBlock,
                                        sessions, gate, locks, Threads
<1>2. CASE CommitLease(e)
  <2>1. /\ th' \in [Threads -> CallState]
        /\ \A u \in Threads \ {e} : th'[u] = th[u]
      BY <1>2, GotoTyped, LeaveTyped DEF CommitLease, TypeInv
  <2>2. /\ th'[e].pc \in {"lookup", "release"}
        /\ th'[e].pc = "lookup" => th'[e].note = th[e].note
      BY <1>2, GotoTyped, LeaveTyped DEF CommitLease, TypeInv
  <2>3. leases' \subseteq Editors /\ th[e].pc = "body"
      BY <1>2 DEF CommitLease, At, TypeInv, TypeOK
  <2> QED BY <1>2, <2>1, <2>2, <2>3
          DEF TypeInv, TypeOK, CallTyped, CommitLease, sessions, locks, Threads
<1>3. CASE LookUp(e)
  <2>0. registry[th[e].note] \in Sessions
      BY <1>3 DEF LookUp, At, Found, TypeInv, TypeOK, CallTyped
  <2>1. th' \in [Threads -> CallState]
    <3> DEFINE c == [th[e] EXCEPT !.s = registry[th[e].note],
                             !.pc = IF th[e].call = "edit" THEN "tier1" ELSE "reparse"]
    <3>1. th[e] \in CallState
        BY DEF TypeInv, TypeOK
    <3>2. c \in CallState
        BY ZenonT(60), <2>0, <3>1 DEF CallState
    <3>3. th' = [th EXCEPT ![e] = c]
        BY <1>3 DEF LookUp, TypeInv, TypeOK
    <3> HIDE DEF c
    <3> QED BY <3>2, <3>3 DEF TypeInv, TypeOK
  <2>2. /\ th'[e].pc \in {"tier1", "reparse"} /\ th'[e].s \in Sessions
        /\ \A u \in Threads \ {e} : th'[u] = th[u]
      BY <1>3, <2>0 DEF LookUp, TypeInv, TypeOK, CallState
  <2> QED BY <1>3, <2>1, <2>2
          DEF TypeInv, TypeOK, CallTyped, LookUp, sessions, gate, locks, Threads
<1>4. CASE LookUpFails(e) \/ Mutate(e) \/ Reparse(e)
  <2>1. /\ th' \in [Threads -> CallState] /\ th'[e].pc \in {"idle", "release"}
        /\ \A u \in Threads \ {e} : th'[u] = th[u]
      BY <1>4, LeaveTyped DEF LookUpFails, Mutate, Reparse, EndLease, Return, TypeInv
  <2>2. leases' \subseteq Editors
      BY <1>4 DEF LookUpFails, Mutate, Reparse, EndLease, TypeInv, TypeOK
  <2>3. tier1' \in [Sessions -> Threads \cup {None}] /\ wlock' = wlock
      BY <1>4 DEF LookUpFails, Mutate, Reparse, locks, TypeInv, TypeOK
  <2>4. UNCHANGED <<sessions, lifecycle, active>>
      BY <1>4 DEF LookUpFails, Mutate, Reparse
  <2> QED BY <2>1, <2>2, <2>3, <2>4 DEF TypeInv, TypeOK, CallTyped, sessions, Threads
<1>5. CASE EditTierOne(e)
  <2>1. /\ th' \in [Threads -> CallState] /\ th'[e].pc = "mutate" /\ th'[e].s = th[e].s
        /\ \A u \in Threads \ {e} : th'[u] = th[u]
      BY <1>5, GotoTyped DEF EditTierOne, TypeInv
  <2>2. tier1' \in [Sessions -> Threads \cup {None}] /\ th[e].pc = "tier1"
      BY <1>5 DEF EditTierOne, At, TypeInv, TypeOK
  <2> QED BY <1>5, <2>1, <2>2
          DEF TypeInv, TypeOK, CallTyped, EditTierOne, sessions, gate, Threads
<1> QED BY <1>1, <1>2, <1>3, <1>4, <1>5

(* Writes keep them: a writer keeps the session it was handed.               *)
LEMMA WriteTyped ==
    ASSUME TypeInv, NEW w \in Writers,
           \/ \E s \in Sessions : Flush(w, s)
           \/ \E call \in {"reload", "close"}, note \in Ids : Call(w, call, note)
           \/ Writing(w)
    PROVE  TypeInv'
<1> USE ThreadsAssumption
<1> w \in Threads BY DEF Threads
<1>1. ASSUME NEW s \in Sessions, NEW call \in {"flush", "reload", "close"}, Begin(w, call, s)
      PROVE  TypeInv'
  <2>1. th' \in [Threads -> CallState]
    <3> DEFINE c == [Idle EXCEPT !.pc = "write", !.call = call, !.s = s]
    <3>1. c \in CallState
        BY DEF Idle, CallState
    <3>2. th' = [th EXCEPT ![w] = c]
        BY <1>1 DEF Begin
    <3> HIDE DEF c
    <3> QED BY <3>1, <3>2 DEF TypeInv, TypeOK
  <2>2. /\ th'[w].s = s
        /\ \A u \in Threads \ {w} : th'[u] = th[u]
      BY <1>1 DEF Begin, Idle, TypeInv, TypeOK
  <2> QED BY <1>1, <2>1, <2>2
          DEF TypeInv, TypeOK, CallTyped, Begin, sessions, gate, locks, Threads
<1>2. ASSUME NEW s \in Sessions, Flush(w, s)
      PROVE  TypeInv'
    BY <1>1, <1>2 DEF Flush
<1>3. ASSUME NEW call \in {"reload", "close"}, NEW note \in Ids, Call(w, call, note)
      PROVE  TypeInv'
  <2>1. registry[note] \in Sessions
      BY <1>3 DEF Call, TypeInv, TypeOK
  <2> QED BY <1>1, <1>3, <2>1 DEF Call
<1>4. CASE Writing(w)
  <2>1. th' \in [Threads -> CallState] /\ \A u \in Threads \ {w} : th'[u] = th[u]
      BY <1>4, GotoTyped, LeaveTyped
         DEF Writing, WriteLock, WriteSkipped, CloseUnedited, Written, ReloadTierOne,
             Reloaded, Retire, Remove, Return, TypeInv
  <2>2. th'[w].pc = "idle" \/ (th'[w].s = th[w].s /\ th[w].s \in Sessions)
      BY <1>4, GotoTyped, LeaveTyped
         DEF Writing, WriteLock, WriteSkipped, CloseUnedited, Written, ReloadTierOne,
             Reloaded, Retire, Remove, Return, At, TypeInv, CallTyped
  <2>3. /\ wlock' \in [Sessions -> Threads \cup {None}]
        /\ tier1' \in [Sessions -> Threads \cup {None}]
      BY <1>4 DEF Writing, WriteLock, WriteSkipped, CloseUnedited, Written, ReloadTierOne,
                  Reloaded, Retire, Remove, locks, TypeInv, TypeOK
  <2>4. closed' \in [Sessions -> BOOLEAN]
      BY <1>4 DEF Writing, WriteLock, WriteSkipped, CloseUnedited, Written, ReloadTierOne,
                  Reloaded, Retire, Remove, sessions, TypeInv, TypeOK
  <2>5. /\ registry' \in [Ids -> Sessions \cup {None}]
        /\ UNCHANGED <<id, settled, gate>>
      BY <1>4 DEF Writing, WriteLock, WriteSkipped, CloseUnedited, Written, ReloadTierOne,
                  Reloaded, Retire, Remove, sessions, TypeInv, TypeOK
  <2> QED BY <2>1, <2>2, <2>3, <2>4, <2>5 DEF TypeInv, TypeOK, CallTyped, gate, Threads
<1> QED BY <1>2, <1>3, <1>4

(* Every step keeps the types.                                               *)
LEMMA TypeNext == TypeInv /\ [Next]_vars => TypeInv'
<1> SUFFICES ASSUME TypeInv, [Next]_vars PROVE TypeInv'
    OBVIOUS
<1>1. ASSUME NEW l \in Operations,
             Operation(l) \/ \E call \in {"open", "delete", "reidentify"} : Request(l, call)
      PROVE  TypeInv'
    BY <1>1, GateTyped, LocksTyped, BodyTyped DEF Operation
<1>2. ASSUME NEW e \in Editors,
             Editing(e) \/ \E note \in Ids : Edit(e, note) \/ CommitBlock(e, note)
      PROVE  TypeInv'
    BY <1>2, LocksTyped, EditTyped DEF Editing
<1>3. ASSUME NEW w \in Writers,
             \/ \E s \in Sessions : Flush(w, s)
             \/ \E call \in {"reload", "close"}, note \in Ids : Call(w, call, note)
             \/ Writing(w)
      PROVE  TypeInv'
    BY <1>3, WriteTyped
<1>4. CASE UNCHANGED vars
    BY <1>4 DEF vars, sessions, gate, locks, TypeInv, TypeOK, CallTyped
<1> QED BY <1>1, <1>2, <1>3, <1>4 DEF Next, Progress

(* No call is in progress when a Workspace has just been opened.            *)
LEMMA TypeInit == Init => TypeInv
<1> SUFFICES ASSUME Init PROVE TypeInv
    OBVIOUS
<1>1. th \in [Threads -> CallState] /\ \A t \in Threads : th[t].pc = "idle"
    BY IdleTyped DEF Init, Idle
<1>2. closed \in [Sessions -> BOOLEAN] /\ active \in BOOLEAN
    BY DEF Init
<1> QED BY <1>1, <1>2 DEF Init, TypeInv, TypeOK, CallTyped, Threads

(* The registry, the locks and the calls in progress keep their types.       *)
THEOREM TypesHold == Spec => []TypeOK
<1>1. TypeInv => TypeOK
    BY DEF TypeInv
<1> QED BY <1>1, TypeInit, TypeNext, PTL DEF Spec

-----------------------------------------------------------------------------
(* The admission gate.                                                       *)

(* From LifecycleLock to Unlock an operation holds the lifecycle lock, from  *)
(* CloseGate to Reopen the gate is closed, and an edit that has been         *)
(* admitted is counted until its call ends.                                  *)
GateHeld ==
    \A l \in Operations :
        /\ th[l].pc \in {"gate", "drain", "unlock"} \cup Inside => lifecycle = l
        /\ th[l].pc \in {"drain"} \cup Inside => active = TRUE

LeaseHeld ==
    \A e \in Editors : th[e].pc \in {"lookup", "tier1", "mutate", "reparse"} => e \in leases

GateInv == GateHeld /\ LeaseHeld /\ NoEditInsideOperation

(* What an operation does under the gate, with_write_locks and its body,     *)
(* leaves the gate and the other threads alone.                              *)
LEMMA InsideStep ==
    ASSUME TypeInv, NEW l \in Operations, WithWriteLocks(l) \/ Body(l)
    PROVE  /\ th[l].pc \in Inside /\ th'[l].pc \in Inside
           /\ \A u \in Threads \ {l} : th'[u] = th[u]
           /\ UNCHANGED gate
<1> l \in Threads BY DEF Threads
<1>1. CASE WithWriteLocks(l)
    BY <1>1, LeaveTyped
       DEF WithWriteLocks, Snapshot, TakeLock, Recheck, ReleaseLocks, Inside, At,
           TypeInv, TypeOK, CallState
<1>2. CASE Open(l) \/ BodyEnds(l)
    BY <1>2, LeaveTyped DEF Open, BodyEnds, Inside, At, TypeInv
<1>3. CASE Plan(l) \/ Install(l)
    BY <1>3 DEF Plan, Install, Inside, At, TypeInv, TypeOK, CallState
<1>4. CASE Settle(l)
    BY <1>4 DEF Settle, Goto, Inside, At, TypeInv, TypeOK, CallState
<1>5. ASSUME NEW note \in Ids,
             \/ PassOver(l, note) \/ InstallRewrite(l, note)
             \/ \E to \in Ids \cup {None} : Deregister(l, note, to)
      PROVE  /\ th[l].pc \in Inside /\ th'[l].pc \in Inside
             /\ \A u \in Threads \ {l} : th'[u] = th[u]
             /\ UNCHANGED gate
    BY <1>5 DEF PassOver, InstallRewrite, Deregister, Inside, At, TypeInv, TypeOK, CallState
<1> QED BY <1>1, <1>2, <1>3, <1>4, <1>5 DEF Body

(* A step of an operation keeps the gate's invariant: the lock is taken when *)
(* nobody has it, and the drain waits for the last lease.                    *)
LEMMA GateAroundOperation ==
    ASSUME TypeInv, GateInv, NEW l \in Operations,
           Operation(l) \/ \E call \in {"open", "delete", "reidentify"} : Request(l, call)
    PROVE  GateInv'
<1> USE ThreadsAssumption, NoneAssumption
<1> l \in Threads /\ l # None BY DEF Threads
<1>1. CASE \E call \in {"open", "delete", "reidentify"} : Request(l, call)
  <2>1. th'[l].pc = "request" /\ \A u \in Threads \ {l} : th'[u] = th[u]
      BY <1>1 DEF Request, Idle, TypeInv, TypeOK
  <2> QED BY <1>1, <2>1
          DEF Request, gate, GateInv, GateHeld, LeaseHeld, NoEditInsideOperation, Inside, Threads
<1>2. CASE LifecycleLock(l)
  <2>1. th'[l].pc = "gate" /\ \A u \in Threads \ {l} : th'[u] = th[u]
      BY <1>2, GotoTyped DEF LifecycleLock, TypeInv
  <2> QED BY <1>2, <2>1 DEF LifecycleLock, GateInv, GateHeld, LeaseHeld,
                            NoEditInsideOperation, Inside, Threads
<1>3. CASE CloseGate(l)
  <2>1. /\ th[l].pc = "gate" /\ th'[l].pc = "drain"
        /\ \A u \in Threads \ {l} : th'[u] = th[u]
      BY <1>3, GotoTyped DEF CloseGate, At, TypeInv
  <2>2. active' = TRUE /\ lifecycle' = lifecycle /\ leases' = leases
      BY <1>3 DEF CloseGate
  <2> QED BY <2>1, <2>2
          DEF GateInv, GateHeld, LeaseHeld, NoEditInsideOperation, Inside, Threads
<1>4. CASE Drain(l)
  <2>1. /\ th[l].pc = "drain" /\ th'[l].pc \in {"open", "snapshot"}
        /\ \A u \in Threads \ {l} : th'[u] = th[u]
      BY <1>4, GotoTyped DEF Drain, At, TypeInv
  <2> QED BY <1>4, <2>1 DEF Drain, Drained, gate, GateInv, GateHeld, LeaseHeld,
                            NoEditInsideOperation, Inside, Threads
<1>5. CASE WithWriteLocks(l) \/ Body(l)
    BY <1>5, InsideStep DEF gate, GateInv, GateHeld, LeaseHeld, NoEditInsideOperation, Threads
<1>6. CASE Reopen(l)
  <2>1. /\ th[l].pc = "reopen" /\ th'[l].pc = "unlock"
        /\ \A u \in Threads \ {l} : th'[u] = th[u]
      BY <1>6, GotoTyped DEF Reopen, At, TypeInv
  <2>2. lifecycle' = lifecycle /\ leases' = leases
      BY <1>6 DEF Reopen
  <2>3. \A k \in Operations \ {l} : th[k].pc \notin {"drain"} \cup Inside
      BY <2>1 DEF GateInv, GateHeld, Inside
  <2> QED BY <2>1, <2>2, <2>3
          DEF GateInv, GateHeld, LeaseHeld, NoEditInsideOperation, Inside, Threads
<1>7. CASE Unlock(l)
  <2>1. /\ th[l].pc = "unlock" /\ th'[l].pc = "idle"
        /\ \A u \in Threads \ {l} : th'[u] = th[u]
      BY <1>7, LeaveTyped DEF Unlock, Return, At, TypeInv
  <2>2. \A k \in Operations \ {l} : th[k].pc \notin {"gate", "drain", "unlock"} \cup Inside
      BY <2>1 DEF GateInv, GateHeld
  <2> QED BY <1>7, <2>1, <2>2 DEF Unlock, GateInv, GateHeld, LeaseHeld,
                                  NoEditInsideOperation, Inside, Threads
<1> QED BY <1>1, <1>2, <1>3, <1>4, <1>5, <1>6, <1>7 DEF Operation

(* A step of an operation is one of its own thread.                          *)
LEMMA OperationStep ==
    ASSUME TypeInv, NEW l \in Operations,
           Operation(l) \/ \E call \in {"open", "delete", "reidentify"} : Request(l, call)
    PROVE  \A u \in Threads \ {l} : th'[u] = th[u]
<1> l \in Threads BY DEF Threads
<1>1. CASE WithWriteLocks(l) \/ Body(l)
    BY <1>1, InsideStep
<1>2. CASE \E call \in {"open", "delete", "reidentify"} : Request(l, call)
    BY <1>2 DEF Request, TypeInv, TypeOK
<1>3. CASE LifecycleLock(l) \/ CloseGate(l) \/ Drain(l) \/ Reopen(l)
    BY <1>3, GotoTyped DEF LifecycleLock, CloseGate, Drain, Reopen, TypeInv
<1>4. CASE Unlock(l)
    BY <1>4, LeaveTyped DEF Unlock, Return, TypeInv
<1> QED BY <1>1, <1>2, <1>3, <1>4 DEF Operation

(* An editor leaves the lifecycle lock and the gate alone, and is counted    *)
(* only when the gate is open.                                               *)
LEMMA EditorStep ==
    ASSUME TypeInv, LeaseHeld, NEW e \in Editors,
           Editing(e) \/ \E note \in Ids : Edit(e, note) \/ CommitBlock(e, note)
    PROVE  /\ \A u \in Threads \ {e} : th'[u] = th[u]
           /\ lifecycle' = lifecycle /\ active' = active
           /\ leases' \subseteq leases \/ (leases' = leases \cup {e} /\ ~active)
           /\ leases \ {e} \subseteq leases'
           /\ th'[e].pc \in {"lookup", "tier1", "mutate", "reparse"} => e \in leases'
<1> USE ThreadsAssumption
<1> e \in Threads /\ e \notin Operations BY DEF Threads
<1>1. ASSUME NEW note \in Ids, Edit(e, note) \/ CommitBlock(e, note)
      PROVE  /\ \A u \in Threads \ {e} : th'[u] = th[u]
             /\ lifecycle' = lifecycle /\ active' = active
             /\ leases' \subseteq leases \/ (leases' = leases \cup {e} /\ ~active)
             /\ leases \ {e} \subseteq leases'
             /\ th'[e].pc \in {"lookup", "tier1", "mutate", "reparse"} => e \in leases'
  <2>1. CASE Edit(e, note)
      BY <2>1, Zenon DEF Edit, Admitted, Idle, TypeInv, TypeOK
  <2>2. CASE CommitBlock(e, note)
      BY <2>2, Zenon DEF CommitBlock, gate, Idle, TypeInv, TypeOK
  <2> QED BY <1>1, <2>1, <2>2
<1>2. CASE WithWriteLocks(e)
  <2>1. UNCHANGED gate
      BY <1>2 DEF WithWriteLocks, Snapshot, TakeLock, Recheck, ReleaseLocks
  <2>2. CASE Snapshot(e) \/ TakeLock(e) \/ Recheck(e)
    <3>1. th[e].pc \in {"snapshot", "take"} /\ \A u \in Threads \ {e} : th'[u] = th[u]
        BY <2>2 DEF Snapshot, TakeLock, Recheck, At, TypeInv, TypeOK
    <3>2. th'[e].pc \in {"take", "body"}
        BY <2>2 DEF Snapshot, TakeLock, Recheck, At, TypeInv, TypeOK, CallState
    <3> QED BY <2>1, <3>1, <3>2 DEF gate
  <2>3. CASE ReleaseLocks(e)
      BY <2>1, <2>3, LeaveTyped DEF ReleaseLocks, Return, gate, TypeInv
  <2> QED BY <1>2, <2>2, <2>3 DEF WithWriteLocks
<1>3. CASE CommitLease(e)
    BY <1>3, LeaveTyped, GotoTyped DEF CommitLease, Admitted, TypeInv
<1>4. CASE LookUp(e)
    BY <1>4 DEF LookUp, LeaseHeld, gate, At, TypeInv, TypeOK, CallState
<1>5. CASE LookUpFails(e) \/ Mutate(e) \/ Reparse(e)
    BY <1>5, LeaveTyped DEF LookUpFails, Mutate, Reparse, EndLease, Return, TypeInv
<1>6. CASE EditTierOne(e)
    BY <1>6, GotoTyped DEF EditTierOne, LeaseHeld, gate, At, TypeInv
<1> QED BY <1>1, <1>2, <1>3, <1>4, <1>5, <1>6 DEF Editing

(* A writer knows neither the lifecycle lock nor the gate.                   *)
LEMMA WriterStep ==
    ASSUME TypeInv, NEW w \in Writers,
           \/ \E s \in Sessions : Flush(w, s)
           \/ \E call \in {"reload", "close"}, note \in Ids : Call(w, call, note)
           \/ Writing(w)
    PROVE  UNCHANGED gate /\ \A u \in Threads \ {w} : th'[u] = th[u]
<1> w \in Threads BY DEF Threads
<1>1. CASE Writing(w)
    BY <1>1, GotoTyped, LeaveTyped
       DEF Writing, WriteLock, WriteSkipped, CloseUnedited, Written, ReloadTierOne,
           Reloaded, Retire, Remove, Return, TypeInv, gate
<1> QED BY <1>1, Zenon DEF Flush, Call, Begin, TypeInv, TypeOK

(* Every step keeps the gate's invariant.                                    *)
LEMMA GateNext == TypeInv /\ GateInv /\ [Next]_vars => GateInv'
<1> SUFFICES ASSUME TypeInv, GateInv, [Next]_vars PROVE GateInv'
    OBVIOUS
<1> USE ThreadsAssumption
<1>1. ASSUME NEW l \in Operations,
             Operation(l) \/ \E call \in {"open", "delete", "reidentify"} : Request(l, call)
      PROVE  GateInv'
    BY <1>1, GateAroundOperation
<1>2. ASSUME NEW e \in Editors,
             Editing(e) \/ \E note \in Ids : Edit(e, note) \/ CommitBlock(e, note)
      PROVE  GateInv'
  <2>1. /\ \A u \in Threads \ {e} : th'[u] = th[u]
        /\ lifecycle' = lifecycle /\ active' = active
        /\ leases' \subseteq leases \/ (leases' = leases \cup {e} /\ ~active)
        /\ leases \ {e} \subseteq leases'
        /\ th'[e].pc \in {"lookup", "tier1", "mutate", "reparse"} => e \in leases'
      BY <1>2, EditorStep DEF GateInv
  <2>2. GateHeld'
      BY <2>1 DEF GateInv, GateHeld, Threads
  <2>3. LeaseHeld'
      BY <2>1 DEF GateInv, LeaseHeld, Threads
  <2>4. NoEditInsideOperation'
      BY <2>1 DEF GateInv, GateHeld, NoEditInsideOperation, Inside, Threads
  <2> QED BY <2>2, <2>3, <2>4 DEF GateInv
<1>3. ASSUME NEW w \in Writers,
             \/ \E s \in Sessions : Flush(w, s)
             \/ \E call \in {"reload", "close"}, note \in Ids : Call(w, call, note)
             \/ Writing(w)
      PROVE  GateInv'
  <2>1. UNCHANGED gate /\ \A u \in Threads \ {w} : th'[u] = th[u]
      BY <1>3, WriterStep
  <2> QED BY <2>1 DEF gate, GateInv, GateHeld, LeaseHeld, NoEditInsideOperation, Threads
<1>4. CASE UNCHANGED vars
    BY <1>4 DEF vars, gate, GateInv, GateHeld, LeaseHeld, NoEditInsideOperation
<1> QED BY <1>1, <1>2, <1>3, <1>4 DEF Next, Progress

(* The gate is open and nobody is admitted at first.                        *)
LEMMA GateInit == Init => GateInv
<1> SUFFICES ASSUME Init PROVE GateInv
    OBVIOUS
<1>1. \A t \in Threads : th[t].pc = "idle"
    BY DEF Init, Idle
<1> QED BY <1>1 DEF GateInv, GateHeld, LeaseHeld, NoEditInsideOperation, Inside, Threads

(* No edit holds a lease while an operation is past its drain: what          *)
(* with_lifecycle_lock's gate is for.                                        *)
THEOREM EditsStayOutside == Spec => []NoEditInsideOperation
<1>1. GateInv => NoEditInsideOperation
    BY DEF GateInv
<1> QED BY <1>1, TypeInit, TypeNext, GateInit, GateNext, PTL DEF Spec

-----------------------------------------------------------------------------
(* The registry: a session that an operation took out of it is gone.         *)

(* A session is registered under its own id.                                 *)
RegistryFits == \A i \in Ids : registry[i] # None => id[registry[i]] = i

(* What an operation retired is closed and not registered.                   *)
SettledGone ==
    \A s \in settled : closed[s] = TRUE /\ id[s] # None /\ \A i \in Ids : registry[i] # s

(* Nor is the session that carry_session_forward or discard_session has in   *)
(* hand.                                                                     *)
InHandGone ==
    \A l \in Operations :
        th[l].pc = "settle" => id[th[l].s] # None /\ \A i \in Ids : registry[i] # th[l].s

RegistryInv == RegistryFits /\ SettledGone /\ InHandGone

(* A step that changes no session and gets no operation to a settling leaves *)
(* the invariant as it is.                                                   *)
LEMMA RegistryQuiet ==
    ASSUME RegistryInv, UNCHANGED sessions,
           \A l \in Operations : th'[l].pc = "settle" => th'[l] = th[l]
    PROVE  RegistryInv'
BY DEF RegistryInv, RegistryFits, SettledGone, InHandGone, sessions

(* A session that is created, by an open or a move, was none before.         *)
LEMMA RegistryCreate ==
    ASSUME TypeInv, RegistryInv, NEW s \in Sessions, NEW note \in Ids, Create(s, note),
           UNCHANGED <<closed, settled>>,
           \A l \in Operations : th'[l].pc = "settle" => th'[l] = th[l]
    PROVE  RegistryInv'
<1> USE NoneAssumption
<1>1. RegistryFits'
    BY DEF RegistryInv, RegistryFits, Create, TypeInv, TypeOK
<1>2. SettledGone'
    BY DEF RegistryInv, SettledGone, Create, TypeInv, TypeOK
<1>3. InHandGone'
    BY DEF RegistryInv, InHandGone, Create, TypeInv, TypeOK, CallTyped
<1> QED BY <1>1, <1>2, <1>3 DEF RegistryInv

(* A step of an operation keeps the registry's invariant: the registry gives *)
(* a session up before it is retired.                                        *)
LEMMA RegistryAroundOperation ==
    ASSUME TypeInv, RegistryInv, NEW l \in Operations,
           Operation(l) \/ \E call \in {"open", "delete", "reidentify"} : Request(l, call)
    PROVE  RegistryInv'
<1> USE ThreadsAssumption, NoneAssumption
<1> l \in Threads BY DEF Threads
<1>1. CASE \/ \E call \in {"open", "delete", "reidentify"} : Request(l, call)
           \/ LifecycleLock(l) \/ CloseGate(l) \/ Drain(l) \/ Reopen(l) \/ Unlock(l)
  <2>1. UNCHANGED sessions
      BY <1>1 DEF Request, LifecycleLock, CloseGate, Drain, Reopen, Unlock
  <2>2. th'[l].pc # "settle" /\ \A u \in Threads \ {l} : th'[u] = th[u]
    <3>1. CASE \E call \in {"open", "delete", "reidentify"} : Request(l, call)
        BY <3>1 DEF Request, Idle, TypeInv, TypeOK
    <3>2. CASE LifecycleLock(l) \/ CloseGate(l) \/ Drain(l) \/ Reopen(l)
        BY <3>2, GotoTyped DEF LifecycleLock, CloseGate, Drain, Reopen, TypeInv
    <3>3. CASE Unlock(l)
        BY <3>3, LeaveTyped DEF Unlock, Return, TypeInv
    <3> QED BY <1>1, <3>1, <3>2, <3>3
  <2> QED BY <2>1, <2>2, RegistryQuiet DEF Threads
<1>2. CASE WithWriteLocks(l)
  <2>1. UNCHANGED sessions
      BY <1>2 DEF WithWriteLocks, Snapshot, TakeLock, Recheck, ReleaseLocks
  <2>2. th'[l].pc # "settle" /\ \A u \in Threads \ {l} : th'[u] = th[u]
      BY <1>2, LeaveTyped DEF WithWriteLocks, Snapshot, TakeLock, Recheck, ReleaseLocks,
                              Return, At, TypeInv, TypeOK, CallState
  <2> QED BY <2>1, <2>2, RegistryQuiet DEF Threads
<1>3. CASE Open(l)
  <2>1. \A k \in Operations : th'[k].pc = "settle" => th'[k] = th[k]
      BY <1>3, LeaveTyped DEF Open, TypeInv, Threads
  <2>2. CASE UNCHANGED <<registry, id>>
      BY <1>3, <2>1, <2>2, RegistryQuiet DEF Open, sessions
  <2>3. CASE \E note \in Ids, s \in Sessions : Create(s, note)
      BY <1>3, <2>1, <2>3, RegistryCreate DEF Open
  <2> QED BY <1>3, <2>2, <2>3 DEF Open
<1>4. CASE Plan(l) \/ BodyEnds(l) \/ \E note \in Ids : PassOver(l, note) \/ InstallRewrite(l, note)
  <2>1. UNCHANGED sessions
      BY <1>4 DEF Plan, BodyEnds, PassOver, InstallRewrite
  <2>2. \A k \in Operations : th'[k].pc = "settle" => th'[k] = th[k]
      BY <1>4, LeaveTyped DEF Plan, BodyEnds, PassOver, InstallRewrite, At,
                              TypeInv, TypeOK, CallState, Threads
  <2> QED BY <2>1, <2>2, RegistryQuiet
<1>5. ASSUME NEW note \in Ids, NEW to \in Ids \cup {None}, Deregister(l, note, to)
      PROVE  RegistryInv'
  <2>1. /\ th'[l].s = registry[note] /\ registry[note] # None
        /\ \A k \in Operations \ {l} : th'[k] = th[k]
      BY <1>5 DEF Deregister, TypeInv, TypeOK, CallState, Threads
  <2>2. /\ registry' = [registry EXCEPT ![note] = None]
        /\ UNCHANGED <<id, closed, settled>>
      BY <1>5 DEF Deregister
  <2>3. RegistryFits'
      BY <2>2 DEF RegistryInv, RegistryFits, TypeInv, TypeOK
  <2>4. SettledGone'
      BY <2>2 DEF RegistryInv, SettledGone, TypeInv, TypeOK
  <2>5. id[registry[note]] = note /\ \A i \in Ids : registry'[i] # registry[note]
      BY <2>1, <2>2 DEF RegistryInv, RegistryFits, TypeInv, TypeOK
  <2>6. InHandGone'
      BY <2>1, <2>2, <2>5 DEF RegistryInv, InHandGone, TypeInv, TypeOK, CallTyped
  <2> QED BY <2>3, <2>4, <2>6 DEF RegistryInv
<1>6. CASE Settle(l)
  <2>1. /\ th[l].pc = "settle" /\ th'[l].pc # "settle" /\ th[l].s \in Sessions
        /\ \A k \in Operations \ {l} : th'[k] = th[k]
      BY <1>6 DEF Settle, Goto, At, TypeInv, TypeOK, CallTyped, CallState, Threads
  <2>2. /\ closed' = [closed EXCEPT ![th[l].s] = TRUE] /\ settled' = settled \cup {th[l].s}
        /\ UNCHANGED <<registry, id>>
      BY <1>6 DEF Settle
  <2>3. RegistryFits' /\ InHandGone'
      BY <2>1, <2>2 DEF RegistryInv, RegistryFits, InHandGone
  <2>4. SettledGone'
      BY <2>1, <2>2 DEF RegistryInv, SettledGone, InHandGone, TypeInv, TypeOK
  <2> QED BY <2>3, <2>4 DEF RegistryInv
<1>7. CASE Install(l)
  <2>1. /\ th[l].to \in Ids
        /\ \A k \in Operations : th'[k].pc = "settle" => th'[k] = th[k]
      BY <1>7 DEF Install, At, TypeInv, TypeOK, CallTyped, CallState, Threads
  <2> QED BY <1>7, <2>1, RegistryCreate DEF Install
<1> QED BY <1>1, <1>2, <1>3, <1>4, <1>5, <1>6, <1>7 DEF Operation, Body

(* A writer marks a session closed and takes an entry away, and adds none.   *)
LEMMA RegistryAroundWriter ==
    ASSUME TypeInv, RegistryInv, NEW w \in Writers,
           \/ \E s \in Sessions : Flush(w, s)
           \/ \E call \in {"reload", "close"}, note \in Ids : Call(w, call, note)
           \/ Writing(w)
    PROVE  RegistryInv'
<1> USE ThreadsAssumption, NoneAssumption
<1>1. \A k \in Operations : th'[k] = th[k]
    BY WriterStep DEF Threads
<1>2. /\ UNCHANGED <<id, settled>>
      /\ \A i \in Ids : registry'[i] \in {registry[i], None}
      /\ \A s \in Sessions : closed[s] = TRUE => closed'[s] = TRUE
    BY Zenon DEF Flush, Call, Begin, Writing, WriteLock, WriteSkipped, CloseUnedited, Written,
           ReloadTierOne, Reloaded, Retire, Remove, sessions, TypeInv, TypeOK
<1>3. RegistryFits'
    BY <1>2 DEF RegistryInv, RegistryFits
<1>4. SettledGone'
    BY <1>2 DEF RegistryInv, SettledGone, TypeInv, TypeOK
<1>5. InHandGone'
    BY <1>1, <1>2 DEF RegistryInv, InHandGone, TypeInv, CallTyped
<1> QED BY <1>3, <1>4, <1>5 DEF RegistryInv

(* An editor leaves the sessions to the operations.                          *)
LEMMA EditorLeavesSessions ==
    ASSUME NEW e \in Editors,
           Editing(e) \/ \E note \in Ids : Edit(e, note) \/ CommitBlock(e, note)
    PROVE  UNCHANGED sessions
BY Zenon DEF Editing, WithWriteLocks, Snapshot, TakeLock, Recheck, ReleaseLocks, CommitLease,
       LookUp, LookUpFails, EditTierOne, Mutate, Reparse, Edit, CommitBlock

(* Every step keeps the registry's invariant.                                *)
LEMMA RegistryNext == TypeInv /\ GateInv /\ RegistryInv /\ [Next]_vars => RegistryInv'
<1> SUFFICES ASSUME TypeInv, GateInv, RegistryInv, [Next]_vars PROVE RegistryInv'
    OBVIOUS
<1> USE ThreadsAssumption
<1>1. ASSUME NEW l \in Operations,
             Operation(l) \/ \E call \in {"open", "delete", "reidentify"} : Request(l, call)
      PROVE  RegistryInv'
    BY <1>1, RegistryAroundOperation
<1>2. ASSUME NEW e \in Editors,
             Editing(e) \/ \E note \in Ids : Edit(e, note) \/ CommitBlock(e, note)
      PROVE  RegistryInv'
  <2>1. \A k \in Operations : th'[k] = th[k]
      BY <1>2, EditorStep DEF GateInv, Threads
  <2> QED BY <1>2, <2>1, EditorLeavesSessions, RegistryQuiet
<1>3. ASSUME NEW w \in Writers,
             \/ \E s \in Sessions : Flush(w, s)
             \/ \E call \in {"reload", "close"}, note \in Ids : Call(w, call, note)
             \/ Writing(w)
      PROVE  RegistryInv'
    BY <1>3, RegistryAroundWriter
<1>4. CASE UNCHANGED vars
    BY <1>4, RegistryQuiet DEF vars
<1> QED BY <1>1, <1>2, <1>3, <1>4 DEF Next, Progress

(* No session is open at first.                                             *)
LEMMA RegistryInit == Init => RegistryInv
<1> SUFFICES ASSUME Init PROVE RegistryInv
    OBVIOUS
<1>1. \A t \in Threads : th[t].pc = "idle"
    BY DEF Init, Idle
<1> QED BY <1>1 DEF Init, RegistryInv, RegistryFits, SettledGone, InHandGone, Threads

(* Every step keeps edits on live sessions: a lookup finds none that is      *)
(* retired, and an operation that retires one has drained the edits.         *)
LEMMA EditOnLiveNext ==
    TypeInv /\ GateInv /\ RegistryInv /\ EditOnLiveSession /\ [Next]_vars => EditOnLiveSession'
<1> SUFFICES ASSUME TypeInv, GateInv, RegistryInv, EditOnLiveSession, [Next]_vars
             PROVE  EditOnLiveSession'
    OBVIOUS
<1> USE ThreadsAssumption
<1>1. ASSUME NEW l \in Operations,
             Operation(l) \/ \E call \in {"open", "delete", "reidentify"} : Request(l, call)
      PROVE  EditOnLiveSession'
  <2>1. \A e \in Editors : th'[e] = th[e]
      BY <1>1, OperationStep DEF Threads
  <2>2. CASE Settle(l)
    <3>1. leases = {}
        BY <2>2 DEF Settle, At, GateInv, NoEditInsideOperation, Inside
    <3> QED BY <2>1, <3>1 DEF GateInv, LeaseHeld, EditOnLiveSession
  <2>3. CASE ~Settle(l)
    <3>1. settled' = settled
        BY <1>1, <2>3, Zenon
           DEF Operation, Request, LifecycleLock, CloseGate, Drain, Reopen, Unlock,
               WithWriteLocks, Snapshot, TakeLock, Recheck, ReleaseLocks, Body, Open, Plan,
               BodyEnds, Install, PassOver, InstallRewrite, Deregister, sessions
    <3> QED BY <2>1, <3>1 DEF EditOnLiveSession
  <2> QED BY <2>2, <2>3
<1>2. ASSUME NEW e \in Editors,
             Editing(e) \/ \E note \in Ids : Edit(e, note) \/ CommitBlock(e, note)
      PROVE  EditOnLiveSession'
  <2>1. settled' = settled /\ registry' = registry
      BY <1>2, EditorLeavesSessions DEF sessions
  <2>2. \A u \in Threads \ {e} : th'[u] = th[u]
      BY <1>2, EditorStep DEF GateInv
  <2>3. th'[e].pc \in {"tier1", "mutate", "reparse"} => th'[e].s \notin settled
    <3> e \in Threads BY DEF Threads
    <3>1. CASE LookUp(e)
      <4>1. th[e].note \in Ids /\ th'[e].s = registry[th[e].note]
          BY <3>1 DEF LookUp, At, TypeInv, TypeOK, CallTyped, CallState
      <4> QED BY <4>1 DEF RegistryInv, SettledGone
    <3>2. CASE EditTierOne(e)
        BY <3>2, GotoTyped DEF EditTierOne, At, TypeInv, EditOnLiveSession
    <3>3. CASE LookUpFails(e) \/ Mutate(e) \/ Reparse(e)
        BY <3>3, LeaveTyped DEF LookUpFails, Mutate, Reparse, EndLease, Return, TypeInv
    <3>4. CASE CommitLease(e)
        BY <3>4, LeaveTyped, GotoTyped DEF CommitLease, TypeInv
    <3>5. CASE WithWriteLocks(e)
        BY <3>5, LeaveTyped DEF WithWriteLocks, Snapshot, TakeLock, Recheck, ReleaseLocks,
                                Return, At, TypeInv, TypeOK, CallState
    <3>6. ASSUME NEW note \in Ids, Edit(e, note) \/ CommitBlock(e, note)
          PROVE  th'[e].pc \in {"lookup", "snapshot"}
      <4>1. CASE Edit(e, note)
          BY <4>1 DEF Edit, Idle, TypeInv, TypeOK
      <4>2. CASE CommitBlock(e, note)
          BY <4>2 DEF CommitBlock, Idle, TypeInv, TypeOK
      <4> QED BY <3>6, <4>1, <4>2
    <3> QED BY <1>2, <3>1, <3>2, <3>3, <3>4, <3>5, <3>6 DEF Editing
  <2> QED BY <2>1, <2>2, <2>3 DEF EditOnLiveSession, Threads
<1>3. ASSUME NEW w \in Writers,
             \/ \E s \in Sessions : Flush(w, s)
             \/ \E call \in {"reload", "close"}, note \in Ids : Call(w, call, note)
             \/ Writing(w)
      PROVE  EditOnLiveSession'
  <2>1. \A e \in Editors : th'[e] = th[e]
      BY <1>3, WriterStep DEF Threads
  <2>2. settled' = settled
      BY <1>3, Zenon DEF Flush, Call, Begin, Writing, WriteLock, WriteSkipped, CloseUnedited, Written,
                  ReloadTierOne, Reloaded, Retire, Remove, sessions
  <2> QED BY <2>1, <2>2 DEF EditOnLiveSession
<1>4. CASE UNCHANGED vars
    BY <1>4 DEF vars, sessions, EditOnLiveSession
<1> QED BY <1>1, <1>2, <1>3, <1>4 DEF Next, Progress

(* An edit works on a session that no operation has retired, whatever the    *)
(* rename or deletion it overlaps: with_open_session_edit's lease.           *)
THEOREM EditsReachLiveSessions == Spec => []EditOnLiveSession
<1>1. Init => EditOnLiveSession
    BY DEF Init, EditOnLiveSession
<1> QED BY <1>1, TypeInit, TypeNext, GateInit, GateNext, RegistryInit, RegistryNext,
           EditOnLiveNext, PTL DEF Spec

-----------------------------------------------------------------------------
(* The write locks: who holds which, and when.                               *)

WriterHolds ==
    \A w \in Writers : th[w].pc \in {"writing", "tier1", "reloading"} => wlock[th[w].s] = w

(* An operation still holds the lock of each session it has yet to get to.   *)
OperationHolds ==
    \A l \in Operations :
        /\ th[l].pc = "body" => \A s \in Registered : wlock[s] = l
        /\ th[l].pc \in {"apply", "settle", "install"} =>
              \A i \in th[l].todo : registry[i] # None => wlock[registry[i]] = l
        /\ th[l].pc \in {"settle", "install"} =>
              wlock[th[l].s] = l /\ th[l].to \notin th[l].todo

LockInv == WriterHolds /\ OperationHolds /\ RetiredNotWritten

(* A thread in with_write_locks takes locks nobody has and releases its own. *)
LEMMA LocksOfOthers ==
    ASSUME TypeInv, NEW t \in Operations \cup Editors, WithWriteLocks(t),
           NEW s \in Sessions, wlock[s] \notin {None, t}
    PROVE  wlock'[s] = wlock[s]
BY DEF WithWriteLocks, Snapshot, TakeLock, Recheck, ReleaseLocks, locks, TypeInv, TypeOK

(* At most one operation is past its drain.                                  *)
LEMMA InsideAlone ==
    ASSUME GateInv, NEW k \in Operations, NEW l \in Operations,
           th[k].pc \in Inside, th[l].pc \in Inside
    PROVE  k = l
BY DEF GateInv, GateHeld

(* What with_write_locks says of the moment its caller's body begins.        *)
LEMMA HoldsAfterRecheck ==
    ASSUME TypeInv, NEW l \in Operations, Recheck(l), th'[l].pc = "body"
    PROVE  UNCHANGED <<registry, wlock>> /\ \A s \in Registered : wlock[s] = l
<1> l \in Threads BY DEF Threads
<1>1. th[l].locked \subseteq Held(l) /\ th[l].pc = "take" /\ registry' = registry
    BY DEF Recheck, At, sessions
<1>2. Registered \subseteq th[l].locked /\ wlock' = wlock
  <2>1. CASE Registered \subseteq th[l].locked
      BY <2>1 DEF Recheck
  <2>2. CASE ~(Registered \subseteq th[l].locked)
    <3>1. th'[l].pc = "take"
        BY <2>2, <1>1 DEF Recheck, TypeInv, TypeOK, CallState
    <3> QED BY <3>1
  <2> QED BY <2>1, <2>2
<1> QED BY <1>1, <1>2 DEF Held

(* The body keeps what it has yet to get to locked: it releases nothing, and *)
(* the session it installs is under an id it has done with.                  *)
LEMMA HoldsInBody ==
    ASSUME TypeInv, RegistryInv, OperationHolds, NEW l \in Operations, Body(l)
    PROVE  /\ wlock' = wlock
           /\ th'[l].pc # "body"
           /\ th'[l].pc \in {"apply", "settle", "install"} =>
                 \A i \in th'[l].todo : registry'[i] # None => wlock[registry'[i]] = l
           /\ th'[l].pc \in {"settle", "install"} =>
                 wlock[th'[l].s] = l /\ th'[l].to \notin th'[l].todo
<1> l \in Threads BY DEF Threads
<1> USE NoneAssumption
<1>0. wlock' = wlock
    BY Zenon DEF Body, Open, Plan, BodyEnds, Settle, Install, PassOver, InstallRewrite, Deregister,
           locks
<1>1. CASE Open(l) \/ BodyEnds(l)
    BY <1>0, <1>1, LeaveTyped DEF Open, BodyEnds, TypeInv
<1>2. CASE Plan(l)
  <2>1. PICK affected \in SUBSET {i \in Ids : registry[i] # None} :
             th' = [th EXCEPT ![l].pc = "apply", ![l].todo = affected]
      BY <1>2 DEF Plan
  <2>2. th'[l].pc = "apply" /\ th'[l].todo = affected
      BY <2>1 DEF TypeInv, TypeOK, CallState
  <2>3. \A i \in affected : wlock[registry[i]] = l
      BY <1>2 DEF Plan, At, OperationHolds, Registered
  <2> QED BY <1>0, <1>2, <2>2, <2>3 DEF Plan, sessions
<1>3. CASE Settle(l)
  <2>1. /\ th[l].pc = "settle" /\ th'[l].todo = th[l].todo
        /\ th'[l].pc \in {"apply", "install"}
        /\ th'[l].pc = "install" => th'[l].s = th[l].s /\ th'[l].to = th[l].to
      BY <1>3 DEF Settle, Goto, At, TypeInv, TypeOK, CallState
  <2> QED BY <1>0, <1>3, <2>1 DEF Settle, OperationHolds
<1>4. CASE Install(l)
  <2>1. /\ th[l].pc = "install" /\ th'[l].pc = "apply" /\ th'[l].todo = th[l].todo
        /\ th[l].todo \subseteq Ids
      BY <1>4 DEF Install, At, TypeInv, TypeOK, CallState
  <2>2. \A i \in th[l].todo : registry'[i] = registry[i]
      BY <1>4, <2>1 DEF Install, Create, OperationHolds, TypeInv, TypeOK
  <2> QED BY <1>0, <2>1, <2>2 DEF OperationHolds
<1>5. ASSUME NEW note \in Ids, PassOver(l, note) \/ InstallRewrite(l, note)
      PROVE  /\ th'[l].pc = "apply" /\ registry' = registry
             /\ \A i \in th'[l].todo : registry[i] # None => wlock[registry[i]] = l
  <2>1. /\ th[l].pc = "apply" /\ th'[l].pc = "apply" /\ registry' = registry
        /\ th'[l].todo = th[l].todo \ {note}
      BY <1>5 DEF PassOver, InstallRewrite, Done, At, sessions, TypeInv, TypeOK, CallState
  <2> QED BY <2>1 DEF OperationHolds
<1>6. ASSUME NEW note \in Ids, NEW to \in Ids \cup {None}, Deregister(l, note, to)
      PROVE  /\ th'[l].pc = "settle"
             /\ \A i \in th'[l].todo : registry'[i] # None => wlock[registry'[i]] = l
             /\ wlock[th'[l].s] = l /\ th'[l].to \notin th'[l].todo
  <2>1. /\ th[l].pc = "apply" /\ note \in th[l].todo /\ registry[note] # None
        /\ registry' = [registry EXCEPT ![note] = None]
      BY <1>6 DEF Deregister, At
  <2>2. /\ th'[l].pc = "settle" /\ th'[l].s = registry[note] /\ th'[l].to = to
        /\ th'[l].todo = th[l].todo \ {note} /\ th[l].todo \subseteq Ids
      BY <1>6 DEF Deregister, Done, TypeInv, TypeOK, CallState
  <2>3. to \notin th[l].todo \ {note}
      BY <1>6, <2>2 DEF Deregister, Destination
  <2>4. wlock[registry[note]] = l
      BY <2>1 DEF OperationHolds
  <2>5. \A i \in th[l].todo \ {note} : registry'[i] = registry[i]
      BY <2>1, <2>2 DEF TypeInv, TypeOK
  <2> QED BY <2>1, <2>2, <2>3, <2>4, <2>5 DEF OperationHolds
<1> QED BY <1>0, <1>1, <1>2, <1>3, <1>4, <1>5, <1>6 DEF Body

(* A step of an operation keeps the lock invariant: one that retires a       *)
(* session has its write lock, so that no writer has.                        *)
LEMMA LockAroundOperation ==
    ASSUME TypeInv, GateInv, GateInv', RegistryInv, LockInv, NEW l \in Operations,
           Operation(l) \/ \E call \in {"open", "delete", "reidentify"} : Request(l, call)
    PROVE  LockInv'
<1> USE ThreadsAssumption, NoneAssumption
<1> l \in Threads BY DEF Threads
<1>1. \A u \in Threads \ {l} : th'[u] = th[u]
    BY OperationStep
<1>2. \A s \in Sessions : wlock[s] \notin {None, l} => wlock'[s] = wlock[s]
  <2>1. CASE WithWriteLocks(l)
      BY <2>1, LocksOfOthers
  <2>2. CASE ~WithWriteLocks(l)
      BY <2>2, Zenon DEF Operation, Request, LifecycleLock, CloseGate, Drain, Reopen, Unlock, Body,
                  Open, Plan, BodyEnds, Settle, Install, PassOver, InstallRewrite, Deregister,
                  locks
  <2> QED BY <2>1, <2>2
<1>3. WriterHolds'
  <2> SUFFICES ASSUME NEW w \in Writers, th'[w].pc \in {"writing", "tier1", "reloading"}
               PROVE  wlock'[th'[w].s] = w
      BY DEF WriterHolds
  <2>1. w \in Threads \ {l} /\ w # None
      BY DEF Threads
  <2>2. th'[w] = th[w] /\ th[w].s \in Sessions /\ wlock[th[w].s] = w
      BY <1>1, <2>1 DEF LockInv, WriterHolds, TypeInv, CallTyped
  <2> QED BY <1>2, <2>1, <2>2
<1>4. OperationHolds'
  <2> SUFFICES ASSUME NEW k \in Operations, th'[k].pc \in {"body", "apply", "settle", "install"}
               PROVE  /\ th'[k].pc = "body" => \A s \in Registered' : wlock'[s] = k
                      /\ th'[k].pc \in {"apply", "settle", "install"} =>
                            \A i \in th'[k].todo : registry'[i] # None => wlock'[registry'[i]] = k
                      /\ th'[k].pc \in {"settle", "install"} =>
                            wlock'[th'[k].s] = k /\ th'[k].to \notin th'[k].todo
      BY DEF OperationHolds
  <2>0. k \in Threads /\ k # None /\ th'[k].pc \in Inside
      BY DEF Threads, Inside
  <2>1. CASE k = l /\ Body(l)
      BY <2>1, HoldsInBody DEF LockInv
  <2>2. CASE k = l /\ WithWriteLocks(l)
    <3>1. th'[l].pc = "body" /\ Recheck(l)
        BY <2>2, LeaveTyped DEF WithWriteLocks, Snapshot, TakeLock, Recheck, ReleaseLocks, At,
                                TypeInv, TypeOK, CallState
    <3>2. UNCHANGED <<registry, wlock>> /\ \A s \in Registered : wlock[s] = l
        BY <3>1, HoldsAfterRecheck
    <3> QED BY <2>2, <3>1, <3>2 DEF Registered
  <2>3. CASE k = l /\ ~Body(l) /\ ~WithWriteLocks(l)
    <3>1. th'[l].pc \notin {"body", "apply", "settle", "install"}
      <4>1. CASE \E call \in {"open", "delete", "reidentify"} : Request(l, call)
          BY <4>1 DEF Request, Idle, TypeInv, TypeOK
      <4>2. CASE LifecycleLock(l) \/ CloseGate(l) \/ Drain(l) \/ Reopen(l)
          BY <4>2, GotoTyped DEF LifecycleLock, CloseGate, Drain, Reopen, TypeInv
      <4>3. CASE Unlock(l)
          BY <4>3, LeaveTyped DEF Unlock, Return, TypeInv
      <4> QED BY <2>3, <4>1, <4>2, <4>3 DEF Operation
    <3> QED BY <2>3, <3>1
  <2>4. CASE k # l
    <3>1. th'[k] = th[k] /\ th[k].pc \in Inside
        BY <1>1, <2>0, <2>4
    <3>2. ~WithWriteLocks(l) /\ ~Body(l)
        BY <2>4, <3>1, InsideStep, InsideAlone
    <3>3. UNCHANGED <<registry, wlock>>
        BY <3>2 DEF Operation, Request, LifecycleLock, CloseGate, Drain, Reopen, Unlock,
                    sessions, locks
    <3> QED BY <3>1, <3>3 DEF LockInv, OperationHolds, Registered
  <2> QED BY <2>1, <2>2, <2>3, <2>4
<1>5. RetiredNotWritten'
  <2> SUFFICES ASSUME NEW w \in Writers, th'[w].pc = "writing"
               PROVE  th'[w].s \notin settled'
      BY DEF RetiredNotWritten
  <2>1. w \in Threads \ {l} /\ w # l
      BY DEF Threads
  <2>2. th'[w] = th[w] /\ wlock[th[w].s] = w /\ th[w].s \notin settled
      BY <1>1, <2>1 DEF LockInv, WriterHolds, RetiredNotWritten
  <2>3. CASE Settle(l)
    <3>1. settled' = settled \cup {th[l].s} /\ wlock[th[l].s] = l
        BY <2>3 DEF Settle, At, LockInv, OperationHolds
    <3> QED BY <2>1, <2>2, <3>1
  <2>4. CASE ~Settle(l)
    <3>1. settled' = settled
        BY <2>4, Zenon
           DEF Operation, Request, LifecycleLock, CloseGate, Drain, Reopen, Unlock,
               WithWriteLocks, Snapshot, TakeLock, Recheck, ReleaseLocks, Body, Open, Plan,
               BodyEnds, Install, PassOver, InstallRewrite, Deregister, sessions
    <3> QED BY <2>2, <3>1
  <2> QED BY <2>3, <2>4
<1> QED BY <1>3, <1>4, <1>5 DEF LockInv

(* A step of an editor takes and releases no lock but its own.               *)
LEMMA LockAroundEditor ==
    ASSUME TypeInv, GateInv, LockInv, NEW e \in Editors,
           Editing(e) \/ \E note \in Ids : Edit(e, note) \/ CommitBlock(e, note)
    PROVE  LockInv'
<1> USE ThreadsAssumption, NoneAssumption
<1>1. \A u \in Threads \ {e} : th'[u] = th[u]
    BY EditorStep DEF GateInv
<1>2. registry' = registry /\ settled' = settled
    BY EditorLeavesSessions DEF sessions
<1>3. \A s \in Sessions : wlock[s] \notin {None, e} => wlock'[s] = wlock[s]
  <2>1. CASE WithWriteLocks(e)
      BY <2>1, LocksOfOthers
  <2>2. CASE ~WithWriteLocks(e)
      BY <2>2, Zenon DEF Editing, Edit, CommitBlock, CommitLease, LookUp, LookUpFails, EditTierOne,
                  Mutate, Reparse, locks
  <2> QED BY <2>1, <2>2
<1>4. \A w \in Writers : th'[w] = th[w] /\ w # e /\ w # None
    BY <1>1 DEF Threads
<1>5. \A l \in Operations : th'[l] = th[l] /\ l # e /\ l # None
    BY <1>1 DEF Threads
<1>6. WriterHolds'
    BY <1>3, <1>4 DEF LockInv, WriterHolds, TypeInv, CallTyped
<1>7. OperationHolds'
  <2>1. \A l \in Operations : th[l].pc = "body" => \A s \in Registered : wlock'[s] = l
      BY <1>3, <1>5 DEF LockInv, OperationHolds, Registered, TypeInv, TypeOK
  <2>2. ASSUME NEW l \in Operations, th[l].pc \in {"apply", "settle", "install"},
               NEW i \in th[l].todo, registry[i] # None
        PROVE  wlock'[registry[i]] = l
    <3>1. i \in Ids /\ wlock[registry[i]] = l
        BY <2>2 DEF LockInv, OperationHolds, TypeInv, TypeOK, CallState, Threads
    <3> QED BY <1>3, <1>5, <2>2, <3>1 DEF TypeInv, TypeOK
  <2>3. ASSUME NEW l \in Operations, th[l].pc \in {"settle", "install"}
        PROVE  wlock'[th[l].s] = l
    <3>1. wlock[th[l].s] = l /\ l \in Threads
        BY <2>3 DEF LockInv, OperationHolds, Threads
    <3>2. th[l].s \in Sessions
        BY <2>3 DEF LockInv, TypeInv, CallTyped
    <3> QED BY <1>3, <1>5, <3>1, <3>2
  <2> QED BY <1>2, <1>5, <2>1, <2>2, <2>3 DEF LockInv, OperationHolds, Registered
<1>8. RetiredNotWritten'
    BY <1>2, <1>4 DEF LockInv, RetiredNotWritten
<1> QED BY <1>6, <1>7, <1>8 DEF LockInv

(* A step of a writer takes a lock nobody has, releases its own, and writes  *)
(* a session that is not closed.                                             *)
LEMMA LockAroundWriter ==
    ASSUME TypeInv, RegistryInv, LockInv, NEW w \in Writers,
           \/ \E s \in Sessions : Flush(w, s)
           \/ \E call \in {"reload", "close"}, note \in Ids : Call(w, call, note)
           \/ Writing(w)
    PROVE  LockInv'
<1> USE ThreadsAssumption, NoneAssumption
<1> w \in Threads /\ w # None BY DEF Threads
<1>1. \A u \in Threads \ {w} : th'[u] = th[u]
    BY WriterStep
<1>2. settled' = settled /\ \A i \in Ids : registry'[i] \in {registry[i], None}
    BY Zenon DEF Flush, Call, Begin, Writing, WriteLock, WriteSkipped, CloseUnedited, Written,
           ReloadTierOne, Reloaded, Retire, Remove, sessions, TypeInv, TypeOK
<1>3. \A s \in Sessions : wlock[s] \notin {None, w} => wlock'[s] = wlock[s]
  <2>1. CASE Written(w) \/ Reloaded(w)
    <3>1. wlock[th[w].s] = w /\ wlock' = [wlock EXCEPT ![th[w].s] = None]
        BY <2>1 DEF Written, Reloaded, At, LockInv, WriterHolds
    <3> QED BY <3>1 DEF TypeInv, TypeOK
  <2>2. CASE WriteLock(w)
      BY <2>2 DEF WriteLock, TypeInv, TypeOK
  <2>3. CASE ~(Written(w) \/ Reloaded(w) \/ WriteLock(w))
      BY <2>3, Zenon DEF Flush, Call, Begin, Writing, WriteSkipped, CloseUnedited, ReloadTierOne,
                  Retire, Remove, locks
  <2> QED BY <2>1, <2>2, <2>3
<1>4. /\ th'[w].pc \in {"writing", "tier1", "reloading"} => wlock'[th'[w].s] = w
      /\ th'[w].pc = "writing" => th'[w].s \notin settled
  <2>1. ASSUME NEW s \in Sessions, NEW call \in {"flush", "reload", "close"}, Begin(w, call, s)
        PROVE  th'[w].pc = "write"
      BY <2>1 DEF Begin, Idle, TypeInv, TypeOK
  <2>2. ASSUME NEW s \in Sessions, Flush(w, s)
        PROVE  th'[w].pc = "write"
      BY <2>1, <2>2 DEF Flush
  <2>3. ASSUME NEW call \in {"reload", "close"}, NEW note \in Ids, Call(w, call, note)
        PROVE  th'[w].pc = "write"
      BY <2>1, <2>3 DEF Call, TypeInv, TypeOK
  <2>4. CASE WriteLock(w)
    <3>1. /\ th[w].pc = "write" /\ wlock' = [wlock EXCEPT ![th[w].s] = w]
          /\ th'[w].s = th[w].s /\ th[w].s \in Sessions
        BY <2>4, GotoTyped DEF WriteLock, At, TypeInv, CallTyped
    <3>2. th'[w].pc = "writing" => ~closed[th[w].s]
        BY <2>4, GotoTyped DEF WriteLock, TypeInv
    <3>3. \A s \in settled : closed[s] = TRUE
        BY DEF RegistryInv, SettledGone
    <3> QED BY <3>1, <3>2, <3>3 DEF TypeInv, TypeOK
  <2>5. CASE ReloadTierOne(w)
      BY <2>5, GotoTyped DEF ReloadTierOne, At, TypeInv, LockInv, WriterHolds
  <2>6. CASE \/ WriteSkipped(w) \/ CloseUnedited(w) \/ Written(w)
             \/ Reloaded(w) \/ Retire(w) \/ Remove(w)
      BY <2>6, GotoTyped, LeaveTyped
         DEF WriteSkipped, CloseUnedited, Written, Reloaded, Retire, Remove, Return, TypeInv
  <2> QED BY <2>2, <2>3, <2>4, <2>5, <2>6 DEF Writing
<1>5. WriterHolds'
  <2> SUFFICES ASSUME NEW v \in Writers \ {w}, th'[v].pc \in {"writing", "tier1", "reloading"}
               PROVE  wlock'[th'[v].s] = v
      BY <1>4 DEF WriterHolds
  <2>1. v \in Threads \ {w} /\ v # None
      BY DEF Threads
  <2>2. th'[v] = th[v] /\ th[v].s \in Sessions /\ wlock[th[v].s] = v
      BY <1>1, <2>1 DEF LockInv, WriterHolds, TypeInv, CallTyped
  <2> QED BY <1>3, <2>1, <2>2
<1>6. \A l \in Operations : l \in Threads /\ th'[l] = th[l] /\ l # w /\ l # None
    BY <1>1 DEF Threads
<1>7. OperationHolds'
  <2>1. Registered' \subseteq Registered /\ Registered \subseteq Sessions
      BY <1>2 DEF Registered, TypeInv, TypeOK
  <2>2. ASSUME NEW l \in Operations, th[l].pc = "body", NEW s \in Registered'
        PROVE  wlock'[s] = l
    <3>1. s \in Sessions /\ wlock[s] = l
        BY <2>1, <2>2 DEF LockInv, OperationHolds
    <3> QED BY <1>3, <1>6, <3>1
  <2>3. ASSUME NEW l \in Operations, th[l].pc \in {"apply", "settle", "install"},
               NEW i \in th[l].todo, registry'[i] # None
        PROVE  wlock'[registry'[i]] = l
    <3>1. i \in Ids
        BY <1>6 DEF TypeInv, TypeOK, CallState
    <3>2. registry'[i] = registry[i] /\ registry[i] \in Sessions
        BY <1>2, <2>3, <3>1 DEF TypeInv, TypeOK
    <3>3. wlock[registry[i]] = l
        BY <2>3, <3>2 DEF LockInv, OperationHolds
    <3> QED BY <1>3, <1>6, <3>2, <3>3
  <2>4. ASSUME NEW l \in Operations, th[l].pc \in {"settle", "install"}
        PROVE  wlock'[th[l].s] = l /\ th[l].to \notin th[l].todo
    <3>1. /\ wlock[th[l].s] = l /\ th[l].s \in Sessions
          /\ th[l].to \notin th[l].todo
        BY <2>4 DEF LockInv, OperationHolds, TypeInv, CallTyped
    <3> QED BY <1>3, <1>6, <3>1
  <2> QED BY <1>6, <2>2, <2>3, <2>4 DEF OperationHolds
<1>8. RetiredNotWritten'
    BY <1>1, <1>2, <1>4 DEF LockInv, RetiredNotWritten, Threads
<1> QED BY <1>5, <1>7, <1>8 DEF LockInv

(* Every step keeps the lock invariant.                                      *)
LEMMA LockNext ==
    TypeInv /\ GateInv /\ GateInv' /\ RegistryInv /\ LockInv /\ [Next]_vars => LockInv'
<1> SUFFICES ASSUME TypeInv, GateInv, GateInv', RegistryInv, LockInv, [Next]_vars
             PROVE  LockInv'
    OBVIOUS
<1>1. ASSUME NEW l \in Operations,
             Operation(l) \/ \E call \in {"open", "delete", "reidentify"} : Request(l, call)
      PROVE  LockInv'
    BY <1>1, LockAroundOperation
<1>2. ASSUME NEW e \in Editors,
             Editing(e) \/ \E note \in Ids : Edit(e, note) \/ CommitBlock(e, note)
      PROVE  LockInv'
    BY <1>2, LockAroundEditor
<1>3. ASSUME NEW w \in Writers,
             \/ \E s \in Sessions : Flush(w, s)
             \/ \E call \in {"reload", "close"}, note \in Ids : Call(w, call, note)
             \/ Writing(w)
      PROVE  LockInv'
    BY <1>3, LockAroundWriter
<1>4. CASE UNCHANGED vars
    BY <1>4 DEF vars, sessions, locks, LockInv, WriterHolds, OperationHolds, RetiredNotWritten,
                Registered
<1> QED BY <1>1, <1>2, <1>3, <1>4 DEF Next, Progress

(* No lock is held at first.                                                *)
LEMMA LockInit == Init => LockInv
<1> SUFFICES ASSUME Init PROVE LockInv
    OBVIOUS
<1>1. \A t \in Threads : th[t].pc = "idle"
    BY DEF Init, Idle
<1> QED BY <1>1 DEF LockInv, WriterHolds, OperationHolds, RetiredNotWritten, Threads

(* The write locks are held as with_write_locks and write_locked mean them. *)
LEMMA LocksHeld == Spec => []LockInv
BY TypeInit, TypeNext, GateInit, GateNext, RegistryInit, RegistryNext, LockInit, LockNext,
   PTL DEF Spec

(* While an operation's body runs every session it found registered is       *)
(* write-locked by it: with_write_locks, called under the lifecycle lock.    *)
THEOREM OperationsCoverSessions == Spec => []BodyCoversSessions
<1>1. LockInv => BodyCoversSessions
    BY DEF LockInv, OperationHolds, BodyCoversSessions
<1> QED BY <1>1, LocksHeld, PTL

(* No write is under way of a session that a rename, move or deletion has    *)
(* retired: the closed flag write_locked reads under the write lock.         *)
THEOREM RetiredSessionsRest == Spec => []RetiredNotWritten
<1>1. LockInv => RetiredNotWritten
    BY DEF LockInv
<1> QED BY <1>1, LocksHeld, PTL
=============================================================================
