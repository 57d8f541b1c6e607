------------------------------- MODULE NoteTabs -------------------------------
(* note_providers.dart, lifecycle_actions.dart and the tab strip of the      *)
(* shell: the tabs of the editor and the Core sessions behind them. Opens    *)
(* wait in one queue and closes in another, an open that has been overtaken  *)
(* retires the session it was given through the close queue, and batches,    *)
(* lifecycle actions, rescans and reloads hold gates that turn selections    *)
(* away and fence the open in progress.                                      *)
(*                                                                           *)
(* All of it runs on one isolate: a step is what happens from one answer of  *)
(* the Core, or one gesture of the user, to the next. What follows without   *)
(* waiting for either has run before the next of them arrives (Settled).     *)
(* A lifecycle action sends its request and goes on with the answer, if the  *)
(* editor is still where it was: its gate turns selections, edits and closes *)
(* away meanwhile, but a refused close may activate a tab. What the body     *)
(* awaits after that answer is one step with it, but for the opens it sends  *)
(* through the queue: what the gate lets through in between changes nothing  *)
(* that is not reached by letting it through before the answer. The Core     *)
(* acts on a call when it is answered: the queues keep two calls for one     *)
(* Note from being in progress together.                                     *)
EXTENDS Integers, Sequences, Functions

CONSTANTS
    Notes,      \* identities a Note may have
    Files,      \* those that exist when the Workspace is opened
    Saved,      \* snapshots it may be opened with: [open |-> set, last |-> Note or None]
    Ops,        \* kinds of lifecycle actions
    None,
    MaxCalls,   \* bound on gestures of the user
    MaxFaults,  \* bound on steps in which the Core errs, warns or refuses
    Quirks      \* situations the properties are stated without, see the README

ASSUME NotesAssumption == Files \subseteq Notes /\ None \notin Notes
ASSUME SavedAssumption ==
    Saved \subseteq [open: SUBSET Notes, last: Notes \cup {None}]
ASSUME BoundsAssumption ==
    /\ MaxCalls \in Nat /\ MaxFaults \in Nat
    /\ Ops \subseteq {"create", "delete", "rename", "redirect", "other"}

VARIABLES
    exists,   \* the Notes of the bundle
    core,     \* the Notes the Core holds a session of
    ui,       \* tabs, active, selected, retained, and the saved [open, last]
    opens,    \* the open queue; its head runs
    restore,  \* the restoration's progress: [todo, done, late, retry, last]
    closes,   \* the close queue: tabs to close, and late opens to retire
    batch,    \* the batch close in progress, or None
    actions,  \* the queue of lifecycle actions; its head runs
    gates,    \* the rescan's and the reload's: [rescan, reload]
    anchor,   \* the shell's tab order at the close of the active tab
    exited,   \* the exit was granted
    history,  \* [excused, quirks]: what the properties except, see Excused
    spent     \* bounds: [calls, faults]

vars == <<exists, core, ui, opens, restore, closes, batch, actions, gates,
          anchor, exited, history, spent>>

(* The elements of `s` that are not in `gone`, in their order.               *)
Without(s, gone) ==
    LET left[i \in 0..Len(s)] ==
            IF i = 0 THEN <<>>
            ELSE IF s[i] \in gone THEN left[i - 1] ELSE Append(left[i - 1], s[i])
    IN  left[Len(s)]

Tabs(u) == Range(u.tabs)
Has(u, n) == n \in Tabs(u)
AppendTab(u, n) == IF Has(u, n) THEN u ELSE [u EXCEPT !.tabs = Append(@, n)]
Drop(u, n) == [u EXCEPT !.tabs = Without(@, {n})]
Renamed(u, old, new) ==
    [u EXCEPT !.tabs = [i \in DOMAIN @ |-> IF @[i] = old THEN new ELSE @[i]]]
Release(u, n) == [u EXCEPT !.retained = @ \ {n}]

-----------------------------------------------------------------------------
(* The session snapshot: what the next start will reopen.                    *)

(* A Note that only the snapshot's active id names is not repeated in its    *)
(* list until another one displaces it.                                      *)
RecordActive(u, n) ==
    [u EXCEPT !.last = n,
              !.open = @ \cup ({u.last} \ {None, n}) \cup (IF u.last = n THEN {} ELSE {n})]

RemoveSavedKeepsActive(u, gone) == [u EXCEPT !.open = @ \ gone]   \* mutant
RemoveSaved(u, gone) ==
    [u EXCEPT !.open = @ \ gone, !.last = IF @ \in gone \cap u.open THEN None ELSE @]

SaveActive(u, n) == [u EXCEPT !.last = n, !.open = @ \cup ({n} \ {None, u.last})]

(* clearActiveNoteId wins over the id it is called with.                     *)
Rekey(u, old, new, makeActive) ==
    [u EXCEPT !.open = (@ \ {old}) \cup {new},
              !.last = IF @ = None THEN None ELSE IF makeActive \/ @ = old THEN new ELSE @]

-----------------------------------------------------------------------------
(* Tabs and the sessions they show.                                          *)

Activate(u, n) == RecordActive([u EXCEPT !.active = n], n)

(* Mutant: it is left to the snapshot.                                       *)
PreserveInSnapshot(u, n) == [u EXCEPT !.open = @ \cup {n}]

(* A late session whose close was refused stays, as an inactive tab.         *)
Preserve(u, n) ==
    LET v == Release(AppendTab(u, n), n) IN [v EXCEPT !.open = @ \cup {n}]

PreserveAll(u, held) ==
    [u EXCEPT !.tabs = @ \o Without(held, Tabs(u)), !.retained = @ \ Range(held),
              !.open = @ \cup Range(held)]

(* The Core has closed `gone`; an exit keeps what the next start reopens.    *)
Retire(u, gone, keepIntent) ==
    LET v == [u EXCEPT !.tabs = Without(@, gone),
                       !.retained = @ \ gone,
                       !.active = IF @ \in gone THEN None ELSE @]
    IN  IF keepIntent THEN v ELSE RemoveSaved(v, gone)

(* The active state becomes the one the Core returned, under its own id.     *)
Adopt(u, n, old) ==
    LET v == Release([u EXCEPT !.active = n], n)
        w == IF Has(v, old) THEN Renamed(v, old, n) ELSE v
    IN  IF old # n THEN Rekey(w, old, n, TRUE) ELSE SaveActive(w, n)

ReplaceTab(u, old, new) ==
    LET v == Release(Renamed(u, old, new), new)
    IN  IF ~Has(u, old) THEN u ELSE IF old = new THEN v ELSE Rekey(v, old, new, FALSE)

(* The Core holds the session and no state of it can be shown.               *)
RetainActive(u, old, new) ==
    LET v == Drop(u, old)
        w == [v EXCEPT !.retained = (@ \ {old}) \cup {new}, !.active = None]
    IN  Rekey(w, old, new, FALSE)

RetainTab(u, old, new) ==
    Rekey([Drop(u, old) EXCEPT !.retained = @ \cup {new}], old, new, FALSE)

RekeyRetained(u, old, new) ==
    IF old \notin u.retained \/ Has(u, old) THEN u
    ELSE Rekey([u EXCEPT !.retained = (@ \ {old}) \cup ({new} \ Tabs(u))], old, new, FALSE)

(* The Core has retired the session already: no close is sent for it.        *)
Clear(u) ==
    IF u.active # None /\ Has(u, u.active)
    THEN [RemoveSaved(Drop(u, u.active), {u.active}) EXCEPT !.active = None]
    ELSE [u EXCEPT !.active = None, !.last = None]

Discard(u, n) ==
    IF u.active = n THEN Clear(u) ELSE RemoveSaved(Release(Drop(u, n), n), {n})

(* Select what follows `n` in `order`, or else what precedes it.             *)
Successor(order, n, left) ==
    LET at == IF n \in Range(order) THEN CHOOSE i \in DOMAIN order : order[i] = n ELSE 0
        after == {i \in DOMAIN order : i > at /\ order[i] \in left}
        before == {i \in DOMAIN order : i < at /\ order[i] \in left}
    IN  IF at = 0 \/ after \cup before = {} THEN None
        ELSE IF after # {} THEN order[CHOOSE i \in after : \A j \in after : i <= j]
        ELSE order[CHOOSE i \in before : \A j \in before : j <= i]

ShowWithoutSelecting(u, n) == Activate(u, n)   \* mutant
Show(u, n) == [Activate(u, n) EXCEPT !.selected = n]

-----------------------------------------------------------------------------
(* The queues and the gates.                                                 *)

Task(kind, n, from) ==
    [kind |-> kind, note |-> n, from |-> from, pc |-> "queued", fenced |-> FALSE]
Publish(q, n) == Append(q, Task("user", n, None))   \* the shell opens what is selected

(* An admission: the open in progress will be turned away when it answers.   *)
Fence(q) == IF q = <<>> THEN q ELSE [q EXCEPT ![1].fenced = TRUE]

NoAnchor == [id |-> None, order |-> <<>>]
ClosingTab(q) == \E i \in DOMAIN q : q[i].kind = "tab"
Working == actions # <<>> \/ batch # None           \* the lifecycle gate is held
BlockedWhile(q) == ClosingTab(q) \/ Working \/ gates.rescan \/ gates.reload
Blocked == BlockedWhile(closes)
CloseRefused == Working \/ gates.rescan \/ gates.reload
Exiting == batch # None /\ batch.kind = "exit"

Ready(q) == q # <<>> /\ Head(q).pc = "queued"
BodyPaused == actions # <<>> /\ actions[1].pc \notin {"queued", "asked"}
Soiled == batch # None /\ batch.dirty

(* What waits for no answer has run before the next event arrives.           *)
Settled ==
    /\ ~Ready(opens) /\ ~exited
    /\ opens = <<>> => ~BodyPaused /\ ~Soiled

Gesture ==
    /\ Settled /\ spent.calls < MaxCalls
    /\ spent' = [spent EXCEPT !.calls = @ + 1]
Charge(n) ==
    /\ spent.faults + n <= MaxFaults
    /\ spent' = [spent EXCEPT !.faults = @ + n]

(* How close_note may end, and what it costs the bound.                      *)
CloseEnds(n) == IF n \in core THEN {"clean", "warning", "failure"} ELSE {"failure"}
CloseCost(n, end) == IF n \in core /\ end # "clean" THEN 1 ELSE 0
CoreAfter(n, end) == IF end = "failure" THEN core ELSE core \ {n}

Excuse(cause) == history' = [history EXCEPT !.excused = TRUE, !.quirks = @ \cup cause]

IdIn(n) == {n} \ {None}
SavedIds(u) == u.open \cup IdIn(u.last)

Init ==
    \E saved \in Saved :
        LET todo == saved.open \cup IdIn(saved.last) IN
        /\ exists = Files
        /\ core = {}
        /\ ui = [tabs |-> <<>>, active |-> None, selected |-> None, retained |-> {},
                 open |-> saved.open, last |-> saved.last]
        /\ opens = IF todo = {} THEN <<>>
                   ELSE <<[Task("restore", None, None) EXCEPT !.pc = "core"]>>
        /\ restore = [todo |-> todo, done |-> <<>>, late |-> None, retry |-> {},
                     last |-> saved.last]
        /\ closes = <<>> /\ batch = None /\ actions = <<>>
        /\ gates = [rescan |-> FALSE, reload |-> FALSE]
        /\ anchor = NoAnchor /\ exited = FALSE
        /\ history = [excused |-> FALSE, quirks |-> {}]
        /\ spent = [calls |-> 0, faults |-> 0]

-----------------------------------------------------------------------------
(* Selections and opens.                                                     *)

Select(n) ==
    /\ Gesture /\ ~Blocked /\ n \in exists
    /\ ui' = [ui EXCEPT !.selected = n]
    /\ opens' = Publish(opens, n)
    /\ history' = [history EXCEPT !.excused = FALSE]
    /\ UNCHANGED <<exists, core, restore, closes, batch, actions, gates, anchor, exited>>

(* A task that a newer one has overtaken, or a gate turns away, does nothing.*)
Overtaken == Len(opens) > 1 \/ (Head(opens).kind # "life" /\ Blocked)
Stale == Overtaken \/ Head(opens).fenced

Record(u, n, from) ==
    IF from \in {None, n} THEN RecordActive(u, n) ELSE Rekey(u, from, n, TRUE)

OpenStart ==
    /\ Ready(opens) /\ ~exited
    /\ LET t == Head(opens)
           shown == Release(AppendTab([ui EXCEPT !.active = t.note], t.note), t.note)
       IN  \/ /\ Overtaken
              /\ opens' = Tail(opens)
              /\ IF Len(opens) = 1 THEN Excuse({}) ELSE UNCHANGED history
              /\ UNCHANGED ui
           \/ /\ ~Overtaken /\ (ui.active = t.note \/ Has(ui, t.note))
              /\ ui' = Record(shown, t.note, t.from)
              /\ opens' = Tail(opens)
              /\ UNCHANGED history
           \/ /\ ~Overtaken /\ ui.active # t.note /\ ~Has(ui, t.note)
              /\ opens' = <<[t EXCEPT !.pc = "core", !.fenced = FALSE]>>
              /\ UNCHANGED <<ui, history>>
    /\ UNCHANGED <<exists, core, restore, closes, batch, actions, gates, anchor,
                   exited, spent>>

Answering(kinds, pc) ==
    Settled /\ opens # <<>> /\ Head(opens).kind \in kinds /\ Head(opens).pc = pc

(* open_note answers with a session.                                         *)
OpenAnswered ==
    /\ Answering({"user", "life"}, "core")
    /\ LET t == Head(opens) IN
       /\ t.note \in exists
       /\ core' = core \cup {t.note}
       /\ \/ /\ ~Stale
             /\ ui' = Record(Release(AppendTab([ui EXCEPT !.active = t.note], t.note),
                                     t.note), t.note, t.from)
             /\ opens' = Tail(opens)
             /\ UNCHANGED <<closes, history>>
          \/ /\ Stale                      \* a late session goes back to the Core
             /\ opens' = [opens EXCEPT ![1].pc = "retire"]
             /\ closes' = Append(closes, [kind |-> "retire", note |-> t.note])
             /\ Excuse(IF t.note \in ui.retained THEN {"retaken"} ELSE {})
             /\ UNCHANGED ui
    /\ UNCHANGED <<exists, restore, batch, actions, gates, anchor, exited, spent>>

(* It fails: nothing changes, the selection may be tried again.              *)
OpenFailed ==
    /\ Answering({"user", "life"}, "core")
    /\ Charge(IF Head(opens).note \in exists THEN 1 ELSE 0)
    /\ opens' = Tail(opens)
    /\ Excuse({})
    /\ UNCHANGED <<exists, core, ui, restore, closes, batch, actions, gates,
                   anchor, exited>>

-----------------------------------------------------------------------------
(* Restoration: the saved Notes are opened one by one. Once it is stale, the *)
(* sessions it holds go back one by one; an exit that waits for it keeps the *)
(* saved list, and stops at the first close that is not clean.               *)

GiveBack(queue, late, held) ==
    /\ opens' = [opens EXCEPT ![1].pc = "retire"]
    /\ closes' = Append(queue, [kind |-> "retire", note |-> Head(held)])
    /\ restore' = [restore EXCEPT !.todo = {}, !.late = late, !.done = held]

(* The screen selects what is active when restoration ends.                  *)
RestoreEnds(u, retry) ==
    /\ restore' = [restore EXCEPT !.todo = {}, !.late = None, !.done = <<>>, !.retry = retry]
    /\ IF u.active # None /\ ~Blocked
       THEN /\ ui' = [u EXCEPT !.selected = u.active]
            /\ opens' = Publish(Tail(opens), u.active)
       ELSE ui' = u /\ opens' = Tail(opens)

(* All of it opened: the snapshot's active Note is shown, or else the first. *)
Restored(u, held, retry) ==
    LET active == IF held = <<>> THEN None
                  ELSE IF restore.last \in Range(held) THEN restore.last ELSE Head(held)
    IN  [u EXCEPT !.tabs = held, !.active = active,
                  !.open = Range(held) \cup retry, !.last = active]

(* All of it given back: the snapshot names what is open instead, unless an  *)
(* exit holds it for the next start.                                         *)
GivenBackOnExit(u) ==   \* mutant
    [u EXCEPT !.open = Tabs(u), !.last = IF Has(u, u.active) THEN u.active ELSE None]
GivenBack(u) ==
    IF Exiting THEN u
    ELSE [u EXCEPT !.open = Tabs(u), !.last = IF Has(u, u.active) THEN u.active ELSE None]

(* What the snapshot keeps for the next start then.                          *)
Kept == IF Exiting THEN restore.retry \cup SavedIds(ui) ELSE restore.retry

RestoreAnswered(n) ==
    /\ Answering({"restore"}, "core")
    /\ n \in restore.todo \cap exists
    /\ core' = core \cup {n}
    /\ LET held == Append(restore.done, n)
           left == restore.todo \ {n}
       IN  \/ /\ Stale
              /\ GiveBack(closes, n, <<n>> \o restore.done)
              /\ UNCHANGED ui
           \/ /\ ~Stale /\ left # {}
              /\ restore' = [restore EXCEPT !.todo = left, !.done = held]
              /\ UNCHANGED <<ui, opens, closes>>
           \/ /\ ~Stale /\ left = {}
              /\ RestoreEnds(Restored(ui, held, restore.retry), restore.retry)
              /\ UNCHANGED closes
    /\ UNCHANGED <<exists, batch, actions, gates, anchor, exited, history, spent>>

(* A Note that is gone leaves the snapshot; any other error keeps it there.  *)
RestoreFailed(n) ==
    /\ Answering({"restore"}, "core")
    /\ n \in restore.todo
    /\ Charge(IF n \in exists THEN 1 ELSE 0)
    /\ LET left == restore.todo \ {n}
           retry == restore.retry \cup ({n} \cap exists)
           u == IF n \in exists THEN ui ELSE RemoveSaved(ui, {n})
       IN  \/ /\ Stale /\ restore.done # <<>>
              /\ GiveBack(closes, None, restore.done)
              /\ UNCHANGED ui
           \/ /\ Stale /\ restore.done = <<>>
              /\ RestoreEnds(GivenBack(ui), Kept)
              /\ UNCHANGED closes
           \/ /\ ~Stale /\ left # {}
              /\ restore' = [restore EXCEPT !.todo = left, !.retry = retry]
              /\ ui' = u
              /\ UNCHANGED <<opens, closes>>
           \/ /\ ~Stale /\ left = {}
              /\ RestoreEnds(Restored(u, restore.done, retry), retry)
              /\ UNCHANGED closes
    /\ UNCHANGED <<exists, core, batch, actions, gates, anchor, exited, history>>

-----------------------------------------------------------------------------
(* The close queue.                                                          *)

CloseTurnAfterBatch(kind) ==   \* mutant
    Settled /\ batch = None /\ closes # <<>> /\ Head(closes).kind = kind
CloseTurn(kind) == Settled /\ closes # <<>> /\ Head(closes).kind = kind

RetireAnswered(end) ==
    /\ CloseTurn("retire")
    /\ LET n == Head(closes).note IN
       /\ end \in CloseEnds(n) /\ Charge(CloseCost(n, end))
       /\ core' = CoreAfter(n, end)
       /\ \/ /\ Head(opens).kind # "restore"
             /\ ui' = IF end = "failure" THEN Preserve(ui, n) ELSE ui
             /\ opens' = Tail(opens) /\ closes' = Tail(closes)
             /\ UNCHANGED <<restore, batch>>
          \/ /\ Head(opens).kind = "restore" /\ Exiting /\ end # "clean"
             /\ LET rest == Tail(restore.done)
                    own == IF end = "failure" THEN <<n>> ELSE <<>>
                    kept == IF n = restore.late THEN rest \o own ELSE own \o rest
                IN  RestoreEnds(PreserveAll(ui, kept), Kept)
             /\ closes' = Tail(closes)
             /\ batch' = [batch EXCEPT !.dirty = TRUE,
                                       !.gone = IF end = "warning" THEN @ \cup {n} ELSE @]
          \/ /\ Head(opens).kind = "restore" /\ (~Exiting \/ end = "clean")
             /\ LET u == IF end = "failure" THEN Preserve(ui, n) ELSE ui IN
                IF Len(restore.done) > 1
                THEN GiveBack(Tail(closes), None, Tail(restore.done)) /\ ui' = u
                ELSE RestoreEnds(GivenBack(u), Kept) /\ closes' = Tail(closes)
             /\ UNCHANGED batch
    /\ UNCHANGED <<exists, actions, gates, anchor, exited, history>>

(* The shell after a close: the selected tab, or else the successor of the   *)
(* one that was active when its close was asked for. The gate of another     *)
(* close turns that selection away, and the next close to end tries again.   *)
AfterClose(n, u, a, q) ==
    LET successor == Successor(a.order, a.id, Tabs(u))
        next == IF successor = None THEN Head(u.tabs) ELSE successor
    IN  \/ /\ u.active # None
           /\ ui' = u /\ anchor' = IF n = a.id THEN NoAnchor ELSE a
           /\ UNCHANGED opens
        \/ /\ u.active = None /\ u.tabs = <<>>
           /\ ui' = [u EXCEPT !.selected = None] /\ anchor' = NoAnchor
           /\ UNCHANGED opens
        \/ /\ u.active = None /\ Has(u, u.selected)
           /\ ui' = Activate(u, u.selected) /\ anchor' = NoAnchor
           /\ UNCHANGED opens
        \/ /\ u.active = None /\ u.tabs # <<>> /\ ~Has(u, u.selected)
           /\ IF BlockedWhile(q)
              THEN ui' = u /\ anchor' = a /\ UNCHANGED opens
              ELSE /\ ui' = Show(u, next) /\ anchor' = NoAnchor
                   /\ opens' = Publish(opens, next)

CloseTab(n) ==
    /\ Gesture /\ Has(ui, n)
    /\ LET from == IF ui.active = n THEN [id |-> n, order |-> ui.tabs] ELSE anchor IN
       IF CloseRefused
       THEN AfterClose(n, ui, from, closes) /\ UNCHANGED <<closes, history>>
       ELSE /\ closes' = Append(closes, [kind |-> "tab", note |-> n])
            /\ opens' = Fence(opens)
            /\ IF opens = <<>> THEN UNCHANGED history ELSE Excuse({})
            /\ anchor' = from
            /\ UNCHANGED ui
    /\ UNCHANGED <<exists, core, restore, batch, actions, gates, exited>>

TabClosed(end) ==
    /\ CloseTurn("tab")
    /\ LET n == Head(closes).note
           live == Has(ui, n) \/ n \in ui.retained
       IN  IF live
           THEN /\ end \in CloseEnds(n) /\ Charge(CloseCost(n, end))
                /\ core' = CoreAfter(n, end)
                /\ AfterClose(n, IF end = "failure" THEN ui ELSE Retire(ui, {n}, FALSE),
                              anchor, Tail(closes))
           ELSE /\ end = "clean" /\ UNCHANGED <<core, spent>>
                /\ AfterClose(n, ui, anchor, Tail(closes))
    /\ closes' = Tail(closes)
    /\ UNCHANGED <<exists, restore, batch, actions, gates, exited, history>>

-----------------------------------------------------------------------------
(* Batches: close all, close the others, and the close that an exit waits    *)
(* for. A batch fences the open in progress, lets the open queue settle and  *)
(* takes its turn in the close queue; nothing comes between its closes.      *)

StartBatch(kind, keep) ==
    /\ Gesture
    /\ kind = "others" => ~ClosingTab(closes) /\ Has(ui, keep)
    /\ kind = "all" => ui.tabs # <<>>
    /\ ~CloseRefused
    /\ batch' = [kind |-> kind, keep |-> keep, dirty |-> FALSE, gone |-> {},
                 saved |-> SavedIds(ui) \ {closes[i].note : i \in
                              {j \in DOMAIN closes : closes[j].kind = "tab"}}]
    /\ opens' = Fence(opens)
    /\ IF opens = <<>> THEN UNCHANGED history ELSE Excuse({})
    /\ UNCHANGED <<exists, core, ui, restore, closes, actions, gates, anchor, exited>>

(* A cancelled batch shows the tab that follows the one that was active.     *)
Reselect(u, order, active) ==
    LET later == {order[j] : j \in {k \in DOMAIN order :
                                      \E i \in DOMAIN order : order[i] = active /\ i < k}}
        after == Without(u.tabs, Tabs(u) \ later)
    IN  IF u.active # None THEN u
        ELSE IF u.tabs = <<>> THEN [u EXCEPT !.selected = None]
        ELSE IF active \notin Range(order) THEN Show(u, Head(u.tabs))
        ELSE IF after # <<>> THEN Show(u, Head(after))
        ELSE Show(u, u.tabs[Len(u.tabs)])

(* The shell after close all, whatever came of it.                           *)
AfterCloseAll(u, blocked) ==
    IF u.tabs = <<>> THEN ui' = [u EXCEPT !.selected = None] /\ UNCHANGED opens
    ELSE IF u.active # None THEN ui' = u /\ UNCHANGED opens
    ELSE IF blocked THEN ui' = Activate(u, Head(u.tabs)) /\ UNCHANGED opens
    ELSE ui' = Show(u, Head(u.tabs)) /\ opens' = Publish(opens, Head(u.tabs))

CloseAllRefused ==
    /\ Gesture /\ CloseRefused /\ ui.tabs # <<>>
    /\ AfterCloseAll(ui, TRUE)
    /\ history' = [history EXCEPT !.quirks = @ \cup
                      (IF ui.active = None THEN {"slipped"} ELSE {})]
    /\ UNCHANGED <<exists, core, restore, closes, batch, actions, gates, anchor, exited>>

BatchTurn == Settled /\ batch # None /\ opens = <<>> /\ closes = <<>>
AfterBatch(u) ==
    IF batch.kind = "all" THEN AfterCloseAll(u, FALSE) ELSE ui' = u /\ UNCHANGED opens

Batched == (Tabs(ui) \cup ui.retained) \ {batch.keep}

(* A late open was not given back cleanly while the exit waited for it: the  *)
(* exit does not wait for the close queue. Or the tab to keep is gone.       *)
BatchOff ==
    /\ \/ /\ opens = <<>> /\ Soiled /\ ~exited
          /\ ui' = Reselect(RemoveSaved(ui, batch.gone), ui.tabs, ui.active)
       \/ /\ BatchTurn /\ batch.kind = "others" /\ ~Has(ui, batch.keep)
          /\ UNCHANGED ui
    /\ batch' = None
    /\ UNCHANGED <<exists, core, opens, restore, closes, actions, gates, anchor,
                   exited, history, spent>>

BatchMayClose == BatchTurn /\ (batch.kind = "others" => Has(ui, batch.keep))

(* Every close is clean. The exit then waits for the snapshot to be saved.   *)
BatchClosed(saved) ==
    /\ BatchMayClose /\ Batched \subseteq core
    /\ core' = core \ Batched
    /\ LET u == Retire(ui, Batched, Exiting) IN
       \/ /\ batch.kind = "all" /\ saved
          /\ AfterBatch(u) /\ UNCHANGED <<exited, history>>
       \/ /\ batch.kind = "others" /\ saved
          /\ ui' = Show(u, batch.keep) /\ opens' = Publish(opens, batch.keep)
          /\ UNCHANGED <<exited, history>>
       \/ /\ Exiting /\ saved
          /\ ui' = u /\ exited' = TRUE /\ UNCHANGED <<opens, history>>
       \/ /\ Exiting /\ ~saved
          /\ ui' = [u EXCEPT !.selected = None]
          /\ history' = [history EXCEPT !.quirks = @ \cup {"unsaved"}]
          /\ UNCHANGED <<opens, exited>>
    /\ Charge(IF saved THEN 0 ELSE 1)
    /\ batch' = None
    /\ UNCHANGED <<exists, restore, closes, actions, gates, anchor>>

(* The first close that is not clean, of `bad`, ends the batch: the tabs in  *)
(* their order, then the retained sessions.                                  *)
BatchCancelled(bad, before, end) ==
    /\ BatchMayClose /\ bad \in Batched
    /\ before = IF Has(ui, bad)
                THEN {ui.tabs[i] : i \in {j \in DOMAIN ui.tabs :
                        \E k \in DOMAIN ui.tabs : ui.tabs[k] = bad /\ j < k}} \ {batch.keep}
                ELSE (Tabs(ui) \ {batch.keep}) \cup (before \cap (ui.retained \ {bad}))
    /\ before \subseteq core
    /\ end \in CloseEnds(bad) \ {"clean"} /\ Charge(CloseCost(bad, end))
    /\ core' = CoreAfter(bad, end) \ before
    /\ LET gone == before \cup (IF end = "warning" THEN {bad} ELSE {})
           u == Retire(ui, gone, FALSE)
       IN  AfterBatch(Reselect(u, ui.tabs, ui.active))
    /\ batch' = None
    /\ UNCHANGED <<exists, restore, closes, actions, gates, anchor, exited, history>>

-----------------------------------------------------------------------------
(* Rescans and reloads: each holds its gate until the Core answers.          *)

Rescan ==
    /\ Gesture /\ ~Blocked
    /\ Tabs(ui) \cup IdIn(ui.active) \cup ui.retained \subseteq core   \* every poll answers
    /\ gates' = [gates EXCEPT !.rescan = TRUE]
    /\ opens' = Fence(opens)
    /\ IF opens = <<>> THEN UNCHANGED history ELSE Excuse({})
    /\ UNCHANGED <<exists, core, ui, restore, closes, batch, actions, anchor, exited>>

Reload ==
    /\ Gesture /\ ~Blocked /\ ui.active # None
    /\ gates' = [gates EXCEPT !.reload = TRUE]
    /\ UNCHANGED <<exists, core, ui, opens, restore, closes, batch, actions, anchor,
                   exited, history>>

Answered ==
    /\ Settled
    /\ \/ gates.rescan /\ opens = <<>> /\ gates' = [gates EXCEPT !.rescan = FALSE]
       \/ gates.reload /\ gates' = [gates EXCEPT !.reload = FALSE]
    /\ UNCHANGED <<exists, core, ui, opens, restore, closes, batch, actions, anchor,
                   exited, history, spent>>

-----------------------------------------------------------------------------
(* Lifecycle actions. Submitting one holds the gate and fences the open in   *)
(* progress; its body runs once the open queue has settled and those before  *)
(* it are done. It remembers what is active and selected when it sends its   *)
(* request, and what it asks for shows in the answer: a target that is gone  *)
(* is a failed request.                                                      *)

Submit ==
    /\ Gesture
    /\ ~gates.reload /\ ~gates.rescan /\ batch = None /\ ~ClosingTab(closes)
    /\ actions' = Append(actions, [pc |-> "queued", old |-> None, new |-> None])
    /\ opens' = Fence(opens)
    /\ IF opens = <<>> THEN UNCHANGED history ELSE Excuse({})
    /\ UNCHANGED <<exists, core, ui, restore, closes, batch, gates, anchor, exited>>

Request ==
    /\ Settled /\ actions # <<>> /\ actions[1].pc = "queued" /\ opens = <<>>
    /\ actions' = [actions EXCEPT ![1] =
                      [pc |-> "asked", old |-> ui.active, new |-> ui.selected]]
    /\ UNCHANGED <<exists, core, ui, opens, restore, closes, batch, gates, anchor,
                   exited, history, spent>>

(* The request is answered; no open can have joined the queue since.         *)
Turn(op) ==
    Settled /\ op \in Ops /\ actions # <<>> /\ actions[1].pc = "asked" /\ opens = <<>>

(* The editor is where it was when the request was sent. Otherwise a refused *)
(* close has activated a tab, and the answer is left without effect on the   *)
(* tabs, those of the Notes it concerns included.                            *)
Expected == ui.active = actions[1].old /\ ui.selected = actions[1].new
Missed(n) == IF ~Expected /\ n \in Tabs(ui) \cup ui.retained \cup IdIn(ui.selected)
             THEN {"overtaken"} ELSE {}

Ends(u) == ui' = u /\ actions' = Tail(actions) /\ UNCHANGED opens

(* openForLifecycle: the body waits for an open of its own.                  *)
Opening(u, pc, old, new, from) ==
    /\ ui' = u
    /\ opens' = <<Task("life", new, from)>>
    /\ actions' = [actions EXCEPT ![1] = [pc |-> pc, old |-> old, new |-> new]]

(* After a failed request: the selection that the admission fenced.          *)
AfterRequestFailed ==
    IF ~Expected \/ ui.selected \in {None, ui.active} THEN Ends(ui)
    ELSE Opening(ui, "restored", None, ui.selected, None)

(* After success: only if nothing is active, and the selection did not move. *)
AfterSuccess(u) ==
    IF u.selected = None \/ u.active # None \/ u.selected # ui.selected THEN Ends(u)
    ELSE Opening(u, "restored", None, u.selected, None)

BodyUnchanged == UNCHANGED <<restore, closes, batch, gates, anchor, exited>>

RequestFails ==
    /\ \E op \in Ops : Turn(op)
    /\ AfterRequestFailed
    /\ BodyUnchanged /\ UNCHANGED <<exists, core, history, spent>>

(* The Core opens the Note it creates; where that is not wanted any more,    *)
(* its session is given back (ActionCreated).                                *)
Create(n) ==
    /\ Turn("create") /\ n \in Notes \ exists
    /\ exists' = exists \cup {n}
    /\ core' = core \cup {n}
    /\ \/ Expected /\ Opening(ui, "created", None, n, None)
       \/ /\ ~Expected
          /\ actions' = [actions EXCEPT ![1] = [pc |-> "unadopted", old |-> None, new |-> n]]
          /\ UNCHANGED <<ui, opens>>
    /\ BodyUnchanged /\ UNCHANGED <<history, spent>>

(* The Core has retired the session with the Note.                           *)
Unselect(u, n) ==
    IF u.selected # n THEN u
    ELSE IF u.active \notin {None, n} THEN [u EXCEPT !.selected = u.active]
    ELSE [Clear(u) EXCEPT !.selected = None]

Delete(n) ==
    /\ Turn("delete") /\ n \in exists
    /\ exists' = exists \ {n}
    /\ core' = core \ {n}
    /\ LET next == IF ui.active = n THEN Successor(ui.tabs, n, Tabs(ui) \ {n}) ELSE None
           u == Unselect(Discard(ui, n), n)
       IN  IF ~Expected THEN Ends(ui)
           ELSE AfterSuccess(IF next # None /\ u.active = None /\ u.selected = None
                             THEN Show(u, next) ELSE u)
    /\ history' = [history EXCEPT !.quirks = @ \cup Missed(n)]
    /\ BodyUnchanged /\ UNCHANGED spent

Reidentified(S, old, new) == IF old \in S THEN (S \ {old}) \cup {new} ELSE S
Reidentify(old, new) ==
    /\ old \in exists /\ new \in Notes \ exists
    /\ exists' = Reidentified(exists, old, new)

(* A rewritten Note is read again. One that cannot be read is not shown any  *)
(* more; the Core keeps its session.                                         *)
Unreadable(u, bad) ==
    IF bad = None THEN u
    ELSE IF u.active = bad THEN RetainActive(u, bad, bad) ELSE RetainTab(u, bad, bad)

Rename(old, new, bad) ==
    /\ Turn("rename") /\ Reidentify(old, new)
    /\ core' = Reidentified(core, old, new)
    /\ LET waits == ui.active = None /\ ui.selected = old
           u == IF ui.active = old THEN [Adopt(ui, new, old) EXCEPT !.selected = new]
                ELSE ReplaceTab(ui, old, new)
       IN  \/ /\ ~Expected /\ bad = None /\ UNCHANGED spent
              /\ Ends(ui)
           \/ /\ Expected /\ waits /\ bad = None /\ UNCHANGED spent
              /\ Opening(ui, "renamed", old, new, old)
           \/ /\ Expected /\ ~waits /\ bad \in (Tabs(u) \ {new}) \cup {None}
              /\ Charge(IF bad = None THEN 0 ELSE 1)
              /\ IF bad = None THEN AfterSuccess(u) ELSE Ends(Unreadable(u, bad))
    /\ history' = [history EXCEPT !.excused = @ \/ bad # None, !.quirks = @ \cup
                      (IF old \in ui.retained \ Tabs(ui) THEN {"rehomed"} ELSE {}) \cup
                      (IF ui.active = None /\ ui.selected = old /\ Has(ui, old)
                       THEN {"twice"} ELSE {}) \cup Missed(old)]
    /\ BodyUnchanged

(* A rename of the Directory `old` is in: the active Note, or else the       *)
(* selected one, is read again under its new id, and so is an inactive tab.  *)
(* `unread` is what cannot be read: a session that cannot be shown goes back *)
(* to the Core, or is retained when the Core refuses. A reading that a       *)
(* refused close has overtaken may have opened a session all the same.       *)
Redirect(old, new, unread, end) ==
    /\ Turn("redirect") /\ Reidentify(old, new)
    /\ LET anchored == old = (IF actions[1].old = None THEN actions[1].new ELSE actions[1].old)
           carried == Reidentified(core, old, new)
           kept == ui.active = old /\ Has(ui, old)
           revoked == LET u == RetainActive(ui, old, new)
                      IN  IF u.selected = old THEN [u EXCEPT !.selected = new] ELSE u
           read == anchored \/ Has(ui, old)
       IN  \/ /\ ~Expected /\ ~unread /\ end = "clean" /\ UNCHANGED spent
              /\ core' \in {carried} \cup (IF ui.selected = old \/ Has(ui, old)
                                           THEN {carried \cup {new}} ELSE {})
              /\ Ends(ui)
           \/ /\ Expected /\ ~unread /\ end = "clean" /\ UNCHANGED spent
              /\ core' = IF read THEN carried \cup {new} ELSE carried
              /\ AfterSuccess(RekeyRetained(
                    IF anchored THEN [Adopt(ui, new, old) EXCEPT !.selected = new]
                    ELSE ReplaceTab(ui, old, new), old, new))
           \/ /\ Expected /\ unread /\ anchored /\ end = "clean" /\ Charge(1)
              /\ core' = carried
              /\ Ends(RekeyRetained(IF kept THEN revoked ELSE ReplaceTab(ui, old, new), old, new))
           \/ /\ unread /\ ~anchored /\ read
              /\ end \in {"clean", "warning", "failure"}
              /\ Charge(1)
              /\ core' = IF end = "failure" THEN carried ELSE carried \ {new}
              /\ Ends(IF end # "failure" THEN Discard(ui, old)
                      ELSE IF ui.active = old THEN ui ELSE RetainTab(ui, old, new))
    /\ history' = [history EXCEPT !.excused = @ \/ unread, !.quirks = @ \cup
                      (IF ui.active = None /\ ui.selected = old THEN {"unmounted"} ELSE {}) \cup
                      Missed(old)]
    /\ BodyUnchanged

(* A Directory is created.                                                   *)
Other ==
    /\ Turn("other")
    /\ AfterSuccess(ui)
    /\ BodyUnchanged /\ UNCHANGED <<exists, core, history, spent>>

(* The body goes on when its own open has ended.                             *)
Resumes(pc) == ~Ready(opens) /\ opens = <<>> /\ ~exited /\ BodyPaused /\ actions[1].pc = pc
ResumeUnchanged == UNCHANGED <<exists, restore, closes, batch, gates, anchor, exited>>

ActionRestored ==
    /\ Resumes("restored")
    /\ Ends(ui)
    /\ ResumeUnchanged /\ UNCHANGED <<core, history, spent>>

ActionRenamed(bad) ==
    /\ Resumes("renamed")
    /\ LET old == actions[1].old
           new == actions[1].new
           u == ReplaceTab([ui EXCEPT !.selected = new], old, new)
       IN  \/ /\ ui.active # new /\ bad = None /\ UNCHANGED spent
              /\ Ends(ui)
           \/ /\ ui.active = new /\ bad \in (Tabs(u) \ {new}) \cup {None}
              /\ Charge(IF bad = None THEN 0 ELSE 1)
              /\ Ends(Unreadable(u, bad))
    /\ history' = [history EXCEPT !.excused = @ \/ bad # None]
    /\ ResumeUnchanged /\ UNCHANGED core

(* A created Note that did not become active goes back to the Core, unless a *)
(* tab shows it: the selected tab then wins over it.                         *)
ActionCreated(end) ==
    /\ Resumes("created") \/ Resumes("unadopted")
    /\ LET n == actions[1].new
           opened == actions[1].pc = "created" /\ ui.active = n
           mounted ==
               IF ui.active = ui.selected THEN ui
               ELSE IF Has(ui, ui.selected) THEN Activate(ui, ui.selected)
               ELSE IF ui.active # None THEN [ui EXCEPT !.selected = ui.active]
               ELSE Show(ui, n)
           u == Discard(ui, n)
           retired ==
               IF Has(u, u.selected) THEN Activate(u, u.selected)
               ELSE [u EXCEPT !.selected = u.active]
       IN  \/ /\ opened /\ end = "clean"
              /\ Ends([ui EXCEPT !.selected = n])
              /\ UNCHANGED <<core, spent>>
           \/ /\ ~opened /\ (ui.active = n \/ Has(ui, n)) /\ end = "clean"
              /\ Ends(mounted)
              /\ UNCHANGED <<core, spent>>
           \/ /\ ui.active # n /\ ~Has(ui, n)
              /\ end \in CloseEnds(n) /\ Charge(CloseCost(n, end))
              /\ core' = CoreAfter(n, end)
              /\ Ends(IF end = "failure" THEN ui ELSE retired)
    /\ history' = [history EXCEPT !.quirks = @ \cup
                      (IF end = "failure" /\ actions[1].new \in core THEN {"orphaned"} ELSE {})]
    /\ ResumeUnchanged

-----------------------------------------------------------------------------
Ending == {"clean", "warning", "failure"}

(* Steps of the program: the answers of the Core, and what follows them.     *)
Program ==
    \/ OpenStart \/ OpenAnswered \/ OpenFailed \/ BatchOff \/ Answered
    \/ Request \/ RequestFails \/ Other \/ ActionRestored
    \/ \E n \in Notes : RestoreAnswered(n) \/ RestoreFailed(n) \/ Create(n) \/ Delete(n)
    \/ \E saved \in BOOLEAN : BatchClosed(saved)
    \/ \E bad \in Notes \cup {None} : ActionRenamed(bad)
    \/ \E end \in Ending :
        \/ RetireAnswered(end) \/ TabClosed(end) \/ ActionCreated(end)
        \/ \E bad \in Notes, before \in SUBSET Notes : BatchCancelled(bad, before, end)
        \/ \E old, new \in Notes, unread \in BOOLEAN : Redirect(old, new, unread, end)
    \/ \E old, new \in Notes, bad \in Notes \cup {None} : Rename(old, new, bad)

(* Gestures of the user.                                                     *)
User ==
    \/ CloseAllRefused \/ Rescan \/ Reload \/ Submit
    \/ \E n \in Notes : Select(n) \/ CloseTab(n) \/ StartBatch("others", n)
    \/ \E kind \in {"all", "exit"} : StartBatch(kind, None)

Next == User \/ Program

Spec == Init /\ [][Next]_vars

(* Every Core call answers, and the isolate runs what its answer completes.  *)
FairSpec == Spec /\ WF_vars(Program)

-----------------------------------------------------------------------------
(* Properties.                                                               *)

AtRest ==
    /\ opens = <<>> /\ closes = <<>> /\ batch = None /\ actions = <<>>
    /\ ~gates.rescan /\ ~gates.reload /\ ~exited

Excused == history.quirks \cap Quirks # {}
Shown(u) == Tabs(u) \cup u.retained

TypeOK ==
    /\ exists \subseteq Notes /\ core \subseteq Notes
    /\ Shown(ui) \cup SavedIds(ui) \cup IdIn(ui.active) \cup IdIn(ui.selected) \subseteq Notes

(* What can be typed into or closed is a session the Core still holds, and   *)
(* once the queues have drained every session of the Core has an owner on    *)
(* this side: a tab, or the list of those whose close is still owed. A lost  *)
(* one would keep its edits from every later exit (retainUnpresentable-,     *)
(* _preserveUnretiredTab, _retireSupersededTabOpen).                         *)
SessionsMatchTabs ==
    ~Excused => /\ AtRest => core \subseteq Shown(ui)
                /\ ~Blocked /\ ~exited => Shown(ui) \cup IdIn(ui.active) \subseteq core

(* No Note has two tabs and the editor shows one of them. At rest it shows   *)
(* one whenever there is one, and the one that was selected last, unless the *)
(* open of it failed or was fenced: a slow answer never takes the place of a *)
(* later selection (enqueueOpen, reconcileLifecycleTabs, _reconcileAfter-).  *)
ShowsTheSelection ==
    ~Excused => /\ \A i, j \in DOMAIN ui.tabs : ui.tabs[i] = ui.tabs[j] => i = j
                /\ ui.active # None => Has(ui, ui.active)
                /\ AtRest /\ ~history.excused =>
                      /\ ui.tabs # <<>> => ui.active # None
                      /\ ui.selected # None => ui.active = ui.selected

(* An exit is granted only once every session was closed cleanly, late opens *)
(* included, and leaves in the snapshot what it named when the exit was      *)
(* asked for (the exit lease of closeAllForExit).                            *)
ExitHonoured ==
    [][exited' => /\ ~Excused' => core' = {}
                  /\ batch.saved \cap exists \subseteq SavedIds(ui)']_vars

(* At rest the snapshot names the tabs, the retained sessions and the Notes  *)
(* that restoration could not open, and nothing else: the next start reopens *)
(* what is open now, under the ids the Notes have now.                       *)
SnapshotNamesTabs ==
    AtRest /\ ~Excused => /\ Shown(ui) \subseteq SavedIds(ui)
                          /\ SavedIds(ui) \subseteq Shown(ui) \cup restore.retry

(* The queues never wait for each other: an open that retires its session    *)
(* waits for the close queue, a batch and the body of an action for the      *)
(* opens, and all of them end.                                               *)
TabsSettle == ~AtRest ~> AtRest \/ exited

(* An open that reaches the Core for the user is of what is selected.        *)
OpensWhatIsSelected ==
    [][opens' # <<>> /\ opens # <<>> /\ opens'[1].kind = "user" /\ opens[1].pc = "queued"
        /\ opens'[1].pc = "core" => ui.selected = opens'[1].note]_vars
=============================================================================
