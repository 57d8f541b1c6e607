--------------------------- MODULE SyncScheduler ---------------------------
(***************************************************************************)
(* The background sync worker (rust/src/sync/scheduler.rs): one thread that *)
(* waits on a channel of commands until the soonest of three deadlines, and *)
(* then runs one push, or the pull, merge and re-index a rejected push      *)
(* leads to. Closes of Notes commit and notify it, another device moves the *)
(* remote, and its owner may stop it.                                       *)
(*                                                                          *)
(* A deadline is kept as the time left until it, which saturates at zero as *)
(* `saturating_duration_since` does: the specification needs no clock. How  *)
(* long a push, a pull or a re-index takes is open, and so is its outcome.  *)
(***************************************************************************)
EXTENDS Naturals, Sequences

CONSTANTS
    Debounce, PollInterval, BackoffBase, BackoffCap,   \* SyncConfig
    MaxInbox,                                          \* bound: queued commands
    None

ASSUME ConfigAssumption ==
    /\ Debounce \in Nat /\ PollInterval \in Nat
    /\ BackoffBase \in Nat /\ BackoffCap \in Nat /\ BackoffBase <= BackoffCap
ASSUME InboxAssumption == MaxInbox \in Nat
ASSUME NoneAssumption == None \notin Nat

VARIABLES
    inbox,      \* the channel: "activity" and "stop"
    notifying,  \* a commit was made whose notification is still to be sent
    stopping,   \* stop() was called
    pc,         \* where the worker is
    debounce, poll, backoff,   \* time left to each deadline, or None
    delay,      \* the next backoff
    merged,     \* what the merge of this cycle came to
    status, lastError,
    unpushed,   \* commits are here that the remote does not have
    late,       \* ... some of them made since the running push began
    behind,     \* the remote has commits that are not here
    stale       \* a merge brought in Notes the index does not describe

commands  == <<inbox, notifying, stopping>>
deadlines == <<debounce, poll, backoff, delay>>
report    == <<status, lastError>>
repo      == <<unpushed, late, behind, stale>>
vars      == <<commands, pc, deadlines, merged, report, repo>>

Init ==
    /\ inbox = <<>>
    /\ notifying = FALSE
    /\ stopping = FALSE
    /\ pc = "wait"
    /\ debounce = None
    /\ poll = PollInterval
    /\ backoff = None
    /\ delay = BackoffBase
    /\ merged = "none"
    /\ status = "Idle"
    /\ lastError = None
    /\ unpushed \in BOOLEAN
    /\ late = FALSE
    /\ behind \in BOOLEAN
    /\ stale = FALSE

-----------------------------------------------------------------------------
(* Around the worker.                                                        *)

Commit ==
    /\ ~stopping
    /\ ~notifying
    /\ unpushed' = TRUE
    /\ late' = (pc = "push")
    /\ notifying' = TRUE
    /\ UNCHANGED <<inbox, stopping, pc, deadlines, merged, report, behind, stale>>

NotifyActivity ==
    /\ notifying
    /\ Len(inbox) < MaxInbox
    /\ inbox' = Append(inbox, "activity")
    /\ notifying' = FALSE
    /\ UNCHANGED <<stopping, pc, deadlines, merged, report, repo>>

Stop ==
    /\ ~stopping
    /\ stopping' = TRUE
    /\ inbox' = Append(inbox, "stop")
    /\ UNCHANGED <<notifying, pc, deadlines, merged, report, repo>>

RemoteMoves ==
    /\ ~behind
    /\ behind' = TRUE
    /\ UNCHANGED <<commands, pc, deadlines, merged, report, unpushed, late, stale>>

Sooner(left) == IF left = None \/ left = 0 THEN left ELSE left - 1

Tick ==
    /\ pc # "exited"
    /\ debounce' = Sooner(debounce)
    /\ poll' = Sooner(poll)
    /\ backoff' = Sooner(backoff)
    /\ UNCHANGED <<commands, pc, delay, merged, report, repo>>

-----------------------------------------------------------------------------
(* The worker's loop.                                                        *)

(* Mutation: activity puts the poll off as well.                             *)
ReceiveActivityRestartsPoll ==
    /\ pc = "wait"
    /\ inbox # <<>> /\ Head(inbox) = "activity"
    /\ inbox' = Tail(inbox)
    /\ debounce' = Debounce
    /\ poll' = PollInterval
    /\ UNCHANGED <<notifying, stopping, pc, backoff, delay, merged, report, repo>>

(* A command that is in the channel is received before a deadline is seen.   *)
ReceiveActivity ==
    /\ pc = "wait"
    /\ inbox # <<>> /\ Head(inbox) = "activity"
    /\ inbox' = Tail(inbox)
    /\ debounce' = Debounce
    /\ UNCHANGED <<notifying, stopping, pc, poll, backoff, delay, merged, report, repo>>

ReceiveStop ==
    /\ pc = "wait"
    /\ inbox # <<>> /\ Head(inbox) = "stop"
    /\ inbox' = Tail(inbox)
    /\ pc' = "exited"
    /\ UNCHANGED <<notifying, stopping, deadlines, merged, report, repo>>

(* One cycle per wake: a due retry first, then a due debounce, then a poll.  *)
(* Only the deadline that led to the cycle is cleared.                       *)
TakeDeadline ==
    \/ /\ backoff = 0
       /\ backoff' = None
       /\ UNCHANGED <<debounce, poll>>
    \/ /\ backoff # 0 /\ debounce = 0
       /\ debounce' = None
       /\ UNCHANGED <<poll, backoff>>
    \/ /\ backoff # 0 /\ debounce # 0 /\ poll = 0
       /\ poll' = PollInterval
       /\ UNCHANGED <<debounce, backoff>>

(* Mutation: the deadlines are looked at before the channel.                 *)
WakeDeaf ==
    /\ pc = "wait"
    /\ TakeDeadline
    /\ pc' = "push"
    /\ late' = FALSE
    /\ status' = "Syncing"
    /\ UNCHANGED <<commands, delay, merged, lastError, unpushed, behind, stale>>

Wake ==
    /\ pc = "wait"
    /\ inbox = <<>>
    /\ TakeDeadline
    /\ pc' = "push"
    /\ late' = FALSE
    /\ status' = "Syncing"
    /\ UNCHANGED <<commands, delay, merged, lastError, unpushed, behind, stale>>

-----------------------------------------------------------------------------
(* One cycle: run_sync_cycle.                                                *)

Report(state, error) == status' = state /\ lastError' = error

NoRetry == backoff' = None /\ delay' = BackoffBase

(* Mutation: a cycle that ends in success leaves an earlier retry armed.     *)
PushOkKeepsRetry ==
    /\ pc = "push"
    /\ ~behind
    /\ Report("Idle", None)
    /\ delay' = BackoffBase
    /\ pc' = "wait"
    /\ unpushed' = late
    /\ late' = FALSE
    /\ UNCHANGED <<commands, debounce, poll, backoff, merged, behind, stale>>

PushOk ==
    /\ pc = "push"
    /\ ~behind
    /\ Report("Idle", None)
    /\ NoRetry
    /\ pc' = "wait"
    /\ unpushed' = late
    /\ late' = FALSE
    /\ UNCHANGED <<commands, debounce, poll, merged, behind, stale>>

(* Mutation: the delay doubles past the cap.                                 *)
DoubledUncapped(d) == 2 * d

(* The next delay doubles, up to the cap.                                    *)
Doubled(d) == IF 2 * d <= BackoffCap THEN 2 * d ELSE BackoffCap

PushNetworkError ==
    /\ pc = "push"
    /\ Report("Retrying", "network")
    /\ backoff' = delay
    /\ delay' = Doubled(delay)
    /\ pc' = "wait"
    /\ late' = FALSE
    /\ UNCHANGED <<commands, debounce, poll, merged, unpushed, behind, stale>>

(* Mutation: a refusal leaves the delay where network failures had got it.   *)
PushRefusedKeepsDelay(error) ==
    /\ pc = "push"
    /\ Report("Error", error)
    /\ backoff' = None
    /\ pc' = "wait"
    /\ late' = FALSE
    /\ UNCHANGED <<commands, debounce, poll, delay, merged, unpushed, behind, stale>>

(* Expired credentials, or an unexpected error: no retry of its own.         *)
PushRefused(error) ==
    /\ pc = "push"
    /\ Report("Error", error)
    /\ NoRetry
    /\ pc' = "wait"
    /\ late' = FALSE
    /\ UNCHANGED <<commands, debounce, poll, merged, unpushed, behind, stale>>

PushConflict ==
    /\ pc = "push"
    /\ behind
    /\ pc' = "pull"
    /\ late' = FALSE
    /\ UNCHANGED <<commands, deadlines, merged, report, unpushed, behind, stale>>

(* A pull that merges, cleanly or with conflict markers in the working tree. *)
PullMerges(outcome) ==
    /\ pc = "pull"
    /\ NoRetry
    /\ merged' = outcome
    /\ behind' = (outcome = "conflict")
    /\ stale' = TRUE
    /\ pc' = "reindex"
    /\ UNCHANGED <<commands, debounce, poll, report, unpushed, late>>

(* A pull that fails before a merge: nothing is new to index.                *)
PullFails(error) ==
    /\ pc = "pull"
    /\ NoRetry
    /\ Report("Error", error)
    /\ pc' = "wait"
    /\ UNCHANGED <<commands, debounce, poll, merged, repo>>

(* A conflict is reported over a failure to re-index; over a clean merge     *)
(* that failure is the report.                                               *)
Reindex(ok) ==
    /\ pc = "reindex"
    /\ stale' = (stale /\ ~ok)
    /\ \/ merged = "clean" /\ ok /\ Report("Idle", None)
       \/ merged = "clean" /\ ~ok /\ Report("Error", "reindex")
       \/ merged = "conflict" /\ Report("Conflict", "conflict")
    /\ merged' = "none"
    /\ pc' = "wait"
    /\ UNCHANGED <<commands, deadlines, unpushed, late, behind>>

-----------------------------------------------------------------------------

Cycle ==
    \/ PushOk \/ PushNetworkError \/ PushConflict
    \/ \E error \in {"auth", "other"} : PushRefused(error)
    \/ \E outcome \in {"clean", "conflict"} : PullMerges(outcome)
    \/ \E error \in {"network", "auth", "other"} : PullFails(error)
    \/ \E ok \in BOOLEAN : Reindex(ok)

Worker == ReceiveActivity \/ ReceiveStop \/ Wake \/ Cycle

Next == Commit \/ NotifyActivity \/ Stop \/ RemoteMoves \/ Tick \/ Worker

Spec == Init /\ [][Next]_vars

(* Time passes, a push, a pull and a re-index end, and a thread that waits   *)
(* on an empty channel past a deadline returns from the wait, however often  *)
(* a command reaches it first. Nobody has to commit, push elsewhere or stop. *)
Fairness ==
    /\ WF_vars(Tick)
    /\ WF_vars(NotifyActivity)
    /\ WF_vars(ReceiveActivity \/ ReceiveStop)
    /\ WF_vars(Cycle)
    /\ SF_vars(Wake)

FairSpec == Spec /\ Fairness

-----------------------------------------------------------------------------
(* Properties.                                                               *)

Left(most) == 0..most \cup {None}

TypeOK ==
    /\ inbox \in Seq({"activity", "stop"})
    /\ notifying \in BOOLEAN
    /\ stopping \in BOOLEAN
    /\ pc \in {"wait", "push", "pull", "reindex", "exited"}
    /\ debounce \in Left(Debounce)
    /\ poll \in 0..PollInterval
    /\ backoff \in Left(BackoffCap)
    /\ delay \in BackoffBase..BackoffCap
    /\ merged \in {"none", "clean", "conflict"}
    /\ status \in {"Idle", "Syncing", "Retrying", "Conflict", "Error"}
    /\ lastError \in {None, "network", "auth", "conflict", "other", "reindex"}
    /\ unpushed \in BOOLEAN
    /\ late \in BOOLEAN
    /\ behind \in BOOLEAN
    /\ stale \in BOOLEAN

(* While the worker waits, its status says Retrying exactly when a retry is  *)
(* armed: no retry is left over from a failure that a debounced or polled    *)
(* cycle has since resolved or replaced, and none is promised that will not  *)
(* come.                                                                     *)
RetryArmed == pc \in {"wait", "exited"} => (status = "Retrying" <=> backoff # None)

(* The delay a network failure is retried after starts at the base when the  *)
(* failures before it were resolved, and never exceeds the cap.              *)
BackoffBounded ==
    /\ backoff # None => backoff <= BackoffCap
    /\ status \notin {"Syncing", "Retrying"} => delay = BackoffBase

(* Once stop() has been called no further cycle begins, although deadlines   *)
(* may be due: the channel is served before them.                            *)
StopBeforeDeadlines == [][stopping /\ pc = "wait" => pc' # "push"]_vars

(* An Idle status never covers for Notes that a merge brought in and the     *)
(* index does not have.                                                      *)
IdleMeansIndexed == pc = "wait" /\ status = "Idle" => ~stale

(* A commit is followed by an attempt to push it, through activity that      *)
(* keeps postponing the debounce and through a notification that came before *)
(* or during the push of an earlier one.                                     *)
EventuallyAttempted == unpushed ~> pc \in {"push", "exited"}
=============================================================================
