------------------------ MODULE SyncScheduler_proofs ------------------------
(***************************************************************************)
(* Proofs about SyncScheduler for every configuration of the deadlines and  *)
(* every bound on the queue of commands.                                     *)
(***************************************************************************)
EXTENDS SyncScheduler, TLAPS

(* The doubled delay of run_sync_cycle's network arm stays between the base  *)
(* and the cap of the configuration.                                         *)
LEMMA DelayDoubles ==
    ASSUME NEW d \in BackoffBase..BackoffCap
    PROVE  Doubled(d) \in BackoffBase..BackoffCap
BY ConfigAssumption DEF Doubled

(* The worker's wait never makes a deadline grow: what is left of it stays   *)
(* within what it was armed with, and a deadline that is off stays off.      *)
LEMMA TimePasses ==
    ASSUME NEW most \in Nat, NEW left \in Left(most)
    PROVE  /\ Sooner(left) \in Left(most)
           /\ Sooner(left) = None <=> left = None
           /\ left # None => Sooner(left) \in 0..most
BY NoneAssumption DEF Left, Sooner

(* The channel keeps holding commands as they are sent and received.         *)
LEMMA ChannelTyped ==
    ASSUME NEW S, NEW queue \in Seq(S)
    PROVE  /\ \A command \in S : Append(queue, command) \in Seq(S)
           /\ queue # <<>> => Tail(queue) \in Seq(S)
OBVIOUS

(* TypeOK is inductive by itself. The report needs two facts more: between   *)
(* cycles Syncing is never shown, and a cycle that has come to its re-index  *)
(* has settled the retry already, which is why that step may report without  *)
(* touching it.                                                              *)
SyncingInCycle == status = "Syncing" <=> pc \in {"push", "pull", "reindex"}

PullSettlesRetry == pc = "reindex" => backoff = None /\ delay = BackoffBase

ReportInv == TypeOK /\ SyncingInCycle /\ PullSettlesRetry /\ RetryArmed /\ BackoffBounded

(* A worker that starts has nothing to retry.                                *)
LEMMA ReportInit == Init => ReportInv
<1> SUFFICES ASSUME Init PROVE ReportInv
  OBVIOUS
<1> USE ConfigAssumption, NoneAssumption DEF Init
<1>1. TypeOK
  <2>1. inbox \in Seq({"activity", "stop"}) /\ poll \in 0..PollInterval
    OBVIOUS
  <2>2. debounce \in Left(Debounce) /\ backoff \in Left(BackoffCap) /\ delay \in BackoffBase..BackoffCap
    BY DEF Left
  <2> QED
    BY <2>1, <2>2 DEF TypeOK
<1>2. SyncingInCycle /\ PullSettlesRetry /\ RetryArmed /\ BackoffBounded
  BY DEF SyncingInCycle, PullSettlesRetry, RetryArmed, BackoffBounded
<1> QED
  BY <1>1, <1>2 DEF ReportInv

(* What the rest of the program does to the worker: commits, notifications,  *)
(* stop(), another device, and time.                                         *)
LEMMA ReportAround ==
    ASSUME ReportInv, Commit \/ NotifyActivity \/ Stop \/ RemoteMoves \/ Tick
    PROVE  ReportInv'
<1> USE DEF ReportInv
<1>1. CASE Commit
  BY <1>1 DEF Commit, TypeOK, SyncingInCycle, PullSettlesRetry, RetryArmed, BackoffBounded,
              deadlines, report
<1>2. CASE NotifyActivity
  <2>1. inbox' \in Seq({"activity", "stop"})
    BY <1>2, ChannelTyped DEF NotifyActivity, TypeOK
  <2>2. /\ notifying' \in BOOLEAN
        /\ UNCHANGED <<stopping, pc, deadlines, merged, report, repo>>
    BY <1>2 DEF NotifyActivity
  <2> QED
    <3>1. TypeOK'
      BY <2>1, <2>2 DEF TypeOK, deadlines, report, repo
    <3> QED
      BY <3>1, <2>2 DEF SyncingInCycle, PullSettlesRetry, RetryArmed, BackoffBounded, deadlines,
                        report
<1>3. CASE Stop
  <2>1. inbox' \in Seq({"activity", "stop"})
    BY <1>3, ChannelTyped DEF Stop, TypeOK
  <2> QED
    BY <1>3, <2>1 DEF Stop, TypeOK, SyncingInCycle, PullSettlesRetry, RetryArmed,
                      BackoffBounded, deadlines, report, repo
<1>4. CASE RemoteMoves
  BY <1>4 DEF RemoteMoves, TypeOK, SyncingInCycle, PullSettlesRetry, RetryArmed, BackoffBounded,
              commands, deadlines, report
<1>5. CASE Tick
  <2>1. /\ debounce' \in Left(Debounce)
        /\ backoff' \in Left(BackoffCap)
        /\ backoff' = None <=> backoff = None
    BY <1>5, TimePasses, ConfigAssumption DEF Tick, TypeOK
  <2>2. poll' \in 0..PollInterval
    BY <1>5, ConfigAssumption, NoneAssumption DEF Tick, TypeOK, Sooner
  <2>3. TypeOK'
    BY <1>5, <2>1, <2>2 DEF Tick, TypeOK, commands, report, repo
  <2>4. SyncingInCycle' /\ PullSettlesRetry' /\ RetryArmed'
    BY <1>5, <2>1 DEF Tick, SyncingInCycle, PullSettlesRetry, RetryArmed, report
  <2>5. BackoffBounded'
    BY <1>5, <2>1 DEF Tick, BackoffBounded, Left, report
  <2> QED
    BY <2>3, <2>4, <2>5
<1> QED
  BY <1>1, <1>2, <1>3, <1>4, <1>5

(* The worker's own steps between cycles: a command, or the deadline that    *)
(* begins the next cycle.                                                    *)
LEMMA ReportWaits ==
    ASSUME ReportInv, ReceiveActivity \/ ReceiveStop \/ Wake
    PROVE  ReportInv'
<1> USE DEF ReportInv
<1>1. CASE ReceiveActivity
  <2>1. inbox' \in Seq({"activity", "stop"}) /\ debounce' \in Left(Debounce)
    BY <1>1, ChannelTyped, ConfigAssumption DEF ReceiveActivity, TypeOK, Left
  <2> QED
    BY <1>1, <2>1 DEF ReceiveActivity, TypeOK, SyncingInCycle, PullSettlesRetry, RetryArmed,
                      BackoffBounded, report, repo
<1>2. CASE ReceiveStop
  <2>1. inbox' \in Seq({"activity", "stop"})
    BY <1>2, ChannelTyped DEF ReceiveStop, TypeOK
  <2> QED
    BY <1>2, <2>1 DEF ReceiveStop, TypeOK, SyncingInCycle, PullSettlesRetry, RetryArmed,
                      BackoffBounded, deadlines, report, repo
<1>3. CASE Wake
  <2>1. /\ debounce' \in Left(Debounce)
        /\ poll' \in 0..PollInterval
        /\ backoff' \in Left(BackoffCap)
        /\ backoff' # None => backoff' <= BackoffCap
    BY <1>3, ConfigAssumption DEF Wake, TakeDeadline, TypeOK, Left, BackoffBounded
  <2>2. TypeOK'
    BY <1>3, <2>1 DEF Wake, TypeOK, commands
  <2> QED
    BY <1>3, <2>1, <2>2 DEF Wake, SyncingInCycle, PullSettlesRetry, RetryArmed, BackoffBounded
<1> QED
  BY <1>1, <1>2, <1>3

(* The steps of run_sync_cycle: each way out of the cycle reports, and has   *)
(* settled the retry by then.                                                *)
LEMMA ReportCycle ==
    ASSUME ReportInv, Cycle
    PROVE  ReportInv'
<1> USE ConfigAssumption, NoneAssumption DEF ReportInv, Left
<1>1. CASE PushOk
  <2>1. TypeOK'
    <3>1. /\ UNCHANGED <<inbox, notifying, stopping, debounce, poll, merged, behind, stale>>
          /\ backoff' \in Left(BackoffCap) /\ delay' \in BackoffBase..BackoffCap
      BY <1>1 DEF PushOk, NoRetry, commands
    <3>2. pc' = "wait" /\ unpushed' \in BOOLEAN /\ late' \in BOOLEAN
      BY <1>1, Zenon DEF PushOk, TypeOK
    <3>3. /\ status' \in {"Idle", "Error"}
          /\ lastError' \in {None, "auth", "other"}
      BY <1>1, Zenon DEF PushOk, Report
    <3> QED
      BY <3>1, <3>2, <3>3 DEF TypeOK
  <2>2. SyncingInCycle' /\ PullSettlesRetry' /\ RetryArmed' /\ BackoffBounded'
    BY <1>1 DEF PushOk, Report, NoRetry, SyncingInCycle, PullSettlesRetry, RetryArmed,
                BackoffBounded
  <2> QED
    BY <2>1, <2>2
<1>2. CASE PushNetworkError
  <2>1. delay' \in BackoffBase..BackoffCap
    BY <1>2, DelayDoubles DEF PushNetworkError, TypeOK
  <2>2. backoff' \in 0..BackoffCap /\ backoff' # None
    BY <1>2 DEF PushNetworkError, TypeOK
  <2>3. TypeOK'
    BY <1>2, <2>1, <2>2 DEF PushNetworkError, Report, TypeOK, commands
  <2>4. SyncingInCycle' /\ PullSettlesRetry' /\ RetryArmed' /\ BackoffBounded'
    BY <1>2, <2>2 DEF PushNetworkError, Report, SyncingInCycle, PullSettlesRetry, RetryArmed,
                      BackoffBounded
  <2> QED
    BY <2>3, <2>4
<1>3. CASE PushConflict
  <2>1. TypeOK'
    <3>1. pc' = "pull" /\ late' \in BOOLEAN
      BY <1>3, Zenon DEF PushConflict
    <3>2. UNCHANGED <<inbox, notifying, stopping, debounce, poll, backoff, delay, merged,
                      status, lastError, unpushed, behind, stale>>
      BY <1>3 DEF PushConflict, commands, deadlines, report
    <3> QED
      BY <3>1, <3>2 DEF TypeOK
  <2>2. SyncingInCycle' /\ PullSettlesRetry' /\ RetryArmed' /\ BackoffBounded'
    BY <1>3 DEF PushConflict, SyncingInCycle, PullSettlesRetry, RetryArmed, BackoffBounded,
                deadlines, report
  <2> QED
    BY <2>1, <2>2
<1>4. ASSUME NEW error \in {"auth", "other"}, PushRefused(error)
      PROVE  ReportInv'
  <2>1. TypeOK'
    <3>1. /\ UNCHANGED <<inbox, notifying, stopping, debounce, poll, merged, behind, stale>>
          /\ backoff' \in Left(BackoffCap) /\ delay' \in BackoffBase..BackoffCap
      BY <1>4 DEF PushRefused, NoRetry, commands
    <3>2. pc' = "wait" /\ unpushed' \in BOOLEAN /\ late' \in BOOLEAN
      BY <1>4, Zenon DEF PushRefused, TypeOK
    <3>3. /\ status' \in {"Idle", "Error"}
          /\ lastError' \in {None, "auth", "other"}
      BY <1>4, Zenon DEF PushRefused, Report
    <3> QED
      BY <3>1, <3>2, <3>3 DEF TypeOK
  <2>2. SyncingInCycle' /\ PullSettlesRetry' /\ RetryArmed' /\ BackoffBounded'
    BY <1>4 DEF PushRefused, Report, NoRetry, SyncingInCycle, PullSettlesRetry, RetryArmed,
                BackoffBounded
  <2> QED
    BY <2>1, <2>2
<1>5. ASSUME NEW outcome \in {"clean", "conflict"}, PullMerges(outcome)
      PROVE  ReportInv'
  BY <1>5 DEF PullMerges, NoRetry, TypeOK, SyncingInCycle, PullSettlesRetry, RetryArmed,
              BackoffBounded, commands, report
<1>6. ASSUME NEW error \in {"network", "auth", "other"}, PullFails(error)
      PROVE  ReportInv'
  BY <1>6 DEF PullFails, Report, NoRetry, TypeOK, SyncingInCycle, PullSettlesRetry, RetryArmed,
              BackoffBounded, commands, repo
<1>7. ASSUME NEW ok \in BOOLEAN, Reindex(ok)
      PROVE  ReportInv'
  BY <1>7 DEF Reindex, Report, TypeOK, SyncingInCycle, PullSettlesRetry, RetryArmed,
              BackoffBounded, commands, deadlines
<1> QED
  BY <1>1, <1>2, <1>3, <1>4, <1>5, <1>6, <1>7 DEF Cycle

(* Every step of the worker and around it keeps ReportInv.                   *)
LEMMA ReportNext == ReportInv /\ [Next]_vars => ReportInv'
<1> SUFFICES ASSUME ReportInv, [Next]_vars PROVE ReportInv'
  OBVIOUS
<1>1. CASE Next
  BY <1>1, ReportAround, ReportWaits, ReportCycle DEF Next, Worker
<1>2. CASE UNCHANGED vars
  BY <1>2 DEF vars, commands, deadlines, report, repo, ReportInv, TypeOK, SyncingInCycle,
              PullSettlesRetry, RetryArmed, BackoffBounded
<1> QED
  BY <1>1, <1>2

(* The deadlines never exceed what the configuration arms them with, and the *)
(* worker reports nothing but the statuses and errors of scheduler.rs.       *)
THEOREM DeadlinesTyped == Spec => []TypeOK
<1>1. Spec => []ReportInv
  BY ReportInit, ReportNext, PTL DEF Spec
<1>2. ReportInv => TypeOK
  BY DEF ReportInv
<1> QED
  BY <1>1, <1>2, PTL

(* Whatever the configuration and the order of failures, commits, polls and  *)
(* retries: Retrying is shown, between cycles, exactly while a retry is due. *)
THEOREM RetryingIsArmed == Spec => []RetryArmed
<1>1. Spec => []ReportInv
  BY ReportInit, ReportNext, PTL DEF Spec
<1>2. ReportInv => RetryArmed
  BY DEF ReportInv
<1> QED
  BY <1>1, <1>2, PTL

(* The backoff of a run of network failures is capped, and whatever ends the *)
(* run puts it back to its base.                                             *)
THEOREM BackoffStaysBounded == Spec => []BackoffBounded
<1>1. Spec => []ReportInv
  BY ReportInit, ReportNext, PTL DEF Spec
<1>2. ReportInv => BackoffBounded
  BY DEF ReportInv
<1> QED
  BY <1>1, <1>2, PTL

(* What stop() leaves behind: until the worker exits, the channel holds the  *)
(* command, behind commands that were sent before it or after it.            *)
StopQueued ==
    /\ inbox \in Seq({"activity", "stop"})
    /\ stopping /\ pc # "exited" => \E i \in 1..Len(inbox) : inbox[i] = "stop"

(* Receiving activity does not lose the command, and nothing but its receipt *)
(* takes it from the channel.                                                *)
LEMMA StopQueuedNext == StopQueued /\ [Next]_vars => StopQueued'
<1> SUFFICES ASSUME StopQueued, [Next]_vars PROVE StopQueued'
  OBVIOUS
<1> USE DEF StopQueued
<1>1. CASE UNCHANGED <<inbox, stopping>> /\ (pc' = "exited" <=> pc = "exited")
  BY <1>1
<1>2. CASE NotifyActivity
  <2>1. /\ inbox' \in Seq({"activity", "stop"})
        /\ \A i \in 1..Len(inbox) : i \in 1..Len(inbox') /\ inbox'[i] = inbox[i]
    BY <1>2 DEF NotifyActivity
  <2> QED
    BY <1>2, <2>1 DEF NotifyActivity
<1>3. CASE Stop
  <2>1. /\ inbox' \in Seq({"activity", "stop"})
        /\ Len(inbox) + 1 \in 1..Len(inbox') /\ inbox'[Len(inbox) + 1] = "stop"
    BY <1>3 DEF Stop
  <2> QED
    BY <1>3, <2>1
<1>4. CASE ReceiveActivity
  <2>1. /\ inbox' \in Seq({"activity", "stop"})
        /\ inbox[1] = "activity"
        /\ \A i \in 2..Len(inbox) : i - 1 \in 1..Len(inbox') /\ inbox'[i - 1] = inbox[i]
    BY <1>4 DEF ReceiveActivity
  <2>2. UNCHANGED <<stopping, pc>>
    BY <1>4 DEF ReceiveActivity
  <2>3. ASSUME stopping, pc # "exited"
        PROVE  \E i \in 1..Len(inbox') : inbox'[i] = "stop"
    <3>1. PICK i \in 1..Len(inbox) : inbox[i] = "stop"
      BY <2>3
    <3>2. i \in 2..Len(inbox)
      BY <2>1, <3>1
    <3> QED
      BY <2>1, <3>1, <3>2
  <2> QED
    BY <2>1, <2>2, <2>3
<1>5. CASE ReceiveStop
  BY <1>5 DEF ReceiveStop
<1>6. CASE Wake \/ Cycle \/ Commit \/ RemoteMoves \/ Tick \/ UNCHANGED vars
  <2>1. UNCHANGED <<inbox, stopping>> /\ (pc' = "exited" <=> pc = "exited")
    BY <1>6 DEF Wake, Cycle, PushOk, PushNetworkError, PushConflict, PushRefused, PullMerges,
                PullFails, Reindex, Commit, RemoteMoves, Tick, commands, vars
  <2> QED
    BY <1>1, <2>1
<1> QED
  BY <1>2, <1>3, <1>4, <1>5, <1>6 DEF Next, Worker

(* stop() is served before any deadline, however many are due: the channel   *)
(* is not empty until the worker has received the command, a worker that     *)
(* waits looks at the channel first, and so no further cycle begins.         *)
THEOREM StopComesFirst == Spec => StopBeforeDeadlines
<1>1. Init => StopQueued
  BY DEF Init, StopQueued
<1>2. StopQueued /\ [Next]_vars => [stopping /\ pc = "wait" => pc' # "push"]_vars
  <2> SUFFICES ASSUME StopQueued, Next, stopping, pc = "wait", pc' = "push"
               PROVE  FALSE
    OBVIOUS
  <2>1. inbox # <<>>
    BY DEF StopQueued
  <2>2. Wake
    BY DEF Next, Worker, Commit, NotifyActivity, Stop, RemoteMoves, Tick, ReceiveActivity,
           ReceiveStop, Cycle, PushOk, PushNetworkError, PushConflict, PushRefused, PullMerges,
           PullFails, Reindex
  <2> QED
    BY <2>1, <2>2 DEF Wake
<1> QED
  BY <1>1, <1>2, StopQueuedNext, PTL DEF Spec, StopBeforeDeadlines
=============================================================================
