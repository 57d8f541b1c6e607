------------------------ MODULE GitRepository_proofs ------------------------
(***************************************************************************)
(* Proofs about GitRepository for any paths, texts, committers and bounds:  *)
(* history only grows, a commit changes what it names and nothing else, and *)
(* the user's staging survives every refresh of the index it does not race. *)
(***************************************************************************)
EXTENDS GitRepository, TLAPS

Commits == [tree : Trees, past : SUBSET Nat]
IndexState == [Paths -> Entries \cup {Unmerged}] \cup {None}
CallState ==
    [pc : {"idle", "failed", "stage", "open", "write"}, todo : SUBSET (Paths \cup Directories),
     named : SUBSET Paths, parent : Nat, tree : Trees, read : IndexState]
SyncState == [pc : {"idle", "fetch", "merge", "locked", "moving"}, old : Nat, tree : Trees]

Known == 0..Len(commits)

TypeOK ==
    /\ commits \in Seq(Commits)
    /\ head \in Known /\ remote \in Known /\ tracking \in Known /\ mergeHead \in Known
    /\ work \in Trees /\ index \in IndexState
    /\ call \in [Committers -> CallState] /\ \A w \in Committers : call[w].parent \in Known
    /\ sync \in SyncState /\ sync.old \in Known
    /\ staged \in [Paths -> Entries \cup {None}]

(* A commit descends from itself, from older ones, and from what those       *)
(* descend from.                                                             *)
Descent ==
    \A c \in 1..Len(commits) :
        /\ c \in commits[c].past
        /\ commits[c].past \subseteq 1..c
        /\ \A b \in commits[c].past : commits[b].past \subseteq commits[c].past

(* The tree a commit is building differs from its parent's where it is named.*)
BuiltOnParent ==
    \A w \in Committers :
        call[w].pc = "stage" =>
            \A p \in Paths \ call[w].named : call[w].tree[p] = TreeOf(call[w].parent)[p]

HistoryInv == TypeOK /\ Descent /\ BuiltOnParent

-----------------------------------------------------------------------------
(* Objects                                                                   *)

LEMMA EmptyTreeTyped == EmptyTree \in Trees
BY DEF EmptyTree, Trees, Entries

LEMMA TreesTyped == ASSUME TypeOK, NEW c \in Known PROVE TreeOf(c) \in Trees
<1>1. c # 0 => commits[c] \in Commits
  BY DEF TypeOK, Known
<1> QED
  BY <1>1, EmptyTreeTyped DEF TreeOf, Commits

(* Writing a commit leaves the earlier ones what they were, and the new one  *)
(* descends from everything its parents descend from.                        *)
LEMMA CommitWritten ==
    ASSUME TypeOK, Descent, NEW tree \in Trees, NEW parents \in SUBSET Known,
           commits' = Written(tree, parents)
    PROVE  /\ commits' \in Seq(Commits)
           /\ Len(commits') = Len(commits) + 1
           /\ \A c \in Known : PastOf(c)' = PastOf(c) /\ TreeOf(c)' = TreeOf(c)
           /\ commits'[Newest].tree = tree
           /\ \A c \in parents : PastOf(c) \subseteq commits'[Newest].past
           /\ Descent'
<1> DEFINE new == [tree |-> tree,
                   past |-> {Len(commits) + 1} \cup UNION {PastOf(c) : c \in parents}]
<1>1. \A c \in Known : PastOf(c) \subseteq 1..Len(commits)
  BY DEF TypeOK, Descent, PastOf, Known
<1>2. commits' = Append(commits, new)
  BY DEF Written
<1>3. new \in Commits
  BY <1>1 DEF TypeOK, Commits, Known
<1>4. commits' \in Seq(Commits) /\ Len(commits') = Len(commits) + 1
  BY <1>2, <1>3 DEF TypeOK
<1>5. /\ \A c \in 1..Len(commits) : commits'[c] = commits[c]
      /\ commits'[Newest] = new
  BY <1>2, <1>3 DEF TypeOK, Newest
<1> HIDE DEF new
<1>6. \A c \in Known : PastOf(c)' = PastOf(c) /\ TreeOf(c)' = TreeOf(c)
  BY <1>5 DEF Known, PastOf, TreeOf, EmptyTree
<1>7. new.tree = tree /\ new.past = {Newest} \cup UNION {PastOf(c) : c \in parents}
  BY DEF new, Newest
<1>8. commits'[Newest].tree = tree
  BY <1>5, <1>7
<1>9. \A c \in parents : PastOf(c) \subseteq new.past
  BY <1>7
<1>10. \A b \in 1..Len(commits) : PastOf(b) = commits[b].past
  BY DEF PastOf
<1>11. \A c \in parents : \A b \in PastOf(c) : b \in 1..Len(commits) /\ commits[b].past \subseteq PastOf(c)
  <2> SUFFICES ASSUME NEW c \in parents, NEW b \in PastOf(c)
               PROVE  b \in 1..Len(commits) /\ commits[b].past \subseteq PastOf(c)
    OBVIOUS
  <2>1. c \in 1..Len(commits)
    BY DEF PastOf, Known
  <2> QED
    BY <2>1, <1>10 DEF Descent
<1>12. Descent'
  <2> SUFFICES ASSUME NEW c \in 1..Len(commits')
               PROVE  /\ c \in commits'[c].past
                      /\ commits'[c].past \subseteq 1..c
                      /\ \A b \in commits'[c].past : commits'[b].past \subseteq commits'[c].past
    BY DEF Descent
  <2>1. CASE c \in 1..Len(commits)
    BY <2>1, <1>4, <1>5 DEF Descent, TypeOK
  <2>2. CASE c = Newest
    <3>1. Newest \in new.past /\ new.past \subseteq 1..Newest
      BY <1>1, <1>7 DEF TypeOK, Newest
    <3>2. \A b \in new.past : commits'[b].past \subseteq new.past
      <4> SUFFICES ASSUME NEW b \in new.past PROVE commits'[b].past \subseteq new.past
        OBVIOUS
      <4>1. CASE b = Newest
        BY <4>1, <1>5
      <4>2. CASE \E a \in parents : b \in PastOf(a)
        <5>1. PICK a \in parents : b \in PastOf(a)
          BY <4>2
        <5> QED
          BY <5>1, <1>5, <1>9, <1>11
      <4> QED
        BY <4>1, <4>2, <1>7
    <3> QED
      BY <2>2, <3>1, <3>2, <1>4, <1>5 DEF Newest
  <2> QED
    BY <2>1, <2>2, <1>4 DEF Newest, TypeOK
<1> QED
  BY <1>4, <1>5, <1>6, <1>8, <1>9, <1>12

-----------------------------------------------------------------------------
(* Types                                                                     *)

(* The graph of commits after a step: more of it, the rest as it was.        *)
Grown ==
    /\ commits' \in Seq(Commits)
    /\ Known \subseteq Known'
    /\ \A c \in Known : PastOf(c)' = PastOf(c) /\ TreeOf(c)' = TreeOf(c)
    /\ Descent'

LEMMA SameGrown == ASSUME TypeOK, Descent, UNCHANGED commits PROVE Grown
BY DEF Grown, TypeOK, Known, PastOf, TreeOf, EmptyTree, Descent

LEMMA WrittenGrown ==
    ASSUME TypeOK, Descent, NEW tree \in Trees, NEW parents \in SUBSET Known,
           commits' = Written(tree, parents), NEW n, n = Newest
    PROVE  /\ Grown /\ n \in Known' /\ TreeOf(n)' = tree
           /\ \A c \in parents : PastOf(c) \subseteq PastOf(n)'
<1>1. n \in Nat \ {0}
  BY DEF TypeOK, Newest
<1>2. PastOf(n)' = commits'[n].past /\ TreeOf(n)' = commits'[n].tree
  BY <1>1 DEF PastOf, TreeOf
<1>3. Known \subseteq Known' /\ n \in Known'
  BY CommitWritten, <1>1 DEF Known, TypeOK, Newest
<1> QED
  BY CommitWritten, <1>2, <1>3 DEF Grown

LEMMA StepGrown == ASSUME TypeOK, Descent, [Next]_vars PROVE Grown
<1>1. ASSUME NEW w \in Committers, CommitAs(w) PROVE Grown
  <2>1. call[w].tree \in Trees /\ {call[w].parent} \in SUBSET Known
    BY DEF TypeOK, CallState
  <2>2. PICK n : n = Newest
    OBVIOUS
  <2> QED
    BY <1>1, <2>1, <2>2, WrittenGrown DEF CommitAs
<1>2. ASSUME UserCommits PROVE Grown
  <2>1. index \in Trees /\ {head, mergeHead} \in SUBSET Known
    BY <1>2 DEF UserCommits, Conflicted, TypeOK, IndexState, Trees
  <2>2. PICK n : n = Newest
    OBVIOUS
  <2> QED
    BY <1>2, <2>1, <2>2, WrittenGrown DEF UserCommits
<1>3. ASSUME OtherPushes PROVE Grown
  <2>1. PICK p \in Paths, t \in Texts \cup {Absent} :
            commits' = Written([TreeOf(remote) EXCEPT ![p] = t], {remote})
    BY <1>3 DEF OtherPushes
  <2>2. TreeOf(remote) \in Trees
    BY TreesTyped DEF TypeOK
  <2>3. [TreeOf(remote) EXCEPT ![p] = t] \in Trees /\ {remote} \in SUBSET Known
    BY <2>2 DEF TypeOK, Trees, Entries, Blobs
  <2>4. PICK n : n = Newest
    OBVIOUS
  <2> QED
    BY <2>1, <2>3, <2>4, WrittenGrown
<1>4. ASSUME MergeMoves PROVE Grown
  <2>1. sync.tree \in Trees /\ {head, tracking} \in SUBSET Known
    BY DEF TypeOK, SyncState
  <2>2. PICK n : n = Newest
    OBVIOUS
  <2> QED
    BY <1>4, <2>1, <2>2, WrittenGrown, SameGrown DEF MergeMoves
<1>5. ASSUME UNCHANGED commits PROVE Grown
  BY <1>5, SameGrown
<1> QED
  BY <1>1, <1>2, <1>3, <1>4, <1>5, Zenon
  DEF Next, CommitPaths, SyncCycle, Pull, vars, repo, files, bounds, Begin, StagePath, NothingToCommit,
      CommitRefused, OpenIndex, WriteIndex, IndexLocked, Push, PushRejected, PushFails, Fetch,
      FetchFails, MergeRefused, MergeUpToDate, MergeLocks, MergeBlocked, MergeConflicts, MergeApplies,
      MergeLosesHead, Write, UserStages, Kill

(* A call of commit_paths at rest, and one that failed.                      *)
Failed == [NoCall EXCEPT !.pc = "failed"]

LEMMA RestTyped ==
    /\ NoCall \in CallState /\ NoCall.parent = 0
    /\ Failed \in CallState /\ Failed.parent = 0
BY EmptyTreeTyped DEF NoCall, Failed, CallState, IndexState

(* A step of one committer keeps the calls' types when it keeps its own.     *)
Calls == call \in [Committers -> CallState] /\ \A w \in Committers : call[w].parent \in Known

LEMMA OneCall ==
    ASSUME TypeOK, Grown, NEW w \in Committers, NEW r \in CallState, r.parent \in Known,
           call' = [call EXCEPT ![w] = r]
    PROVE  Calls'
BY DEF TypeOK, Grown, Calls

LEMMA CommitPathsTyped ==
    ASSUME TypeOK, Grown, NEW w \in Committers,
           CommitPaths(w) \/ \E names \in Pathspecs[w] : Begin(w, names)
    PROVE  Calls'
<1> call[w] \in CallState /\ call[w].parent \in Known /\ 0 \in Known
  BY DEF TypeOK, Known
<1>1. CASE \E names \in Pathspecs[w] : Begin(w, names)
  <2>1. PICK names \in Pathspecs[w] : Begin(w, names)
    BY <1>1
  <2> DEFINE r == [NoCall EXCEPT !.pc = "stage", !.todo = names, !.parent = head, !.tree = TreeOf(head)]
  <2>2. names \in SUBSET (Paths \cup Directories)
    BY NamesAssumption
  <2>3. TreeOf(head) \in Trees /\ head \in Known /\ head \in Nat
    BY TreesTyped DEF TypeOK, Known
  <2>4. r \in CallState /\ r.parent = head
    BY <2>2, <2>3, RestTyped DEF CallState, NoCall
  <2>5. call' = [call EXCEPT ![w] = r]
    BY <2>1, Zenon DEF Begin
  <2> HIDE DEF r
  <2> QED
    BY <2>3, <2>4, <2>5, OneCall
<1>2. CASE StagePath(w)
  <2>1. PICK name \in call[w].todo :
           call' = [call EXCEPT ![w].todo = @ \ {name},
                                ![w].named = @ \cup Covers(name),
                                ![w].tree = [p \in Paths |->
                                    IF p \in Covers(name) THEN Blob(name) ELSE @[p]]]
    BY <1>2, Zenon DEF StagePath
  <2> DEFINE tree == [p \in Paths |-> IF p \in Covers(name) THEN Blob(name) ELSE call[w].tree[p]]
             r == [call[w] EXCEPT !.todo = call[w].todo \ {name}, !.named = call[w].named \cup Covers(name),
                                  !.tree = tree]
  <2>2. Covers(name) \subseteq Paths
    BY DEF Covers
  <2>3. Blob(name) \in Entries
    BY DEF Blob, Entries, Trees, TypeOK
  <2>4. tree \in Trees
    BY <2>3 DEF Trees, CallState
  <2>5. call' = [call EXCEPT ![w] = r]
    BY <2>1 DEF TypeOK, CallState
  <2> HIDE DEF tree
  <2>6. r \in CallState /\ r.parent = call[w].parent
    BY <2>2, <2>4 DEF CallState
  <2> HIDE DEF r
  <2> QED
    BY <2>5, <2>6, OneCall
<1>3. CASE CommitAs(w)
  <2> DEFINE r == [call[w] EXCEPT !.pc = "open"]
  <2>1. r \in CallState /\ r.parent = call[w].parent
    BY DEF CallState
  <2>2. call' = [call EXCEPT ![w] = r]
    BY <1>3 DEF CommitAs
  <2> HIDE DEF r
  <2> QED
    BY <2>1, <2>2, OneCall
<1>4. CASE OpenIndex(w)
  <2> DEFINE r == [call[w] EXCEPT !.pc = "write", !.read = index]
  <2>1. r \in CallState /\ r.parent = call[w].parent
    BY DEF CallState, TypeOK
  <2>2. call' = [call EXCEPT ![w] = r]
    BY <1>4 DEF OpenIndex, TypeOK
  <2> HIDE DEF r
  <2> QED
    BY <2>1, <2>2, OneCall
<1>5. CASE NothingToCommit(w) \/ WriteIndex(w)
  BY <1>5, RestTyped, OneCall DEF NothingToCommit, WriteIndex, AnswersOk
<1>6. CASE CommitRefused(w) \/ IndexLocked(w)
  <2>1. call' = [call EXCEPT ![w] = Failed]
    BY <1>6 DEF CommitRefused, IndexLocked, AnswersErr, Failed
  <2> QED
    BY <2>1, RestTyped, OneCall
<1> QED
  BY <1>1, <1>2, <1>3, <1>4, <1>5, <1>6 DEF CommitPaths

LEMMA CallsTyped == ASSUME TypeOK, Grown, [Next]_vars PROVE Calls'
<1>1. ASSUME UNCHANGED call PROVE Calls'
  BY <1>1 DEF TypeOK, Calls, Grown
<1>2. ASSUME Kill PROVE Calls'
  <2>1. call' = [w \in Committers |-> Failed]
    BY <1>2 DEF Kill, Failed
  <2>2. 0 \in Known'
    BY DEF Grown, Known, TypeOK
  <2> QED
    BY <2>1, <2>2, RestTyped DEF Calls
<1> QED
  BY <1>1, <1>2, CommitPathsTyped
  DEF Next, SyncCycle, Pull, vars, bounds, Push, PushRejected, PushFails, Fetch, FetchFails,
      MergeRefused, MergeUpToDate, MergeLocks, MergeBlocked, MergeConflicts, MergeApplies, MergeMoves,
      MergeLosesHead, Write, UserStages, UserCommits, OtherPushes

(* The worker's push or pull.                                                *)
Syncing == sync \in SyncState /\ sync.old \in Known

LEMMA SyncTyped == ASSUME TypeOK, Grown, [Next]_vars PROVE Syncing'
<1>1. ASSUME NEW r \in SyncState, r.old \in Known, sync' = r PROVE Syncing'
  BY <1>1 DEF Syncing, Grown
<1> 0 \in Known /\ sync \in SyncState /\ sync.old \in Known /\ head \in Known /\ Known \subseteq Nat
  BY DEF TypeOK, Known
<1>2. NoSync \in SyncState /\ NoSync.old = 0
  BY EmptyTreeTyped DEF NoSync, SyncState
<1>3. ASSUME sync' = NoSync PROVE Syncing'
  BY <1>1, <1>2, <1>3
<1>4. ASSUME NEW pc \in {"fetch", "merge"}, sync' = [sync EXCEPT !.pc = pc] PROVE Syncing'
  <2> DEFINE r == [sync EXCEPT !.pc = pc]
  <2>1. r \in SyncState /\ r.old = sync.old
    BY DEF SyncState
  <2> HIDE DEF r
  <2> QED
    BY <1>1, <1>4, <2>1 DEF r
<1>5. ASSUME MergeLocks PROVE Syncing'
  <2> DEFINE r == [sync EXCEPT !.pc = "locked", !.old = head]
  <2>1. r \in SyncState /\ r.old = head
    BY DEF SyncState
  <2>2. sync' = r
    BY <1>5 DEF MergeLocks
  <2> HIDE DEF r
  <2> QED
    BY <1>1, <2>1, <2>2
<1>6. ASSUME MergeApplies PROVE Syncing'
  <2> DEFINE tree == [p \in Paths |-> Merged(p)]
             r == [sync EXCEPT !.pc = "moving", !.tree = tree]
  <2>1. tree \in Trees
    <3>1. Ours \in Trees /\ Theirs \in Trees
      BY TreesTyped DEF TypeOK, Ours, Theirs
    <3> QED
      BY <3>1 DEF Merged, Trees
  <2>2. sync' = r
    BY <1>6 DEF MergeApplies
  <2> HIDE DEF tree
  <2>3. r \in SyncState /\ r.old = sync.old
    BY <2>1 DEF SyncState
  <2> HIDE DEF r
  <2> QED
    BY <1>1, <2>2, <2>3
<1>7. ASSUME UNCHANGED sync PROVE Syncing'
  BY <1>1, <1>7
<1> QED
  BY <1>3, <1>4, <1>5, <1>6, <1>7, Zenon
  DEF Next, CommitPaths, SyncCycle, Pull, vars, Begin, StagePath, NothingToCommit, CommitAs,
      CommitRefused, OpenIndex, WriteIndex, IndexLocked, Push, PushRejected, PushFails, Reports, Fetch,
      FetchFails, MergeRefused, MergeUpToDate, MergeBlocked, MergeConflicts, MergeMoves,
      MergeLosesHead, Write, UserStages, UserCommits, OtherPushes, Kill

(* HEAD, the remote's branch and its copies name commits that exist.         *)
Names == head \in Known /\ remote \in Known /\ tracking \in Known /\ mergeHead \in Known

LEMMA NamesTyped == ASSUME TypeOK, Descent, Grown, [Next]_vars PROVE Names'
<1> Known \subseteq Known' /\ 0 \in Known /\ Names
  BY DEF Grown, TypeOK, Known, Names
<1>1. (\E tree, parents : commits' = Written(tree, parents)) => Newest \in Known'
  BY DEF Written, TypeOK, Known, Newest, Grown
<1>2. ASSUME NEW w \in Committers, CommitAs(w) PROVE Names'
  BY <1>1, <1>2 DEF CommitAs, Names
<1>3. CASE UserCommits
  BY <1>1, <1>3 DEF UserCommits, Names
<1>4. CASE OtherPushes
  BY <1>1, <1>4 DEF OtherPushes, Names
<1>5. CASE MergeMoves
  BY <1>1, <1>5 DEF MergeMoves, Names
<1>6. CASE Push \/ Fetch \/ MergeConflicts
  BY <1>6 DEF Push, Fetch, MergeConflicts, Names
<1>7. ASSUME UNCHANGED <<head, remote, tracking, mergeHead>> PROVE Names'
  BY <1>7 DEF Names
<1> QED
  BY <1>2, <1>3, <1>4, <1>5, <1>6, <1>7, Zenon
  DEF Next, CommitPaths, SyncCycle, Pull, vars, repo, Begin, StagePath, NothingToCommit,
      CommitRefused, OpenIndex, WriteIndex, IndexLocked, PushRejected, PushFails,
      FetchFails, MergeRefused, MergeUpToDate, MergeLocks, MergeBlocked, MergeApplies,
      MergeLosesHead, Write, UserStages, Kill

(* The worktree, the index and what the user staged.                         *)
Files == work \in Trees /\ index \in IndexState /\ staged \in [Paths -> Entries \cup {None}]

LEMMA MergeTyped ==
    ASSUME TypeOK, MergeConflicts \/ MergeApplies
    PROVE  work' \in Trees /\ index' \in [Paths -> Entries \cup {Unmerged}]
<1> USE DEF TypeOK
<1>1. Ours \in Trees /\ Theirs \in Trees
  BY TreesTyped DEF Ours, Theirs
<1>2. \A p \in Paths : Merged(p) \in Entries /\ MarkedUp(p) \in Entries /\ Entry(p) \in Entries \cup {Unmerged}
  BY <1>1 DEF Merged, MarkedUp, Trees, Entries, Blobs, Entry, IndexState
<1>3. work' \in Trees
  BY <1>2 DEF MergeConflicts, MergeApplies, Trees
<1>4. index' \in [Paths -> Entries \cup {Unmerged}]
  BY <1>2 DEF MergeConflicts, MergeApplies
<1> QED
  BY <1>3, <1>4

LEMMA FilesTyped == ASSUME TypeOK, [Next]_vars PROVE Files'
<1> USE DEF TypeOK, Files
<1>1. ASSUME NEW w \in Committers, WriteIndex(w) PROVE Files'
  <2>1. call[w].tree \in Trees /\ call[w].read \in IndexState
    BY DEF CallState
  <2>2. Refreshed(w) \in IndexState
    BY <2>1 DEF Refreshed, IndexState, Trees
  <2> QED
    BY <1>1, <2>2 DEF WriteIndex
<1>2. ASSUME MergeConflicts \/ MergeApplies PROVE Files'
  BY <1>2, MergeTyped DEF MergeConflicts, MergeApplies, Unstaged, IndexState
<1>3. ASSUME NEW p \in Paths, Write(p) PROVE Files'
  BY <1>3 DEF Write, Trees, Entries, Blobs
<1>4. ASSUME NEW p \in Paths, UserStages(p) PROVE Files'
  BY <1>4 DEF UserStages, Trees, IndexState
<1>5. ASSUME UserCommits PROVE Files'
  BY <1>5 DEF UserCommits, files
<1>6. ASSUME UNCHANGED <<work, index, staged>> PROVE Files'
  BY <1>6
<1> QED
  BY <1>1, <1>2, <1>3, <1>4, <1>5, <1>6, Zenon
  DEF Next, CommitPaths, SyncCycle, Pull, vars, files, bounds, Begin, StagePath, NothingToCommit,
      CommitAs, CommitRefused, OpenIndex, IndexLocked, Push, PushRejected, PushFails, Fetch,
      FetchFails, MergeRefused, MergeUpToDate, MergeLocks, MergeBlocked, MergeMoves,
      MergeLosesHead, OtherPushes, Kill

LEMMA Typed == ASSUME TypeOK, Descent, [Next]_vars PROVE TypeOK' /\ Descent'
BY StepGrown, CallsTyped, SyncTyped, NamesTyped, FilesTyped
DEF TypeOK, Grown, Calls, Syncing, Names, Files

-----------------------------------------------------------------------------
(* The tree being built                                                      *)

LEMMA BuildsOnParent ==
    ASSUME TypeOK, Descent, BuiltOnParent, [Next]_vars PROVE BuiltOnParent'
<1>1. Grown
  BY StepGrown
<1> SUFFICES ASSUME NEW v \in Committers, (call[v].pc = "stage")', NEW p \in Paths \ call'[v].named
             PROVE  call'[v].tree[p] = TreeOf(call[v].parent)'[p]
  BY DEF BuiltOnParent
<1>2. call \in [Committers -> CallState] /\ call[v] \in CallState /\ call[v].parent \in Known
  BY DEF TypeOK
<1>3. ASSUME UNCHANGED call[v] PROVE call'[v].tree[p] = TreeOf(call[v].parent)'[p]
  <2>1. TreeOf(call[v].parent)' = TreeOf(call[v].parent)
    <3>1. PICK c : c = call[v].parent
      OBVIOUS
    <3>2. TreeOf(c)' = TreeOf(c)
      BY <1>1, <1>2, <3>1 DEF Grown
    <3> QED
      BY <1>3, <3>1, <3>2 DEF TreeOf, EmptyTree
  <2> QED
    BY <1>3, <2>1 DEF BuiltOnParent
<1>4. ASSUME NEW w \in Committers, NEW names, Begin(w, names)
      PROVE  call'[v].tree[p] = TreeOf(call[v].parent)'[p]
  <2>1. CASE v = w
    BY <1>2, <1>4, <2>1 DEF Begin, TreeOf, EmptyTree, NoCall, repo
  <2>2. CASE v # w
    BY <1>2, <1>3, <1>4, <2>2 DEF Begin
  <2> QED
    BY <2>1, <2>2
<1>5. ASSUME NEW w \in Committers, StagePath(w)
      PROVE  call'[v].tree[p] = TreeOf(call[v].parent)'[p]
  <2>1. CASE v = w
    <3>1. PICK name \in call[w].todo :
             call' = [call EXCEPT ![w].todo = @ \ {name},
                                  ![w].named = @ \cup Covers(name),
                                  ![w].tree = [q \in Paths |->
                                      IF q \in Covers(name) THEN Blob(name) ELSE @[q]]]
      BY <1>5, Zenon DEF StagePath
    <3>2. /\ call'[v].named = call[v].named \cup Covers(name)
          /\ call'[v].tree = [q \in Paths |-> IF q \in Covers(name) THEN Blob(name) ELSE call[v].tree[q]]
          /\ call'[v].parent = call[v].parent
      BY <1>2, <2>1, <3>1 DEF CallState
    <3>3. call'[v].tree[p] = call[v].tree[p] /\ p \notin call[v].named
      BY <3>2
    <3>4. TreeOf(call[v].parent)' = TreeOf(call[v].parent)
      BY <1>5, <3>2 DEF StagePath, repo, TreeOf, EmptyTree
    <3> QED
      BY <1>5, <2>1, <3>3, <3>4 DEF StagePath, BuiltOnParent
  <2>2. CASE v # w
    BY <1>2, <1>3, <1>5, <2>2 DEF StagePath
  <2> QED
    BY <2>1, <2>2
<1>6. ASSUME NEW w \in Committers,
             \/ NothingToCommit(w) \/ CommitAs(w) \/ CommitRefused(w)
             \/ OpenIndex(w) \/ WriteIndex(w) \/ IndexLocked(w)
      PROVE  call'[v].tree[p] = TreeOf(call[v].parent)'[p]
  <2>1. CASE v = w
    <3>1. call'[v].pc # "stage"
      BY <1>2, <1>6, <2>1
      DEF NothingToCommit, CommitAs, CommitRefused, OpenIndex, WriteIndex, IndexLocked, AnswersOk,
          AnswersErr, NoCall, CallState
    <3> QED
      BY <3>1
  <2>2. CASE v # w
    BY <1>2, <1>3, <1>6, <2>2
    DEF NothingToCommit, CommitAs, CommitRefused, OpenIndex, WriteIndex, IndexLocked, AnswersOk,
        AnswersErr
  <2> QED
    BY <2>1, <2>2
<1>7. ASSUME Kill PROVE call'[v].pc # "stage"
  BY <1>7 DEF Kill, NoCall
<1> QED
  BY <1>3, <1>4, <1>5, <1>6, <1>7
  DEF Next, CommitPaths, SyncCycle, Pull, vars, bounds, Push, PushRejected, PushFails, Fetch, FetchFails,
      MergeRefused, MergeUpToDate, MergeLocks, MergeBlocked, MergeConflicts, MergeApplies, MergeMoves,
      MergeLosesHead, Write, UserStages, UserCommits, OtherPushes

LEMMA HistoryInvHolds == Spec => []HistoryInv
<1>1. Init => HistoryInv
  <2> SUFFICES ASSUME Init PROVE HistoryInv
    OBVIOUS
  <2>1. CASE commits = <<>> /\ head = 0 /\ index = None
    BY <2>1, EmptyTreeTyped, RestTyped, AdoptedAssumption
    DEF Init, HistoryInv, TypeOK, Known, IndexState, SyncState, NoSync, NoCall, Descent, BuiltOnParent,
        Trees, Entries, Blobs
  <2>2. CASE \E tree \in Adopted :
                commits = <<[tree |-> tree, past |-> {1}]>> /\ head = 1 /\ index = tree
    <3>1. PICK tree \in Adopted :
             commits = <<[tree |-> tree, past |-> {1}]>> /\ head = 1 /\ index = tree
      BY <2>2
    <3>2. tree \in Trees /\ tree \in IndexState /\ work \in Trees
      BY AdoptedAssumption DEF Init, Trees, IndexState, Entries, Blobs
    <3>3. commits \in Seq(Commits) /\ Len(commits) = 1 /\ commits[1].past = {1}
      BY <3>1, <3>2 DEF Commits
    <3>4. NoSync \in SyncState /\ NoSync.old = 0
      BY EmptyTreeTyped DEF NoSync, SyncState
    <3>5. call = [w \in Committers |-> NoCall] /\ sync = NoSync /\ remote = head /\ tracking = head
          /\ mergeHead = 0 /\ staged = [p \in Paths |-> None]
      BY DEF Init
    <3>6. TypeOK
      BY <3>1, <3>2, <3>3, <3>4, <3>5, RestTyped DEF TypeOK, Known
    <3>7. Descent
      BY <3>3 DEF Descent
    <3>8. BuiltOnParent
      BY <3>5 DEF BuiltOnParent, NoCall
    <3> QED
      BY <3>6, <3>7, <3>8 DEF HistoryInv
  <2> QED
    BY <2>1, <2>2 DEF Init
<1>2. HistoryInv /\ [Next]_vars => HistoryInv'
  BY Typed, BuildsOnParent DEF HistoryInv
<1> QED
  BY <1>1, <1>2, PTL DEF Spec

-----------------------------------------------------------------------------
(* Theorems                                                                  *)

(* HEAD and the remote's branch never lose a commit, whichever committers,   *)
(* pulls, pushes, users and kills interleave: a commit moves HEAD from its   *)
(* own parent, a merge from where it began, a push only forwards.            *)
THEOREM HistoryGrows == Spec => HistoryKept
<1>1. HistoryInv /\ [Next]_vars
          => [PastOf(head) \subseteq PastOf(head)' /\ PastOf(remote) \subseteq PastOf(remote)']_vars
  <2> SUFFICES ASSUME HistoryInv, [Next]_vars
               PROVE  PastOf(head) \subseteq PastOf(head)' /\ PastOf(remote) \subseteq PastOf(remote)'
    OBVIOUS
  <2> TypeOK /\ Descent /\ Grown
    BY StepGrown DEF HistoryInv
  <2> head \in Known /\ remote \in Known /\ tracking \in Known /\ mergeHead \in Known
    BY DEF TypeOK
  <2>1. \A c \in Known : PastOf(c)' = PastOf(c)
    BY DEF Grown
  <2>2. ASSUME UNCHANGED head PROVE PastOf(head)' = PastOf(head)
    BY <2>1, <2>2 DEF PastOf
  <2>3. ASSUME UNCHANGED remote PROVE PastOf(remote)' = PastOf(remote)
    BY <2>1, <2>3 DEF PastOf
  <2>4. ASSUME NEW tree \in Trees, NEW parents \in SUBSET Known, NEW c \in parents,
               commits' = Written(tree, parents)
        PROVE  /\ head' = Newest => PastOf(c) \subseteq PastOf(head)'
               /\ remote' = Newest => PastOf(c) \subseteq PastOf(remote)'
    <3>1. PICK n : n = Newest
      OBVIOUS
    <3>2. PastOf(c) \subseteq PastOf(n)'
      BY <2>4, <3>1, WrittenGrown
    <3> QED
      BY <3>1, <3>2 DEF PastOf
  <2>5. ASSUME NEW w \in Committers, CommitAs(w)
        PROVE  PastOf(head) \subseteq PastOf(head)' /\ UNCHANGED remote
    <3>1. call[w].tree \in Trees /\ {call[w].parent} \in SUBSET Known /\ head = call[w].parent
      BY <2>5 DEF TypeOK, CallState, CommitAs, HeadMatches
    <3> QED
      BY <2>4, <2>5, <3>1 DEF CommitAs
  <2>6. ASSUME UserCommits PROVE PastOf(head) \subseteq PastOf(head)' /\ UNCHANGED remote
    <3>1. index \in Trees /\ {head, mergeHead} \in SUBSET Known
      BY <2>6 DEF UserCommits, Conflicted, TypeOK, IndexState, Trees
    <3> QED
      BY <2>4, <2>6, <3>1 DEF UserCommits
  <2>7. ASSUME OtherPushes PROVE PastOf(remote) \subseteq PastOf(remote)' /\ UNCHANGED head
    <3>1. PICK p \in Paths, t \in Texts \cup {Absent} :
              commits' = Written([TreeOf(remote) EXCEPT ![p] = t], {remote})
      BY <2>7 DEF OtherPushes
    <3>2. TreeOf(remote) \in Trees
      BY TreesTyped
    <3>3. [TreeOf(remote) EXCEPT ![p] = t] \in Trees /\ {remote} \in SUBSET Known
      BY <3>2 DEF Trees, Entries, Blobs
    <3> QED
      BY <2>4, <2>7, <3>1, <3>3 DEF OtherPushes
  <2>8. ASSUME MergeMoves PROVE PastOf(head) \subseteq PastOf(head)' /\ UNCHANGED remote
    <3>1. CASE Straight
      <4>1. PastOf(head) \subseteq PastOf(tracking)
        BY <2>8, <3>1 DEF MergeMoves, Straight, Descent, PastOf, Known
      <4> QED
        BY <2>1, <2>8, <3>1, <4>1 DEF MergeMoves, PastOf
    <3>2. CASE ~Straight
      <4>1. sync.tree \in Trees /\ {head, tracking} \in SUBSET Known
        BY DEF TypeOK, SyncState
      <4> QED
        BY <2>4, <2>8, <3>2, <4>1 DEF MergeMoves
    <3> QED
      BY <3>1, <3>2
  <2>9. ASSUME Push PROVE PastOf(remote) \subseteq PastOf(remote)' /\ UNCHANGED head
    <3>1. PastOf(remote) \subseteq PastOf(head)
      BY <2>9 DEF Push, FastForward, Descent, PastOf, Known
    <3> QED
      BY <2>1, <2>9, <3>1 DEF Push, PastOf
  <2>10. ASSUME UNCHANGED <<head, remote>>
         PROVE  PastOf(head) \subseteq PastOf(head)' /\ PastOf(remote) \subseteq PastOf(remote)'
    BY <2>2, <2>3, <2>10
  <2> QED
    BY <2>2, <2>3, <2>5, <2>6, <2>7, <2>8, <2>9, <2>10, Zenon
    DEF Next, CommitPaths, SyncCycle, Pull, vars, repo, Begin, StagePath, NothingToCommit,
        CommitRefused, OpenIndex, WriteIndex, IndexLocked, PushRejected, PushFails, Fetch,
        FetchFails, MergeRefused, MergeUpToDate, MergeLocks, MergeBlocked, MergeConflicts, MergeApplies,
        MergeLosesHead, Write, UserStages, Kill
<1> QED
  BY <1>1, HistoryInvHolds, PTL DEF Spec, HistoryKept

(* Between the HEAD it replaces and itself, a commit changes only the paths  *)
(* its call named: nothing that another commit or a pull put there is undone.*)
THEOREM CommitsChangeWhatTheyName == Spec => NothingReverted
<1> DEFINE Step == \A w \in Committers :
                      call[w].pc = "stage" /\ call'[w].pc = "open"
                          => \A p \in Paths \ call[w].named : TreeOf(head)'[p] = TreeOf(head)[p]
<1>1. HistoryInv /\ [Next]_vars => [Step]_vars
  <2> SUFFICES ASSUME HistoryInv, [Next]_vars,
                      NEW v \in Committers, call[v].pc = "stage", call'[v].pc = "open",
                      NEW p \in Paths \ call[v].named
               PROVE  TreeOf(head)'[p] = TreeOf(head)[p]
    OBVIOUS
  <2> TypeOK /\ Descent
    BY DEF HistoryInv
  <2>1. call \in [Committers -> CallState] /\ call[v] \in CallState /\ call[v].parent \in Known
    BY DEF TypeOK
  <2>2. CommitAs(v)
    <3>1. ~Kill /\ call'[v] # call[v]
      BY <2>1 DEF Kill, NoCall, CallState
    <3>2. \A names : ~Begin(v, names)
      BY <2>1 DEF Begin, NoCall
    <3>3. ~StagePath(v)
      BY ZenonT(60), <2>1 DEF StagePath, CallState
    <3>4. ~(NothingToCommit(v) \/ CommitRefused(v) \/ OpenIndex(v) \/ WriteIndex(v) \/ IndexLocked(v))
      <4>1. AnswersOk(v) => call'[v].pc = "idle"
        BY <2>1 DEF AnswersOk, NoCall
      <4>2. AnswersErr(v) => call'[v].pc = "failed"
        BY <2>1 DEF AnswersErr, NoCall
      <4>3. ~(NothingToCommit(v) \/ CommitRefused(v))
        BY <4>1, <4>2 DEF NothingToCommit, CommitRefused
      <4>4. ~(OpenIndex(v) \/ WriteIndex(v) \/ IndexLocked(v))
        BY DEF OpenIndex, WriteIndex, IndexLocked
      <4> QED
        BY <4>3, <4>4
    <3>5. \A w \in Committers : CommitPaths(w) \/ (\E names \in Pathspecs[w] : Begin(w, names)) => w = v
      BY ZenonT(60), <2>1, <3>1
      DEF CommitPaths, Begin, StagePath, NothingToCommit, CommitAs, CommitRefused, OpenIndex, WriteIndex,
          IndexLocked, AnswersOk, AnswersErr
    <3>6. \E w \in Committers : CommitPaths(w) \/ (\E names \in Pathspecs[w] : Begin(w, names))
      BY <3>1
      DEF Next, SyncCycle, Pull, vars, bounds, Push, PushRejected, PushFails, Fetch, FetchFails,
          MergeRefused, MergeUpToDate, MergeLocks, MergeBlocked, MergeConflicts, MergeApplies, MergeMoves,
          MergeLosesHead, Write, UserStages, UserCommits, OtherPushes
    <3> QED
      BY <3>2, <3>3, <3>4, <3>5, <3>6 DEF CommitPaths
  <2>3. PICK n : n = Newest
    OBVIOUS
  <2>4. TreeOf(n)' = call[v].tree
    BY <2>1, <2>2, <2>3, WrittenGrown DEF CommitAs, CallState
  <2>5. TreeOf(head)' = call[v].tree
    BY <2>2, <2>3, <2>4 DEF CommitAs, TreeOf, EmptyTree
  <2> QED
    BY <2>2, <2>5 DEF HistoryInv, BuiltOnParent, CommitAs, HeadMatches
<1> QED
  BY <1>1, HistoryInvHolds, PTL DEF Spec, NothingReverted

-----------------------------------------------------------------------------
(* Staging                                                                   *)

(* What is staged is in the index, and in every copy of it that a committer  *)
(* has read and not written back.                                            *)
StagedIn(i, p) == i # None /\ i[p] = staged[p]

StagingInv ==
    \A p \in Paths : staged[p] # None =>
        /\ StagedIn(index, p)
        /\ \A w \in Committers : call[w].pc = "write" => StagedIn(call[w].read, p)

(* A fast-forward has no conflicts: its base is HEAD.                        *)
LEMMA StraightIsClean == ASSUME TypeOK, Descent, Straight PROVE \A p \in Paths : ~Clash(p)
<1>1. sync.old \in Known /\ tracking \in Known /\ Known = 0..Len(commits) /\ Len(commits) \in Nat
  BY DEF TypeOK, Known
<1>2. tracking \in 1..Len(commits) /\ PastOf(tracking) = commits[tracking].past
  BY <1>1 DEF Straight, PastOf
<1>3. sync.old \in 1..Len(commits) /\ PastOf(sync.old) = commits[sync.old].past
  BY <1>1, <1>2 DEF Straight, PastOf, Descent
<1>4. PastOf(sync.old) \cap PastOf(tracking) = PastOf(sync.old)
  BY <1>2, <1>3 DEF Straight, Descent
<1>5. sync.old \in PastOf(sync.old) /\ PastOf(sync.old) \subseteq 1..sync.old
  BY <1>3 DEF Descent
<1>6. Max(PastOf(sync.old)) = sync.old
  BY <1>3, <1>5 DEF Max
<1> QED
  BY <1>4, <1>6 DEF Clash, Base, Ours

LEMMA IndexIsNotNone == ASSUME NEW f \in [Paths -> Entries \cup {Unmerged}] PROVE f # None
BY TextsAssumption DEF Entries, Blobs

LEMMA MergeKeepsStaging ==
    ASSUME TypeOK, Descent, StagingInv, MergeConflicts \/ MergeApplies PROVE StagingInv'
<1> SUFFICES ASSUME NEW p \in Paths, staged'[p] # None
             PROVE  /\ StagedIn(index, p)'
                    /\ \A w \in Committers : call'[w].pc = "write" => StagedIn(call[w].read, p)'
  BY DEF StagingInv
<1>1. ~Touched(p) /\ staged'[p] = staged[p]
  BY DEF MergeConflicts, MergeApplies, Unstaged
<1>2. StagedIn(index, p) /\ \A w \in Committers : call[w].pc = "write" => StagedIn(call[w].read, p)
  BY <1>1 DEF StagingInv
<1>3. UNCHANGED call
  BY DEF MergeConflicts, MergeApplies
<1>4. index'[p] = index[p] /\ index' # None
  <2>1. index' # None
    BY MergeTyped, IndexIsNotNone
  <2>2. CASE MergeApplies
    BY <1>1, <1>2, <2>1, <2>2 DEF MergeApplies, Entry, StagedIn
  <2>3. CASE MergeConflicts
    <3>1. ~Straight
      BY <2>3, StraightIsClean DEF MergeConflicts, Clashes
    <3>2. Entry(p) = Ours[p] /\ Merged(p) = Ours[p]
      BY <1>1, <2>3, <3>1 DEF MergeConflicts, Blocked, InTheWay, Touched
    <3> QED
      BY <1>1, <1>2, <2>1, <2>3, <3>2 DEF MergeConflicts, Entry, Touched, StagedIn
  <2> QED
    BY <2>2, <2>3
<1> QED
  BY <1>1, <1>2, <1>3, <1>4 DEF StagedIn

LEMMA StagingStep ==
    ASSUME StageRaces = FALSE, TypeOK, Descent, StagingInv, [Next]_vars PROVE StagingInv'
<1>1. call \in [Committers -> CallState] /\ index \in IndexState
  BY DEF TypeOK
<1>2. ASSUME NEW w \in Committers, WriteIndex(w) PROVE StagingInv'
  <2>1. call' = [call EXCEPT ![w] = NoCall] /\ index' = Refreshed(w)
    BY <1>2 DEF WriteIndex, AnswersOk
  <2>2. Refreshed(w) # None
    <3>1. call[w].tree \in Trees /\ call[w].read \in IndexState
      BY <1>1 DEF CallState
    <3>2. Refreshed(w) \in [Paths -> Entries \cup {Unmerged}]
      BY <3>1 DEF Refreshed, IndexState, Trees
    <3> QED
      BY <3>2, IndexIsNotNone
  <2>3. ASSUME NEW p \in Paths, staged'[p] # None
        PROVE  p \notin call[w].named /\ staged'[p] = staged[p]
    BY <1>2, <2>3 DEF WriteIndex
  <2>4. ASSUME NEW p \in Paths, staged'[p] # None PROVE StagedIn(index, p)'
    BY <1>2, <2>1, <2>2, <2>3, <2>4 DEF StagingInv, StagedIn, Refreshed, WriteIndex
  <2>5. ASSUME NEW p \in Paths, staged'[p] # None, NEW v \in Committers, call'[v].pc = "write"
        PROVE  StagedIn(call[v].read, p)'
    BY <1>1, <2>1, <2>3, <2>5 DEF StagingInv, StagedIn, NoCall
  <2> QED
    BY <2>4, <2>5 DEF StagingInv
<1>3. ASSUME NEW p \in Paths, UserStages(p) PROVE StagingInv'
  <2>1. \A w \in Committers : call'[w].pc # "write"
    BY <1>3 DEF UserStages
  <2>2. index \in [Paths -> Entries \cup {Unmerged}] /\ work[p] \in Entries
    BY <1>1, <1>3 DEF UserStages, IndexState, TypeOK, Trees
  <2>3. index' = [index EXCEPT ![p] = work[p]] /\ staged' = [staged EXCEPT ![p] = work[p]]
    BY <1>3 DEF UserStages
  <2>4. index' # None
    BY <2>2, <2>3, IndexIsNotNone
  <2>5. \A q \in Paths : staged'[q] # None => index'[q] = staged'[q]
    BY <2>2, <2>3 DEF StagingInv, StagedIn, TypeOK
  <2> QED
    BY <2>1, <2>4, <2>5 DEF StagingInv, StagedIn
<1>4. ASSUME UserCommits PROVE StagingInv'
  BY <1>4 DEF UserCommits, StagingInv
<1>5. ASSUME NEW w \in Committers, OpenIndex(w) PROVE StagingInv'
  <2>1. UNCHANGED <<index, staged>> /\ call' = [call EXCEPT ![w].pc = "write", ![w].read = index]
    BY <1>5 DEF OpenIndex, files, bounds
  <2>2. call[w] \in CallState
    BY <1>1
  <2>3. \A v \in Committers : call'[v] = IF v = w THEN [call[w] EXCEPT !.pc = "write", !.read = index]
                                         ELSE call[v]
    BY <1>1, <2>1
  <2>4. \A v \in Committers : call'[v].read = IF v = w THEN index ELSE call[v].read
    BY <2>2, <2>3 DEF CallState
  <2>5. \A v \in Committers : call'[v].pc = "write" => v = w \/ call[v].pc = "write"
    BY <2>3
  <2>6. ASSUME NEW p \in Paths, staged'[p] # None, NEW v \in Committers, call'[v].pc = "write"
        PROVE  StagedIn(call[v].read, p)'
    <3>1. StagedIn(index, p) /\ (call[v].pc = "write" => StagedIn(call[v].read, p))
      BY <2>1, <2>6 DEF StagingInv
    <3> QED
      BY <2>1, <2>4, <2>5, <2>6, <3>1 DEF StagedIn
  <2>7. ASSUME NEW p \in Paths, staged'[p] # None PROVE StagedIn(index, p)'
    BY <2>1, <2>7 DEF StagingInv, StagedIn
  <2> QED
    BY <2>6, <2>7 DEF StagingInv
<1>6. ASSUME UNCHANGED <<index, staged>>,
             \A w \in Committers : call'[w].pc = "write" => call'[w] = call[w]
      PROVE  StagingInv'
  BY <1>6 DEF StagingInv, StagedIn
<1>7. ASSUME NEW w \in Committers,
             \/ \E names \in Pathspecs[w] : Begin(w, names)
             \/ StagePath(w) \/ NothingToCommit(w) \/ CommitAs(w) \/ CommitRefused(w) \/ IndexLocked(w)
      PROVE  StagingInv'
  <2>1. UNCHANGED <<index, staged>>
    BY <1>7, Zenon
    DEF Begin, StagePath, NothingToCommit, CommitAs, CommitRefused, IndexLocked, files, bounds
  <2>2. call[w] \in CallState
    BY <1>1
  <2>3. \A v \in Committers \ {w} : call'[v] = call[v]
    BY <1>1, <1>7, Zenon
    DEF Begin, StagePath, NothingToCommit, CommitAs, CommitRefused, IndexLocked, AnswersOk, AnswersErr
  <2>4. ASSUME NEW names, Begin(w, names) PROVE call'[w].pc # "write"
    BY <1>1, <2>4 DEF Begin, NoCall
  <2>5. ASSUME StagePath(w) PROVE call'[w].pc # "write"
    BY <1>1, <2>2, <2>5 DEF StagePath, CallState
  <2>6. ASSUME CommitAs(w) PROVE call'[w].pc # "write"
    BY <1>1, <2>2, <2>6 DEF CommitAs, CallState
  <2>7. ASSUME NothingToCommit(w) \/ CommitRefused(w) \/ IndexLocked(w) PROVE call'[w].pc # "write"
    BY <1>1, <2>7 DEF NothingToCommit, CommitRefused, IndexLocked, AnswersOk, AnswersErr, NoCall
  <2> QED
    BY <1>6, <1>7, <2>1, <2>3, <2>4, <2>5, <2>6, <2>7
<1>8. ASSUME Kill PROVE StagingInv'
  <2>1. \A w \in Committers : call'[w].pc # "write"
    BY <1>8 DEF Kill, NoCall
  <2> QED
    BY <1>6, <1>8, <2>1 DEF Kill, files
<1>9. ASSUME UNCHANGED <<index, staged, call>> PROVE StagingInv'
  BY <1>6, <1>9
<1> QED
  BY MergeKeepsStaging, <1>2, <1>3, <1>4, <1>5, <1>7, <1>8, <1>9
  DEF Next, CommitPaths, SyncCycle, Pull, vars, files, bounds, Push, PushRejected, PushFails, Fetch,
      FetchFails, MergeRefused, MergeUpToDate, MergeLocks, MergeBlocked, MergeMoves, MergeLosesHead,
      Write, OtherPushes

(* Whatever commits and pulls run, an entry the user staged stays in the     *)
(* index until it is committed -- as long as `git add` does not run between  *)
(* a refresh's read of the index and its write.                              *)
THEOREM StagingSurvives == ASSUME StageRaces = FALSE PROVE Spec => []StagingKept
<1>1. Init => StagingInv
  BY DEF Init, StagingInv
<1>2. HistoryInv /\ StagingInv /\ [Next]_vars => StagingInv'
  BY StagingStep, Zenon DEF HistoryInv
<1>3. StagingInv => StagingKept
  BY DEF StagingInv, StagedIn, StagingKept
<1> QED
  BY <1>1, <1>2, <1>3, HistoryInvHolds, PTL DEF Spec
=============================================================================
