---------------------------- MODULE GitRepository ----------------------------
(* git/operations.rs: the commits that closes and lifecycle operations make  *)
(* through commit_paths, with the refresh of .git/index behind them, and the *)
(* push and pull of the sync worker, which run the git program. They share   *)
(* HEAD, the index and the worktree with each other, with the user's own git *)
(* and with the idle writes, and nothing serializes them but the compare-    *)
(* and-set of HEAD and git's index.lock, which is held for one write.        *)
EXTENDS Integers, Sequences, FiniteSets, FiniteSetsExt

CONSTANTS
    Paths,       \* the files of the bundle
    Directories, \* names that stand for every file inside them
    Inside,      \* the Directory of a path, None at the root
    Pathspecs,   \* the sets of names each committer may give commit_paths
    Texts,       \* what a file may hold
    Committers,  \* threads that commit: closes and lifecycle operations
    Markers,     \* the text that git leaves in a conflicted file
    Absent,      \* no file, no entry
    Unmerged,    \* the conflict stages of an index entry
    None,
    Adopted,     \* the trees a cloned or adopted repository may begin with
    Worktrees,   \* what it may hold on disk, committed or not
    MaxCommits,  \* bound on commits other than merges
    MaxWrites,   \* bound on changes of the worktree
    MaxStages,   \* bound on the user's `git add`
    MaxKills,    \* bound on kills of the process
    StageRaces   \* may the user stage between the two halves of a refresh?

ASSUME NamesAssumption ==
    /\ Paths \cap Directories = {}
    /\ Inside \in [Paths -> Directories \cup {None}]
    /\ Pathspecs \in [Committers -> SUBSET SUBSET (Paths \cup Directories)]
ASSUME TextsAssumption ==
    /\ Markers \notin Texts /\ Unmerged \notin Texts /\ Absent \notin Texts
    /\ Cardinality({Markers, Unmerged, Absent, None}) = 4
    /\ None \notin Texts \cup Directories
    /\ None \notin [Paths -> Texts \cup {Markers, Absent, Unmerged}]
ASSUME AdoptedAssumption ==
    /\ Adopted \subseteq [Paths -> Texts \cup {Absent}]
    /\ Worktrees \subseteq [Paths -> Texts \cup {Absent}]
ASSUME BoundsAssumption ==
    /\ MaxCommits \in Nat /\ MaxWrites \in Nat /\ MaxStages \in Nat /\ MaxKills \in Nat
    /\ StageRaces \in BOOLEAN

VARIABLES
    commits,   \* the objects of this repository and its remote, oldest first
    head,      \* the commit HEAD names, 0 when unborn
    remote,    \* the commit the remote's branch names
    tracking,  \* the same, as of the last fetch or push
    mergeHead, \* MERGE_HEAD: the other side of a merge not concluded, or 0
    work,      \* the worktree
    index,     \* .git/index, None before its first write
    call,      \* each committer's call of commit_paths
    sync,      \* the worker's push or pull in progress
    report,    \* what the last sync cycle reported
    staged,    \* history: what the user has staged and not committed
    stages,    \* how many times
    writes,    \* changes of the worktree
    kills

repo == <<commits, head, remote, tracking, mergeHead>>
files == <<work, index>>
bounds == <<staged, stages, writes, kills>>
vars == <<repo, files, call, sync, report, bounds>>

-----------------------------------------------------------------------------
(* A commit is its tree and the commits it descends from, itself included.   *)

Blobs == Texts \cup {Markers}
Entries == Blobs \cup {Absent}
Trees == [Paths -> Entries]
EmptyTree == [p \in Paths |-> Absent]

TreeOf(c) == IF c = 0 THEN EmptyTree ELSE commits[c].tree
PastOf(c) == IF c = 0 THEN {} ELSE commits[c].past

Covers(name) == {p \in Paths : p = name \/ Inside[p] = name}

(* The commit object written over `parents`.                                 *)
Written(tree, parents) ==
    Append(commits, [tree |-> tree,
                     past |-> {Len(commits) + 1} \cup UNION {PastOf(c) : c \in parents}])
Newest == Len(commits) + 1

NoCall == [pc |-> "idle", todo |-> {}, named |-> {}, parent |-> 0, tree |-> EmptyTree, read |-> None]
AnswersOk(w) == call' = [call EXCEPT ![w] = NoCall]
AnswersErr(w) == call' = [call EXCEPT ![w] = [NoCall EXCEPT !.pc = "failed"]]

NoSync == [pc |-> "idle", old |-> 0, tree |-> EmptyTree]

Init ==
    /\ \/ commits = <<>> /\ head = 0 /\ index = None
       \/ \E tree \in Adopted :
             commits = <<[tree |-> tree, past |-> {1}]>> /\ head = 1 /\ index = tree
    /\ remote = head
    /\ tracking = head
    /\ mergeHead = 0
    /\ work \in Worktrees
    /\ call = [w \in Committers |-> NoCall]
    /\ sync = NoSync
    /\ report = "idle"
    /\ staged = [p \in Paths |-> None]
    /\ stages = 0
    /\ writes = 0
    /\ kills = 0

-----------------------------------------------------------------------------
(* commit_paths                                                              *)

(* HEAD is read once: the tree and the parent come from the same read.       *)
Begin(w, names) ==
    /\ call[w].pc \in {"idle", "failed"}
    /\ Len(commits) < MaxCommits
    /\ call' = [call EXCEPT ![w] = [NoCall EXCEPT !.pc = "stage", !.todo = names,
                                                  !.parent = head, !.tree = TreeOf(head)]]
    /\ UNCHANGED <<repo, files, sync, report, bounds>>

(* A name that is a file on disk enters the tree; any other name leaves it,  *)
(* a Directory's with everything inside.                                     *)
Blob(name) == IF name \in Paths THEN work[name] ELSE Absent

StagePath(w) ==
    /\ call[w].pc = "stage"
    /\ \E name \in call[w].todo :
          call' = [call EXCEPT ![w].todo = @ \ {name},
                               ![w].named = @ \cup Covers(name),
                               ![w].tree = [p \in Paths |->
                                   IF p \in Covers(name) THEN Blob(name) ELSE @[p]]]
    /\ UNCHANGED <<repo, files, sync, report, bounds>>

Complete(w) == call[w].pc = "stage" /\ call[w].todo = {}

(* `if tree_id == parent_tree_id { return Ok(None) }`                        *)
NothingToCommit(w) ==
    /\ Complete(w)
    /\ call[w].tree = TreeOf(call[w].parent)
    /\ AnswersOk(w)
    /\ UNCHANGED <<repo, files, sync, report, bounds>>

(* commit_as moves HEAD only from the parent the commit names.               *)
(* Mutation: it moves HEAD from wherever it is. *)
HeadMatchesAlways(w) == TRUE

HeadMatches(w) == head = call[w].parent

(* Mutation: the parent is a second read of HEAD, the tree the first one's. *)
CommitAsFreshParent(w) ==
    /\ Complete(w)
    /\ call[w].tree # TreeOf(call[w].parent)
    /\ commits' = Written(call[w].tree, {head})
    /\ head' = Newest
    /\ call' = [call EXCEPT ![w].pc = "open"]
    /\ UNCHANGED <<remote, tracking, mergeHead, files, sync, report, bounds>>

CommitAs(w) ==
    /\ Complete(w)
    /\ call[w].tree # TreeOf(call[w].parent)
    /\ HeadMatches(w)
    /\ commits' = Written(call[w].tree, {call[w].parent})
    /\ head' = Newest
    /\ call' = [call EXCEPT ![w].pc = "open"]
    /\ UNCHANGED <<remote, tracking, mergeHead, files, sync, report, bounds>>

CommitRefused(w) ==
    /\ Complete(w)
    /\ call[w].tree # TreeOf(call[w].parent)
    /\ ~HeadMatches(w)
    /\ AnswersErr(w)
    /\ UNCHANGED <<repo, files, sync, report, bounds>>

(* refresh_index_entries reads the index...                                  *)
OpenIndex(w) ==
    /\ call[w].pc = "open"
    /\ call' = [call EXCEPT ![w].pc = "write", ![w].read = index]
    /\ UNCHANGED <<repo, files, sync, report, bounds>>

(* ... and writes it back with the named entries moved, or seeds one from    *)
(* the tree when there was none.                                             *)
(* Mutation: the index is rebuilt from the committed tree. *)
RefreshedFromTree(w) == call[w].tree

Refreshed(w) ==
    [p \in Paths |-> IF p \in call[w].named \/ call[w].read = None
                     THEN call[w].tree[p] ELSE call[w].read[p]]

WriteIndex(w) ==
    /\ call[w].pc = "write"
    /\ sync.pc # "locked"
    /\ index' = Refreshed(w)
    /\ staged' = [p \in Paths |-> IF p \in call[w].named THEN None ELSE staged[p]]
    /\ AnswersOk(w)
    /\ UNCHANGED <<repo, work, sync, report, stages, writes, kills>>

(* git holds index.lock: the commit stands, its refresh is an error.         *)
IndexLocked(w) ==
    /\ call[w].pc = "write"
    /\ sync.pc = "locked"
    /\ AnswersErr(w)
    /\ UNCHANGED <<repo, files, sync, report, bounds>>

-----------------------------------------------------------------------------
(* push and pull                                                             *)

Reports(status) == report' = status /\ sync' = NoSync

(* The remote takes a branch that descends from its own.                     *)
FastForward == remote = 0 \/ remote \in PastOf(head)

Push ==
    /\ sync.pc = "idle" /\ head # 0
    /\ FastForward
    /\ remote' = head
    /\ tracking' = head
    /\ Reports("idle")
    /\ UNCHANGED <<commits, head, mergeHead, files, call, bounds>>

(* "non-fast-forward" and "fetch first" are GitConflict, and lead to a pull. *)
(* Mutation: a rejected push is reported as done. *)
PushRejectedQuietly ==
    /\ sync.pc = "idle" /\ head # 0
    /\ ~FastForward
    /\ Reports("idle")
    /\ UNCHANGED <<repo, files, call, bounds>>

PushRejected ==
    /\ sync.pc = "idle" /\ head # 0
    /\ ~FastForward
    /\ sync' = [sync EXCEPT !.pc = "fetch"]
    /\ UNCHANGED <<repo, files, call, report, bounds>>

(* Network, credentials, or nothing to push yet: "error" stands for Retrying *)
(* too.                                                                      *)
PushFails ==
    /\ sync.pc = "idle"
    /\ Reports("error")
    /\ UNCHANGED <<repo, files, call, bounds>>

Fetch ==
    /\ sync.pc = "fetch"
    /\ tracking' = remote
    /\ sync' = [sync EXCEPT !.pc = "merge"]
    /\ UNCHANGED <<commits, head, remote, mergeHead, files, call, report, bounds>>

FetchFails ==
    /\ sync.pc = "fetch"
    /\ Reports("error")
    /\ UNCHANGED <<repo, files, call, bounds>>

(* What git merge refuses before it touches anything: "Exiting because of an *)
(* unresolved conflict" holds the word that makes a GitConflict of it, "You  *)
(* have not concluded your merge" and unrelated histories are IoError.       *)
Conflicted == index # None /\ \E p \in Paths : index[p] = Unmerged
Unconcluded == mergeHead # 0
Related == PastOf(head) \cap PastOf(tracking) # {}

MergeRefused ==
    /\ sync.pc = "merge"
    /\ \/ Conflicted /\ Reports("conflict")
       \/ ~Conflicted /\ (Unconcluded \/ ~Related) /\ Reports("error")
    /\ UNCHANGED <<repo, files, call, bounds>>

MergeUpToDate ==
    /\ sync.pc = "merge"
    /\ ~Conflicted /\ ~Unconcluded
    /\ tracking \in PastOf(head)
    /\ Reports("idle")
    /\ UNCHANGED <<repo, files, call, bounds>>

MergeLocks ==
    /\ sync.pc = "merge"
    /\ ~Conflicted /\ ~Unconcluded /\ Related
    /\ tracking \notin PastOf(head)
    /\ sync' = [sync EXCEPT !.pc = "locked", !.old = head]
    /\ UNCHANGED <<repo, files, call, report, bounds>>

(* The three-way merge, path by path.                                        *)
Base == TreeOf(Max(PastOf(sync.old) \cap PastOf(tracking)))
Ours == TreeOf(sync.old)
Theirs == TreeOf(tracking)
Straight == sync.old \in PastOf(tracking)
Clash(p) == Ours[p] # Base[p] /\ Theirs[p] # Base[p] /\ Ours[p] # Theirs[p]
Clashes == \E p \in Paths : Clash(p)
Merged(p) == IF Ours[p] = Base[p] THEN Theirs[p] ELSE Ours[p]
MarkedUp(p) == IF Ours[p] = Absent THEN Theirs[p]
               ELSE IF Theirs[p] = Absent THEN Ours[p] ELSE Markers

(* git overwrites neither staged changes nor a file that differs from them;  *)
(* a merge that is no fast-forward wants the whole index to be HEAD's.       *)
Entry(p) == IF index = None THEN Absent ELSE index[p]
Touched(p) == Clash(p) \/ Merged(p) # Ours[p]
InTheWay(p) ==
    \/ Entry(p) # Ours[p] /\ (Touched(p) \/ ~Straight)
    \/ Touched(p) /\ work[p] # Entry(p)
Blocked == \E p \in Paths : InTheWay(p)

MergeBlocked ==
    /\ sync.pc = "locked"
    /\ Blocked
    /\ Reports("error")
    /\ UNCHANGED <<repo, files, call, bounds>>

(* What the merge touches was not staged, or staged as HEAD has it.          *)
Unstaged == staged' = [p \in Paths |-> IF Touched(p) THEN None ELSE staged[p]]

(* Conflict markers stay in the worktree; the merge is not aborted.          *)
MergeConflicts ==
    /\ sync.pc = "locked"
    /\ ~Blocked /\ Clashes
    /\ work' = [p \in Paths |-> IF Clash(p) THEN MarkedUp(p)
                                ELSE IF Touched(p) THEN Merged(p) ELSE work[p]]
    /\ index' = [p \in Paths |-> IF Clash(p) THEN Unmerged ELSE Merged(p)]
    /\ mergeHead' = tracking
    /\ Unstaged
    /\ Reports("conflict")
    /\ UNCHANGED <<commits, head, remote, tracking, call, stages, writes, kills>>

MergeApplies ==
    /\ sync.pc = "locked"
    /\ ~Blocked /\ ~Clashes
    /\ work' = [p \in Paths |-> IF Touched(p) THEN Merged(p) ELSE work[p]]
    /\ index' = [p \in Paths |-> IF Touched(p) THEN Merged(p) ELSE Entry(p)]
    /\ sync' = [sync EXCEPT !.pc = "moving", !.tree = [p \in Paths |-> Merged(p)]]
    /\ Unstaged
    /\ UNCHANGED <<repo, call, report, stages, writes, kills>>

(* HEAD moves from the commit the merge began at, to the remote's own one or *)
(* to a new one over both.                                                   *)
MergeMoves ==
    /\ sync.pc = "moving"
    /\ head = sync.old
    /\ IF Straight THEN head' = tracking /\ UNCHANGED commits
       ELSE /\ commits' = Written(sync.tree, {head, tracking})
            /\ head' = Newest
    /\ Reports("idle")
    /\ UNCHANGED <<remote, tracking, mergeHead, files, call, bounds>>

MergeLosesHead ==
    /\ sync.pc = "moving"
    /\ head # sync.old
    /\ Reports("error")
    /\ UNCHANGED <<repo, files, call, bounds>>

-----------------------------------------------------------------------------
(* Around the repository                                                     *)

(* A tier 2 write, a lifecycle operation or another program changes a file.  *)
Write(p) ==
    /\ writes < MaxWrites
    /\ writes' = writes + 1
    /\ \E t \in (Texts \cup {Absent}) \ {work[p]} : work' = [work EXCEPT ![p] = t]
    /\ UNCHANGED <<repo, index, call, sync, report, staged, stages, kills>>

(* `git add` of one path, which also resolves its conflict.                  *)
UserStages(p) ==
    /\ stages < MaxStages
    /\ index # None /\ index[p] # work[p]
    /\ sync.pc # "locked"
    /\ StageRaces \/ \A w \in Committers : call[w].pc # "write"
    /\ index' = [index EXCEPT ![p] = work[p]]
    /\ staged' = [staged EXCEPT ![p] = work[p]]
    /\ stages' = stages + 1
    /\ UNCHANGED <<repo, work, call, sync, report, writes, kills>>

(* `git commit` of the index, which concludes a merge.                       *)
UserCommits ==
    /\ index # None /\ ~Conflicted
    /\ sync.pc # "locked"
    /\ \/ mergeHead # 0
       \/ Len(commits) < MaxCommits /\ index # TreeOf(head) /\ \E p \in Paths : staged[p] # None
    /\ commits' = Written(index, {head, mergeHead})
    /\ head' = Newest
    /\ mergeHead' = 0
    /\ staged' = [p \in Paths |-> None]
    /\ UNCHANGED <<remote, tracking, files, call, sync, report, stages, writes, kills>>

(* Another device pushes a change of one file.                               *)
OtherPushes ==
    /\ Len(commits) < MaxCommits
    /\ remote # 0
    /\ \E p \in Paths, t \in Texts \cup {Absent} :
          /\ t # TreeOf(remote)[p]
          /\ commits' = Written([TreeOf(remote) EXCEPT ![p] = t], {remote})
    /\ remote' = Newest
    /\ UNCHANGED <<head, tracking, mergeHead, files, call, sync, report, bounds>>

(* The process is killed, and git with it, at any step.                      *)
Kill ==
    /\ kills < MaxKills
    /\ kills' = kills + 1
    /\ call' = [w \in Committers |-> [NoCall EXCEPT !.pc = "failed"]]
    /\ sync' = NoSync
    /\ report' = "idle"
    /\ UNCHANGED <<repo, files, staged, stages, writes>>

-----------------------------------------------------------------------------

CommitPaths(w) ==
    \/ StagePath(w) \/ NothingToCommit(w) \/ CommitAs(w) \/ CommitRefused(w)
    \/ OpenIndex(w) \/ WriteIndex(w) \/ IndexLocked(w)

Pull ==
    \/ Fetch \/ FetchFails
    \/ MergeRefused \/ MergeUpToDate \/ MergeLocks
    \/ MergeBlocked \/ MergeConflicts \/ MergeApplies
    \/ MergeMoves \/ MergeLosesHead

SyncCycle == Push \/ PushRejected \/ PushFails \/ Pull

Next ==
    \/ \E w \in Committers :
          \/ \E names \in Pathspecs[w] : Begin(w, names)
          \/ CommitPaths(w)
    \/ SyncCycle
    \/ \E p \in Paths : Write(p) \/ UserStages(p)
    \/ UserCommits
    \/ OtherPushes
    \/ Kill

Spec == Init /\ [][Next]_vars

(* The threads run, and the scheduler's poll starts cycle after cycle. Where *)
(* the remote never answers again, the report is an error again and again:   *)
(* such behaviours satisfy Converges and are left out.                       *)
Fairness ==
    /\ \A w \in Committers : WF_vars(CommitPaths(w))
    /\ WF_vars(Push \/ PushRejected)
    /\ WF_vars(Pull)

FairSpec == Spec /\ Fairness

-----------------------------------------------------------------------------
(* Properties                                                                *)

(* "every path not named here keeps whatever HEAD recorded for it": the HEAD *)
(* a commit replaces and the commit itself differ in nothing else, however   *)
(* many commits, pulls and users moved HEAD while it was being built.        *)
NothingReverted ==
    [][\A w \in Committers :
          call[w].pc = "stage" /\ call'[w].pc = "open"
              => \A p \in Paths \ call[w].named : TreeOf(head)'[p] = TreeOf(head)[p]]_vars

(* HEAD and the remote's branch only ever gain commits: racing commits and   *)
(* merges fail, and a push never replaces what another device pushed.        *)
HistoryKept ==
    [][PastOf(head) \subseteq PastOf(head)' /\ PastOf(remote) \subseteq PastOf(remote)']_vars

(* A commit_paths that answers Ok, "nothing to commit" included, leaves the  *)
(* bytes it read for its paths in the history of HEAD.                       *)
CommitRecorded ==
    [][\A w \in Committers :
          call[w].pc \in {"stage", "write"} /\ call'[w].pc = "idle"
              => \E c \in PastOf(head) \cup {0} :
                    \A p \in call[w].named : TreeOf(c)[p] = call[w].tree[p]]_vars

(* "leaving every other entry -- and therefore everything the user has       *)
(* staged -- exactly as it was".                                             *)
StagingKept ==
    \A p \in Paths : staged[p] # None => index[p] = staged[p]

(* What is committed reaches the remote, or the worker says why not: it does *)
(* not report Idle for ever over commits that are nowhere else.              *)
Converges == []<>(head = 0 \/ head \in PastOf(remote) \/ report # "idle")

=============================================================================
