SPECIFICATION Spec
CONSTANTS
    a = a
    b = b
    d = d
    x = x
    y = y
    c1 = c1
    Paths = {a, b}
    Directories = {d}
    Inside <- MCInside
    Pathspecs <- MCPathspecs
    Texts = {x, y}
    Committers = {c1}
    Markers = Markers
    Absent = Absent
    Unmerged = Unmerged
    None = None
    Adopted <- MCAdopted
    Worktrees <- MCWorktrees
    MaxCommits = 3
    MaxWrites = 1
    MaxStages = 1
    MaxKills = 1
    StageRaces = TRUE
INVARIANT StagingKept
CHECK_DEADLOCK FALSE
