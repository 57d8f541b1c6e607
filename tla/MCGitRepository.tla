---------------------------- MODULE MCGitRepository ----------------------------
(* GitRepository on a bundle of two files, one of them in a Directory.        *)
EXTENDS GitRepository, TLC

CONSTANTS a, b, d, x, y, c1

MCInside == [p \in {a, b} |-> IF p = b THEN d ELSE None]
MCPathspecs == [w \in Committers |-> {{b}, {a, d}}]
MCAdopted == {[p \in {a, b} |-> IF p = a THEN x ELSE Absent]}
MCWorktrees == {[p \in {a, b} |-> x]}
=============================================================================
