---------------------------- MODULE MCFileServer ----------------------------
(* FileServer for TLC: a Python client and a C program whose users want    *)
(* the same name, a Python client whose user gives none, and files of no   *)
(* and of two blocks and one that does not exist.  The user without a name *)
(* comes before the others, who do not share anything with him: what is    *)
(* cut off is what a user does, which nothing is promised of.              *)
EXTENDS FileServer

CONSTANTS ann, bob, bobLate, eve, empty, hamlet, nowhere
OneName == [c \in {ann, bob, bobLate, eve} |-> IF c = eve THEN Empty ELSE 1]
OwnSignature == [c \in {ann, bob, bobLate, eve} |-> IF c = bobLate THEN bob ELSE c]
OneLate == [p \in Programs |-> bobLate]
OnlyHamlet == <<hamlet>>
SomeBlocks == [f \in Files |-> CASE f = empty -> 0 [] f = hamlet -> 2 [] OTHER -> -1]
AnnMost == [c \in Clients |-> IF c = ann THEN 2 ELSE 1]
EveFirst == (\E c \in Readers \ {eve} : requests[c] > 0) => requests[eve] = 1 /\ client[eve] # "wait"
=============================================================================
