----------------------------- MODULE Priorities -----------------------------
(* internal/picker/priority.go: what a piece or a file is worth. *)
EXTENDS Integers

Skip == 0
Low == 1
Normal == 2
High == 3
Priority == {Skip, Low, Normal, High}
=============================================================================
