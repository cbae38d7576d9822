---------------------------- MODULE Enumerations ----------------------------
(***************************************************************************)
(* What the converter does with lists in loops, each in one expression: the*)
(* elements of a set of numbers in increasing order, those of a list that a*)
(* loop keeps, in their order, and what a loop appends piece by piece.     *)
(* None is recursive, so that facts about them can be proved for lists of  *)
(* any length (EnumerationLemmas).                                         *)
(***************************************************************************)
EXTENDS Integers, Sequences, FiniteSets

\* The position of x in T, from 0.
Rank(T, x) == Cardinality({y \in T : y < x})

\* A finite set of numbers as an increasing sequence.
Sorted(T) == [k \in 1..Cardinality(T) |-> CHOOSE x \in T : Rank(T, x) = k - 1]

\* Where in a sequence the elements of a set are.
Positions(s, T) == {k \in 1..Len(s) : s[k] \in T}

\* The elements of a sequence that are in a set, in their order.
Select(s, T) == [k \in 1..Cardinality(Positions(s, T)) |-> s[Sorted(Positions(s, T))[k]]]

\* The sequences of a sequence, one after the other: the k-th element is that
\* of the slot up to which there are k.
Slots(ss) == UNION {{i} \X (1..Len(ss[i])) : i \in 1..Len(ss)}
UpTo(ss, p) == {q \in Slots(ss) : q[1] < p[1] \/ (q[1] = p[1] /\ q[2] <= p[2])}
SlotAt(ss, k) == CHOOSE p \in Slots(ss) : Cardinality(UpTo(ss, p)) = k
Flat(ss) == [k \in 1..Cardinality(Slots(ss)) |-> ss[SlotAt(ss, k)[1]][SlotAt(ss, k)[2]]]

=============================================================================
