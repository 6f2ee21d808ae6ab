------------------------------ MODULE OffsetLog ------------------------------
(***************************************************************************)
(* What a log store promises to NuRaft: one entry for every index from the *)
(* first to the one before the next slot, and no others.                   *)
(***************************************************************************)
EXTENDS Integers

CONSTANTS Entries,
          Indices       \* the indices in use

VARIABLES first, next, log

TypeOK ==
  /\ first \in Nat \ {0}
  /\ next \in Nat /\ first <= next
  /\ log \in [first..(next - 1) -> Entries]

Empty == first = 1 /\ next = 1 /\ log = [i \in 1..0 |-> 0]

\* An entry goes to index i, and what was there and behind it is gone.
Write(i, e) ==
  /\ i \in first..next
  /\ next' = i + 1
  /\ log' = [j \in first..i |-> IF j = i THEN e ELSE log[j]]
  /\ UNCHANGED first

\* The log now starts behind index last.
Compact(last) ==
  /\ last >= first
  /\ first' = last + 1
  /\ next' = IF next > last THEN next ELSE last + 1
  /\ log' = [j \in first'..(next' - 1) |-> log[j]]

\* An empty log takes over a part of another one, wherever that starts.
Install(i, n) ==
  /\ first = next /\ i > 0 /\ n > i
  /\ first' = i
  /\ next' = n
  /\ log' \in [i..(n - 1) -> Entries]

\* The process that kept it in memory is gone.
Lose == first' = 1 /\ next' = 1 /\ log' = [i \in 1..0 |-> 0]

Next ==
  \/ \E i \in first..next, e \in Entries : Write(i, e)
  \/ \E last \in Indices : Compact(last)
  \/ \E i, n \in Indices : Install(i, n)
  \/ Lose

Spec == Empty /\ [][Next]_<<first, next, log>>
=============================================================================
