------------------------------- MODULE LogStore -------------------------------
(***************************************************************************)
(* inmem_log_store: a map from index to entry and the index of the first   *)
(* one.  A region under logs_lock_ is one action.  Operations that take    *)
(* the lock once per entry (log_entries, log_entries_ext, pack, apply_pack) *)
(* or twice (last_entry) are sequences of actions between which the others  *)
(* run.                                                                    *)
(*                                                                         *)
(* NuRaft (external) has one writer at a time and writes no further than   *)
(* the next slot; the other threads read whenever they like.               *)
(***************************************************************************)
EXTENDS Integers, FiniteSets

CONSTANTS Terms,       \* what tells entries apart: their terms
          Readers,     \* threads that read
          MaxIdx       \* bound on the indices in use

ASSUME TermsAssumption == Terms \subseteq Nat \ {0}
ASSUME MaxIdxAssumption == MaxIdx \in Nat \ {0}

Dummy == 0             \* the term of the dummy entry at index 0
Null == -1             \* a null pointer in the map
Entry == Terms \cup {Dummy, Null}

VARIABLES up,          \* the process runs
          logs,        \* logs_
          start_idx,   \* start_idx_
          applying,    \* an apply_pack under way: where it is, where it ends
          rd           \* each reader's operation

vars == <<up, logs, start_idx, applying, rd>>

NotApplying == [on |-> FALSE, jump |-> FALSE, at |-> 0, end |-> 0]
Idle == [op |-> "none", at |-> 0, end |-> 0, want |-> Dummy, hit |-> FALSE]

\* inmem_log_store(): the dummy entry, and 1 as the first index.
Init ==
  /\ up = TRUE
  /\ logs = [i \in {0} |-> Dummy]
  /\ start_idx = 1
  /\ applying = NotApplying
  /\ rd = [r \in Readers |-> Idle]

next_slot == start_idx + Cardinality(DOMAIN logs) - 1

\* logs_[i] = e
Put(i, e) == [j \in DOMAIN logs \cup {i} |-> IF j = i THEN e ELSE logs[j]]

Only(S) == [j \in DOMAIN logs \cap S |-> logs[j]]

\* entry_at, term_at and the look-up of every reader: the dummy if missing.
entry_at(i) == IF i \in DOMAIN logs THEN logs[i] ELSE logs[0]

\* History: readers whose range loses an entry in this step.
Hit(S) == rd' = [r \in Readers |->
                   IF rd[r].op # "none" /\ S \cap rd[r].at..(rd[r].end - 1) # {}
                   THEN [rd[r] EXCEPT !.hit = TRUE] ELSE rd[r]]

-----------------------------------------------------------------------------
(* The writer.                                                             *)

append(e) ==
  /\ up /\ ~applying.on /\ next_slot <= MaxIdx
  /\ logs' = Put(next_slot, e)
  /\ UNCHANGED <<up, start_idx, applying, rd>>

\* MUTANT: what is behind the index is not discarded.
write_atKeepsTail(i, e) ==
  /\ up /\ ~applying.on /\ i \in start_idx..next_slot /\ i <= MaxIdx
  /\ logs' = Put(i, e)
  /\ UNCHANGED <<up, start_idx, applying, rd>>

\* MUTANT: the entry before the index goes too.
write_atOneBefore(i, e) ==
  /\ up /\ ~applying.on /\ i \in start_idx..next_slot /\ i <= MaxIdx
  /\ logs' = [j \in (DOMAIN logs \cap 0..(i - 2)) \cup {0, i} |->
                IF j = i THEN e ELSE logs[j]]
  /\ Hit(DOMAIN logs \cap i..MaxIdx)
  /\ UNCHANGED <<up, start_idx, applying>>

\* Discards the index and what is behind it, then sets it.
write_at(i, e) ==
  /\ up /\ ~applying.on /\ i \in start_idx..next_slot /\ i <= MaxIdx
  /\ logs' = [j \in (DOMAIN logs \cap 0..(i - 1)) \cup {i} |->
                IF j = i THEN e ELSE logs[j]]
  /\ Hit(DOMAIN logs \cap i..MaxIdx)
  /\ UNCHANGED <<up, start_idx, applying>>

\* The loop runs from the first index; the first index moves even if there
\* was nothing to erase.
compact(last) ==
  /\ up /\ ~applying.on /\ last \in 0..MaxIdx
  /\ logs' = Only(Nat \ start_idx..last)
  /\ start_idx' = IF start_idx <= last THEN last + 1 ELSE start_idx
  /\ Hit(DOMAIN logs \cap start_idx..last)
  /\ UNCHANGED <<up, applying>>

\* apply_pack: the leader's entries continue the log, or start further on (a
\* jump) when it is empty.
apply_pack(i, n) ==
  /\ up /\ ~applying.on /\ n > 0 /\ i + n - 1 <= MaxIdx
  /\ \/ i = next_slot
     \/ next_slot = start_idx /\ i > start_idx
  /\ applying' = [on |-> TRUE, jump |-> (i # next_slot), at |-> i, end |-> i + n]
  /\ UNCHANGED <<up, logs, start_idx, rd>>

\* One round of its loop.
ApplyEntry(e) ==
  /\ up /\ applying.on /\ applying.at < applying.end
  /\ logs' = Put(applying.at, e)
  /\ applying' = [applying EXCEPT !.at = @ + 1]
  /\ UNCHANGED <<up, start_idx, rd>>

\* MUTANT: the first index is left alone.
ApplyDoneKeepsStart ==
  /\ up /\ applying.on /\ applying.at = applying.end
  /\ applying' = NotApplying
  /\ UNCHANGED <<up, logs, start_idx, rd>>

\* logs_.upper_bound(0): the map's first key above 0.
FirstKey == CHOOSE i \in DOMAIN logs \ {0} : \A j \in DOMAIN logs \ {0} : i <= j

\* Its end: the first index is the first key, or 1 if there is none.
ApplyDone ==
  /\ up /\ applying.on /\ applying.at = applying.end
  /\ start_idx' = IF DOMAIN logs \ {0} # {} THEN FirstKey ELSE 1
  /\ applying' = NotApplying
  /\ UNCHANGED <<up, logs, rd>>

-----------------------------------------------------------------------------
(* The readers.                                                            *)

\* NuRaft reads nothing of a log that is empty but for a jump under way.
CanRead(r) == up /\ rd[r].op = "none" /\ ~applying.jump

Last == logs[CHOOSE i \in DOMAIN logs : \A j \in DOMAIN logs : j <= i]

\* MUTANT: the slot after the last one is looked up.
last_entryNext(r) ==
  /\ CanRead(r)
  /\ rd' = [rd EXCEPT ![r] = [Idle EXCEPT !.op = "last", !.at = next_slot,
                              !.end = next_slot + 1, !.want = Last]]
  /\ UNCHANGED <<up, logs, start_idx, applying>>

\* last_entry takes the lock in next_slot() first; want is what it is to find.
last_entry(r) ==
  /\ CanRead(r)
  /\ rd' = [rd EXCEPT ![r] = [Idle EXCEPT !.op = "last", !.at = next_slot - 1,
                              !.end = next_slot, !.want = Last]]
  /\ UNCHANGED <<up, logs, start_idx, applying>>

\* Then it looks for the entry.
LastFound(r) ==
  /\ up /\ rd[r].op = "last"
  /\ rd' = [rd EXCEPT ![r] = Idle]
  /\ UNCHANGED <<up, logs, start_idx, applying>>

\* log_entries and log_entries_ext ("entries") and pack are called for entries
\* the log has.
Read(r, op, from, to) ==
  /\ CanRead(r)
  /\ start_idx <= from /\ from < to /\ to <= next_slot
  /\ rd' = [rd EXCEPT ![r] = [Idle EXCEPT !.op = op, !.at = from, !.end = to]]
  /\ UNCHANGED <<up, logs, start_idx, applying>>

\* One round of the loop.  After the last one the reader has its entries;
\* log_entries_ext has enough of them earlier if its hint says so.
ReadEntry(r) ==
  /\ up /\ rd[r].op \in {"entries", "pack"}
  /\ rd[r].at \in DOMAIN logs
  /\ \/ rd[r].at + 1 < rd[r].end /\ rd' = [rd EXCEPT ![r].at = @ + 1]
     \/ rd[r].at + 1 = rd[r].end /\ rd' = [rd EXCEPT ![r] = Idle]
     \/ rd[r].op = "entries" /\ rd' = [rd EXCEPT ![r] = Idle]
  /\ UNCHANGED <<up, logs, start_idx, applying>>

\* The entry is missing: assert(0), or with NDEBUG the dummy in its place;
\* pack has made a null entry with operator[] and cannot go on in either build.
ReadMissing(r) ==
  /\ up /\ rd[r].op \in {"entries", "pack"}
  /\ rd[r].at \notin DOMAIN logs
  /\ \/ /\ up' = FALSE
        /\ logs' = IF rd[r].op = "pack" THEN Put(rd[r].at, Null) ELSE logs
        /\ UNCHANGED rd
     \/ /\ rd[r].op = "entries"
        /\ \/ rd[r].at + 1 < rd[r].end /\ rd' = [rd EXCEPT ![r].at = @ + 1]
           \/ rd' = [rd EXCEPT ![r] = Idle]
        /\ UNCHANGED <<up, logs>>
  /\ UNCHANGED <<start_idx, applying>>

-----------------------------------------------------------------------------
(* The process dies; load_log_store makes a new store in the next one.     *)

Die ==
  /\ up
  /\ up' = FALSE
  /\ UNCHANGED <<logs, start_idx, applying, rd>>

load_log_store ==
  /\ ~up
  /\ up' = TRUE
  /\ logs' = [i \in {0} |-> Dummy]
  /\ start_idx' = 1
  /\ applying' = NotApplying
  /\ rd' = [r \in Readers |-> Idle]

Writer ==
  \/ \E e \in Terms : append(e) \/ ApplyEntry(e)
  \/ \E i \in 1..MaxIdx, e \in Terms : write_at(i, e)
  \/ \E last \in 0..MaxIdx : compact(last)
  \/ \E i, n \in 1..MaxIdx : apply_pack(i, n)
  \/ ApplyDone

Reader(r) ==
  \/ last_entry(r) \/ LastFound(r)
  \/ \E op \in {"entries", "pack"}, from \in 1..MaxIdx, to \in 2..(MaxIdx + 1) :
       Read(r, op, from, to)
  \/ ReadEntry(r) \/ ReadMissing(r)

Next ==
  \/ Writer
  \/ \E r \in Readers : Reader(r)
  \/ Die \/ load_log_store

Spec == Init /\ [][Next]_vars

-----------------------------------------------------------------------------
(* Properties.                                                             *)

\* Type invariant of the store and its readers.
TypeOK ==
  /\ up \in BOOLEAN
  /\ DOMAIN logs \subseteq 0..MaxIdx
  /\ logs \in [DOMAIN logs -> Entry]
  /\ start_idx \in 1..(MaxIdx + 1)
  /\ applying \in [on : BOOLEAN, jump : BOOLEAN, at : 0..(MaxIdx + 1),
                   end : 0..(MaxIdx + 1)]
  /\ rd \in [Readers -> [op : {"none", "last", "entries", "pack"},
                         at : 0..(MaxIdx + 1), end : 0..(MaxIdx + 1),
                         want : Entry, hit : BOOLEAN]]

\* The number of entries and the first index are all that next_slot and append
\* look at; they name the slot behind the last entry only as long as the
\* entries have no gap, whatever append, write_at, compact and apply_pack did,
\* in any order (a pack that starts elsewhere is out of step until its end).
Contiguous ==
  (up /\ ~applying.jump) =>
    /\ DOMAIN logs = {0} \cup start_idx..(next_slot - 1)
    /\ \A i \in DOMAIN logs \ {0} : logs[i] \in Terms

\* assert(0) in log_entries and log_entries_ext and assert(le.get()) in pack:
\* a reader misses an entry only if write_at or compact has removed entries of
\* its range since it was called.
ReadersCovered ==
  \A r \in Readers :
    (up /\ rd[r].op \in {"entries", "pack"} /\ ~rd[r].hit) =>
      rd[r].at..(rd[r].end - 1) \subseteq DOMAIN logs

\* last_entry gives up the lock between next_slot() and the look-up: it still
\* returns the entry that was last, unless that entry was removed meanwhile.
LastEntryWasLast ==
  \A r \in Readers :
    (up /\ rd[r].op = "last" /\ ~rd[r].hit) => entry_at(rd[r].at) = rd[r].want

Abstract ==
  INSTANCE OffsetLog WITH
    Entries <- Terms,
    Indices <- 0..(MaxIdx + 1),
    first <- IF up THEN start_idx ELSE 1,
    next <- IF ~up THEN 1 ELSE IF applying.jump THEN start_idx ELSE next_slot,
    log <- IF up /\ ~applying.jump
           THEN [i \in start_idx..(next_slot - 1) |-> logs[i]]
           ELSE [i \in 1..0 |-> 0]

\* The store is a log: every step of a writer, whatever map and counter it
\* leaves in between, is one of OffsetLog's or invisible, and reading, pack's
\* operator[] included, changes nothing.
ImplementsLog == Abstract!Spec
=============================================================================
