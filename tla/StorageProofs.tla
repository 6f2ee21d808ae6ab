---------------------------- MODULE StorageProofs ----------------------------
(***************************************************************************)
(* That inmem_log_store has no gap, serves its readers and implements      *)
(* OffsetLog, and that simple_state_mgr forgets no save, for any number of *)
(* entries, readers and versions.                                          *)
(***************************************************************************)
EXTENDS StateManager, FiniteSetTheorems, TLAPS

\* The entries are those from first to the one before next.
Segment(first, next) ==
  first <= next /\ DOMAIN logs = {0} \cup first..(next - 1)

\* The dummy entry at 0, and entries with a term.
MapOK ==
  /\ DOMAIN logs \subseteq 0..MaxIdx /\ logs \in [DOMAIN logs -> Entry]
  /\ 0 \in DOMAIN logs /\ logs[0] = Dummy
  /\ \A i \in DOMAIN logs \ {0} : logs[i] \in Terms

\* The map's shape, also in the middle of an apply_pack.
Shape ==
  /\ MapOK
  /\ applying.jump => applying.on
  /\ applying.on => applying.at <= applying.end /\ start_idx < applying.end
  /\ ~applying.jump =>
       \E n \in Nat : Segment(start_idx, n) /\ (applying.on => applying.at = n)
  /\ applying.jump =>
       \E i \in Nat : /\ start_idx < i /\ i < applying.end
                      /\ Segment(i, applying.at)

\* What a reader that lost nothing of its range still finds.
ReadOK(x) ==
  /\ x.op \in {"entries", "pack"} =>
       /\ 0 < x.at /\ x.at < x.end
       /\ ~x.hit => x.at..(x.end - 1) \subseteq DOMAIN logs
  /\ x.op = "last" =>
       /\ x.end = x.at + 1
       /\ ~x.hit =>
            \/ /\ x.at \in DOMAIN logs \ {0}
               /\ logs[x.at] = x.want
            \/ x.at < start_idx /\ x.want = Dummy

ReaderInv(r) == ReadOK(rd[r])

LogInv == TypeOK /\ (up => Shape /\ \A r \in Readers : ReaderInv(r))

Applying == [on : BOOLEAN, jump : BOOLEAN, at : 0..(MaxIdx + 1), end : 0..(MaxIdx + 1)]
Reading == [op : {"none", "last", "entries", "pack"}, at : 0..(MaxIdx + 1),
            end : 0..(MaxIdx + 1), want : Entry, hit : BOOLEAN]

-----------------------------------------------------------------------------
(* next_slot counts.                                                       *)

\* Counting the dummy and the entries from a to n - 1 gives n: why next_slot is
\* right.
LEMMA SegmentSize ==
  ASSUME NEW a \in Nat \ {0}, NEW n \in Nat, a <= n,
         NEW D, D = {0} \cup a..(n - 1)
  PROVE  a + Cardinality(D) - 1 = n
<1>1. IsFiniteSet(a..(n - 1)) /\ Cardinality(a..(n - 1)) = n - a
  BY FS_Interval
<1>2. 0 \notin a..(n - 1)
  OBVIOUS
<1>3. Cardinality((a..(n - 1)) \cup {0}) = n - a + 1
  BY Zenon, <1>1, <1>2, FS_AddElement
<1>4. D = (a..(n - 1)) \cup {0}
  OBVIOUS
<1>5. Cardinality(D) = n - a + 1
  BY <1>3, <1>4, Zenon
<1> QED BY <1>5

\* next_slot is the slot behind the last entry of a map without a gap.
LEMMA NextSlot ==
  ASSUME TypeOK, NEW n \in Nat, Segment(start_idx, n)
  PROVE  next_slot = n /\ n <= MaxIdx + 1
<1>1. start_idx \in Nat \ {0} /\ start_idx <= n /\ start_idx <= MaxIdx + 1
  BY MaxIdxAssumption DEF TypeOK, Segment
<1>2. next_slot = n
  <2>1. DOMAIN logs = {0} \cup start_idx..(n - 1)
    BY DEF Segment
  <2>2. start_idx + Cardinality(DOMAIN logs) - 1 = n
    BY <1>1, <2>1, SegmentSize
  <2> QED BY <2>2 DEF next_slot
<1>3. n <= MaxIdx + 1
  <2>1. CASE n = start_idx
    BY <1>1, <2>1
  <2>2. CASE n # start_idx
    <3>1. n - 1 \in DOMAIN logs
      BY <1>1, <2>2 DEF Segment
    <3> QED BY <3>1, MaxIdxAssumption DEF TypeOK
  <2> QED BY <2>1, <2>2
<1> QED BY <1>2, <1>3

\* Outside of a jump the invariant says so.
LEMMA Slot ==
  ASSUME LogInv, up, ~applying.jump
  PROVE  /\ next_slot \in Nat /\ next_slot <= MaxIdx + 1
         /\ Segment(start_idx, next_slot)
         /\ applying.on => applying.at = next_slot
BY NextSlot DEF LogInv, Shape

-----------------------------------------------------------------------------
(* The writer's steps.                                                     *)

\* An entry for the slot behind the last one disturbs no reader.
LEMMA GrowReaders ==
  ASSUME LogInv, up, NEW i \in Nat, NEW e, i \notin DOMAIN logs,
         logs' = Put(i, e), UNCHANGED <<start_idx, rd>>
  PROVE  \A r \in Readers : ReaderInv(r)'
<1>1. DOMAIN logs' = DOMAIN logs \cup {i} /\ \A j \in DOMAIN logs : logs'[j] = logs[j]
  BY DEF Put
<1> QED BY <1>1 DEF LogInv, ReaderInv, ReadOK

\* Entries that go are entries that hit the readers they are taken from.
LEMMA ShrinkReaders ==
  ASSUME LogInv, up, NEW S, Hit(S),
         start_idx <= start_idx', start_idx' \in Nat,
         DOMAIN logs \ S \subseteq DOMAIN logs',
         \A j \in DOMAIN logs \ S : logs'[j] = logs[j]
  PROVE  (\A r \in Readers : ReaderInv(r)') /\ rd' \in [Readers -> Reading]
<1>1. ASSUME NEW r \in Readers PROVE ReaderInv(r)' /\ rd'[r] \in Reading
  <2>1. rd[r] \in Reading /\ start_idx \in Nat
    BY MaxIdxAssumption DEF LogInv, TypeOK, Reading
  <2>2. CASE rd[r].op # "none" /\ S \cap rd[r].at..(rd[r].end - 1) # {}
    <3>1. rd'[r] = [rd[r] EXCEPT !.hit = TRUE]
      BY <2>2 DEF Hit
    <3>2. /\ rd'[r] \in Reading /\ rd'[r].hit = TRUE /\ rd'[r].op = rd[r].op
          /\ rd'[r].at = rd[r].at /\ rd'[r].end = rd[r].end
      BY <2>1, <3>1, Zenon DEF Reading
    <3> QED BY <3>2 DEF LogInv, ReaderInv, ReadOK
  <2>3. CASE ~(rd[r].op # "none" /\ S \cap rd[r].at..(rd[r].end - 1) # {})
    <3>1. rd'[r] = rd[r]
      BY <2>3 DEF Hit
    <3>2. rd[r].at \in Nat /\ rd[r].end \in Nat /\ ReaderInv(r)
      BY <2>1, MaxIdxAssumption DEF Reading, LogInv
    <3>3. rd[r].op \in {"entries", "pack"} => ReaderInv(r)'
      BY <2>3, <3>1, <3>2 DEF ReaderInv, ReadOK
    <3>4. rd[r].op = "last" => ReaderInv(r)'
      BY <2>1, <2>3, <3>1, <3>2 DEF ReaderInv, ReadOK
    <3> QED BY SMTT(40), <2>1, <3>1, <3>3, <3>4 DEF ReaderInv, ReadOK
  <2> QED BY <2>2, <2>3
<1>2. rd' \in [Readers -> Reading]
  BY <1>1 DEF Hit
<1> QED BY <1>1, <1>2

\* append, and a round of apply_pack.
LEMMA PutStep ==
  ASSUME LogInv, up, NEW a \in Nat \ {0}, NEW n \in Nat, Segment(a, n), n <= MaxIdx,
         NEW e \in Terms, logs' = Put(n, e), UNCHANGED <<start_idx, rd>>
  PROVE  /\ MapOK' /\ Segment(a, n + 1)'
         /\ \A r \in Readers : ReaderInv(r)'
<1>1. n \notin DOMAIN logs /\ n # 0
  BY DEF Segment
<1>2. /\ DOMAIN logs' = DOMAIN logs \cup {n} /\ logs'[n] = e
      /\ \A j \in DOMAIN logs : logs'[j] = logs[j]
  BY <1>1 DEF Put
<1>3. MapOK'
  <2>1. logs' \in [DOMAIN logs' -> Entry]
    BY <1>2 DEF LogInv, Shape, MapOK, Entry, Put
  <2> QED BY <1>1, <1>2, <2>1, MaxIdxAssumption DEF LogInv, Shape, MapOK
<1>4. DOMAIN logs' = {0} \cup a..((n + 1) - 1) /\ a <= n + 1
  BY <1>2 DEF Segment
<1> QED BY <1>1, <1>3, <1>4, GrowReaders DEF Segment

\* append keeps the invariant: the slot is right behind the last entry.
LEMMA AppendStep ==
  ASSUME LogInv, NEW e \in Terms, append(e)
  PROVE  LogInv'
<1>1. PICK n \in Nat : n = next_slot /\ Segment(start_idx, n) /\ n <= MaxIdx
  BY Slot DEF append, LogInv, Shape
<1>2. /\ logs' = Put(n, e) /\ UNCHANGED <<up, start_idx, applying, rd>>
      /\ up /\ ~applying.on /\ ~applying.jump
  BY <1>1 DEF append, LogInv, Shape
<1>3. start_idx \in Nat \ {0} /\ n + 1 \in Nat
  BY MaxIdxAssumption DEF LogInv, TypeOK
<1>4. MapOK' /\ Segment(start_idx, n + 1)' /\ \A r \in Readers : ReaderInv(r)'
  <2>1. PICK a \in Nat \ {0} : a = start_idx
    BY <1>3
  <2>2. MapOK' /\ Segment(a, n + 1)' /\ \A r \in Readers : ReaderInv(r)'
    BY <1>1, <1>2, <2>1, PutStep
  <2> QED BY <1>2, <2>1, <2>2 DEF Segment
<1>5. Shape'
  BY <1>2, <1>3, <1>4 DEF Shape
<1>6. TypeOK'
  BY <1>2, <1>4 DEF LogInv, TypeOK, MapOK
<1> QED BY <1>2, <1>4, <1>5, <1>6 DEF LogInv

\* A round of apply_pack's loop keeps it.
LEMMA ApplyEntryStep ==
  ASSUME LogInv, NEW e \in Terms, ApplyEntry(e)
  PROVE  LogInv'
<1>1. PICK n \in Nat : n = applying.at
  BY MaxIdxAssumption DEF LogInv, TypeOK
<1>2. /\ logs' = Put(n, e) /\ UNCHANGED <<up, start_idx, rd>>
      /\ up /\ applying.on /\ n < applying.end
      /\ applying' = [applying EXCEPT !.at = @ + 1]
  BY <1>1 DEF ApplyEntry
<1>3. /\ applying \in Applying /\ start_idx \in Nat \ {0}
      /\ n <= MaxIdx /\ applying.end \in Nat /\ applying.end <= MaxIdx + 1
  BY <1>1, <1>2, MaxIdxAssumption DEF LogInv, TypeOK, Applying
<1>4. /\ applying'.at = n + 1 /\ applying'.on = applying.on
      /\ applying'.jump = applying.jump /\ applying'.end = applying.end
      /\ applying' \in Applying
  <2>1. applying.at + 1 \in 0..(MaxIdx + 1)
    BY <1>1, <1>3, MaxIdxAssumption
  <2>2. applying' \in Applying
    BY <1>2, <1>3, <2>1, Zenon DEF Applying
  <2>3. /\ applying'.at = applying.at + 1 /\ applying'.on = applying.on
        /\ applying'.jump = applying.jump /\ applying'.end = applying.end
    BY <1>2, <1>3, Zenon DEF Applying
  <2> QED BY <1>1, <2>2, <2>3
<1>5. PICK a \in Nat \ {0} :
        /\ Segment(a, n)
        /\ ~applying.jump => a = start_idx
        /\ applying.jump => start_idx < a /\ a < applying.end
  BY <1>1, <1>2, <1>3 DEF LogInv, Shape
<1>6. MapOK' /\ Segment(a, n + 1)' /\ \A r \in Readers : ReaderInv(r)'
  BY <1>2, <1>3, <1>5, PutStep
<1>7. Shape'
  <2>1. ~applying'.jump =>
          \E m \in Nat : Segment(start_idx, m)' /\ (applying'.on => applying'.at = m)
    <3>1. ~applying'.jump => Segment(start_idx, n + 1)'
      BY <1>2, <1>4, <1>5, <1>6 DEF Segment
    <3> QED BY <1>4, <3>1
  <2>2. applying'.jump => Segment(a, applying.at)'
    BY <1>4, <1>6 DEF Segment
  <2>3. /\ applying'.jump => applying'.on
        /\ applying'.on => applying'.at <= applying'.end /\ start_idx' < applying'.end
        /\ applying'.jump => start_idx' < a /\ a < applying'.end
    BY <1>2, <1>3, <1>4, <1>5 DEF LogInv, Shape
  <2> QED BY <1>6, <2>1, <2>2, <2>3 DEF Shape
<1>8. TypeOK'
  BY <1>2, <1>4, <1>6 DEF LogInv, TypeOK, MapOK, Applying
<1> QED BY <1>2, <1>6, <1>7, <1>8 DEF LogInv

\* write_at keeps it: readers that lose entries are marked.
LEMMA WriteAtStep ==
  ASSUME LogInv, NEW i \in 1..MaxIdx, NEW e \in Terms, write_at(i, e)
  PROVE  LogInv'
<1>1. /\ up /\ ~applying.on /\ ~applying.jump /\ i \in start_idx..next_slot
      /\ Hit(DOMAIN logs \cap i..MaxIdx) /\ UNCHANGED <<up, start_idx, applying>>
      /\ logs' = [j \in (DOMAIN logs \cap 0..(i - 1)) \cup {i} |->
                    IF j = i THEN e ELSE logs[j]]
  BY DEF write_at, LogInv, Shape
<1>2. /\ start_idx \in Nat \ {0} /\ start_idx <= i /\ i <= next_slot
      /\ next_slot \in Nat /\ DOMAIN logs = {0} \cup start_idx..(next_slot - 1)
  BY <1>1, Slot, MaxIdxAssumption DEF LogInv, TypeOK, Segment
<1>3. DOMAIN logs' = {0} \cup start_idx..((i + 1) - 1)
  BY <1>1, <1>2
<1>4. /\ \A j \in DOMAIN logs' \ {i} : j \in DOMAIN logs /\ logs'[j] = logs[j]
      /\ logs'[i] = e
  BY <1>1
<1>5. MapOK'
  <2>1. logs' \in [DOMAIN logs' -> Entry]
    BY <1>1, <1>4 DEF LogInv, Shape, MapOK, Entry
  <2> QED BY <1>1, <1>2, <1>3, <1>4, <2>1, MaxIdxAssumption DEF LogInv, Shape, MapOK
<1>6. Shape'
  <2>1. Segment(start_idx, i + 1)' /\ i + 1 \in Nat
    BY <1>1, <1>2, <1>3 DEF Segment
  <2> QED BY <1>1, <1>5, <2>1 DEF Shape
<1>7. (\A r \in Readers : ReaderInv(r)') /\ rd' \in [Readers -> Reading]
  <2> DEFINE S == DOMAIN logs \cap i..MaxIdx
  <2>1. DOMAIN logs \ S = DOMAIN logs \cap 0..(i - 1)
    BY <1>1, MaxIdxAssumption DEF LogInv, TypeOK
  <2>2. /\ DOMAIN logs \ S \subseteq DOMAIN logs'
        /\ \A j \in DOMAIN logs \ S : logs'[j] = logs[j]
    BY <1>1, <2>1
  <2>3. start_idx <= start_idx' /\ start_idx' \in Nat /\ Hit(S)
    BY <1>1, <1>2
  <2> HIDE DEF S
  <2> QED BY <1>1, <2>2, <2>3, ShrinkReaders
<1>8. TypeOK'
  BY <1>1, <1>5, <1>7 DEF LogInv, TypeOK, MapOK, Reading
<1> QED BY <1>6, <1>7, <1>8 DEF LogInv

\* compact keeps it, also beyond the last entry.
LEMMA CompactStep ==
  ASSUME LogInv, NEW last \in 0..MaxIdx, compact(last)
  PROVE  LogInv'
<1> DEFINE S == DOMAIN logs \cap start_idx..last
           D == DOMAIN logs \cap (Nat \ start_idx..last)
<1>1. /\ up /\ ~applying.on /\ ~applying.jump /\ Hit(S) /\ UNCHANGED <<up, applying>>
      /\ logs' = [j \in D |-> logs[j]]
      /\ start_idx' = IF start_idx <= last THEN last + 1 ELSE start_idx
  BY DEF compact, Only, LogInv, Shape
<1>2. /\ start_idx \in Nat \ {0} /\ start_idx <= MaxIdx + 1
      /\ next_slot \in Nat /\ start_idx <= next_slot
      /\ DOMAIN logs = {0} \cup start_idx..(next_slot - 1)
  BY <1>1, Slot, MaxIdxAssumption DEF LogInv, TypeOK, Segment
<1>3. PICK n \in Nat : n = IF next_slot > last THEN next_slot ELSE last + 1
  BY <1>2, MaxIdxAssumption
<1>4. /\ start_idx' \in 1..(MaxIdx + 1) /\ start_idx <= start_idx' /\ start_idx' <= n
      /\ start_idx' \in Nat
  BY <1>1, <1>2, <1>3, MaxIdxAssumption
<1>5. D = {0} \cup start_idx'..(n - 1)
  BY <1>1, <1>2, <1>3, MaxIdxAssumption
<1>6. D \subseteq DOMAIN logs /\ DOMAIN logs \ S = D
  BY MaxIdxAssumption DEF LogInv, TypeOK
<1> HIDE DEF S, D
<1>7. DOMAIN logs' = D /\ \A j \in D : logs'[j] = logs[j]
  BY <1>1
<1>8. MapOK'
  BY <1>1, <1>5, <1>6, <1>7 DEF LogInv, Shape, MapOK
<1>9. Shape'
  <2>1. Segment(start_idx, n)'
    BY <1>4, <1>5, <1>7 DEF Segment
  <2> QED BY <1>1, <1>8, <2>1 DEF Shape
<1>10. (\A r \in Readers : ReaderInv(r)') /\ rd' \in [Readers -> Reading]
  BY <1>1, <1>4, <1>6, <1>7, ShrinkReaders
<1>11. TypeOK'
  BY <1>1, <1>4, <1>8, <1>10 DEF LogInv, TypeOK, MapOK, Reading
<1> QED BY <1>9, <1>10, <1>11 DEF LogInv

\* Beginning apply_pack keeps it.
LEMMA ApplyPackStep ==
  ASSUME LogInv, NEW i \in 1..MaxIdx, NEW n \in 1..MaxIdx, apply_pack(i, n)
  PROVE  LogInv'
<1>1. /\ up /\ ~applying.on /\ ~applying.jump /\ UNCHANGED <<up, logs, start_idx, rd>>
      /\ i + n - 1 <= MaxIdx
      /\ i = next_slot \/ (next_slot = start_idx /\ i > start_idx)
      /\ applying' = [on |-> TRUE, jump |-> (i # next_slot), at |-> i, end |-> i + n]
  BY DEF apply_pack, LogInv, Shape
<1>2. /\ start_idx \in Nat \ {0} /\ next_slot \in Nat /\ start_idx <= next_slot
      /\ DOMAIN logs = {0} \cup start_idx..(next_slot - 1)
  BY <1>1, Slot, MaxIdxAssumption DEF LogInv, TypeOK, Segment
<1>3. /\ applying'.on = TRUE /\ applying'.at = i /\ applying'.end = i + n
      /\ applying'.jump = (i # next_slot)
  BY <1>1
<1>4. applying' \in Applying
  <2>1. i \in 0..(MaxIdx + 1) /\ i + n \in 0..(MaxIdx + 1)
    BY <1>1, MaxIdxAssumption
  <2> QED BY <1>1, <2>1, Zenon DEF Applying
<1>5. start_idx <= i /\ i < i + n /\ i \in Nat
  BY <1>1, <1>2
<1>m. MapOK'
  BY <1>1 DEF LogInv, Shape, MapOK
<1>6. CASE i = next_slot
  <2>1. Segment(start_idx, i)'
    BY <1>1, <1>2, <1>6 DEF Segment
  <2>2. ~applying'.jump /\ applying'.on /\ applying'.at = i /\ applying'.end = i + n
    BY Zenon, <1>3, <1>6
  <2>3. Shape'
    BY <1>1, <1>2, <1>5, <1>m, <2>1, <2>2 DEF Shape
  <2> QED BY <1>1, <1>4, <2>3 DEF LogInv, TypeOK, Applying, ReaderInv, ReadOK
<1>7. CASE i # next_slot
  <2>1. DOMAIN logs = {0} \cup i..(i - 1)
    BY <1>1, <1>2, <1>7
  <2>2. Segment(i, applying.at)'
    BY <1>1, <1>3, <2>1 DEF Segment
  <2>3. applying'.jump /\ applying'.on /\ applying'.at = i /\ applying'.end = i + n
    BY Zenon, <1>3, <1>7
  <2>4. Shape'
    BY <1>1, <1>2, <1>5, <1>7, <1>m, <2>2, <2>3 DEF Shape
  <2> QED BY <1>1, <1>4, <2>4 DEF LogInv, TypeOK, Applying, ReaderInv, ReadOK
<1> QED BY <1>6, <1>7

\* The end of apply_pack keeps it: the first index is that of the pack.
LEMMA ApplyDoneStep ==
  ASSUME LogInv, ApplyDone
  PROVE  LogInv'
<1>1. /\ up /\ applying.on /\ applying.at = applying.end
      /\ applying' = NotApplying /\ UNCHANGED <<up, logs, rd>>
  BY DEF ApplyDone
<1>2. /\ start_idx \in Nat \ {0} /\ applying.end \in Nat
      /\ start_idx < applying.end
  BY <1>1, MaxIdxAssumption DEF LogInv, TypeOK, Shape
<1>3. PICK a \in Nat \ {0} :
        /\ Segment(a, applying.end) /\ a < applying.end /\ start_idx <= a
  <2>1. CASE applying.jump
    BY <1>1, <1>2, <2>1 DEF LogInv, Shape
  <2>2. CASE ~applying.jump
    BY <1>1, <1>2, <2>2 DEF LogInv, Shape
  <2> QED BY <2>1, <2>2
<1>4. DOMAIN logs \ {0} = a..(applying.end - 1) /\ a \in DOMAIN logs \ {0}
  BY <1>2, <1>3 DEF Segment
<1>5. start_idx' = a
  BY <1>2, <1>4 DEF ApplyDone, FirstKey
<1>6. a \in 1..(MaxIdx + 1)
  BY <1>4, MaxIdxAssumption DEF LogInv, TypeOK
<1>7. /\ ~applying'.on /\ ~applying'.jump
      /\ applying' \in Applying
  BY <1>1, MaxIdxAssumption DEF NotApplying, Applying
<1>8. Shape'
  <2>1. PICK n \in Nat : n = applying.end
    BY <1>2
  <2>2. Segment(start_idx, n)'
    BY <1>1, <1>3, <1>5, <2>1 DEF Segment
  <2> QED BY <1>1, <1>7, <2>2 DEF LogInv, Shape, MapOK
<1>9. \A r \in Readers : ReaderInv(r)'
  <2>1. \A r \in Readers : rd[r].at \in Nat
    BY MaxIdxAssumption DEF LogInv, TypeOK
  <2> QED BY SMTT(40), <1>1, <1>2, <1>3, <1>5, <2>1 DEF LogInv, ReaderInv, ReadOK
<1>10. TypeOK'
  BY <1>1, <1>5, <1>6, <1>7 DEF LogInv, TypeOK, Applying
<1> QED BY <1>8, <1>9, <1>10 DEF LogInv

-----------------------------------------------------------------------------
(* The readers' steps.                                                     *)

\* A step of one reader that leaves the store alone keeps it.
LEMMA ReaderStep ==
  ASSUME LogInv, up, NEW r \in Readers, NEW x \in Reading, ReadOK(x),
         rd' = [rd EXCEPT ![r] = x], UNCHANGED <<up, logs, start_idx, applying>>
  PROVE  LogInv'
<1>1. rd' \in [Readers -> Reading] /\ \A q \in Readers : rd'[q] = IF q = r THEN x ELSE rd[q]
  BY DEF LogInv, TypeOK, Reading
<1>2. TypeOK'
  BY <1>1 DEF LogInv, TypeOK, Reading
<1>3. Shape'
  BY Zenon DEF LogInv, Shape, MapOK, Segment
<1>4. ReadOK(x)' /\ \A q \in Readers : ReadOK(rd[q]) => (rd'[q] = rd[q] => ReaderInv(q)')
  BY DEF ReadOK, ReaderInv
<1>5. \A q \in Readers : ReaderInv(q)'
  BY SMTT(40), <1>1, <1>4 DEF LogInv, ReaderInv, ReadOK
<1> QED BY <1>2, <1>3, <1>5 DEF LogInv

\* A reader that reads nothing is in order.
LEMMA IdleReader == Idle \in Reading /\ ReadOK(Idle)
BY MaxIdxAssumption DEF Idle, Reading, ReadOK, Entry, Dummy

\* The entry next_slot() - 1 names is the map's last one.
LEMMA LastEntry ==
  ASSUME LogInv, up, ~applying.jump
  PROVE  /\ Last \in Entry
         /\ \/ next_slot - 1 \in DOMAIN logs \ {0} /\ logs[next_slot - 1] = Last
            \/ next_slot - 1 < start_idx /\ Last = Dummy
<1>1. /\ start_idx \in Nat \ {0} /\ next_slot \in Nat /\ start_idx <= next_slot
      /\ DOMAIN logs = {0} \cup start_idx..(next_slot - 1)
  BY Slot, MaxIdxAssumption DEF LogInv, TypeOK, Segment
<1> DEFINE P(i) == \A j \in DOMAIN logs : j <= i
           m == CHOOSE i \in DOMAIN logs : P(i)
<1>2. CASE next_slot = start_idx
  <2>1. DOMAIN logs = {0}
    BY <1>1, <1>2
  <2>2. 0 \in DOMAIN logs /\ P(0)
    BY <2>1
  <2>3. m \in DOMAIN logs
    BY <2>2
  <2>4. Last = logs[0]
    BY <2>1, <2>3 DEF Last
  <2> QED BY <1>1, <1>2, <2>4 DEF LogInv, Shape, MapOK, Entry
<1>3. CASE next_slot # start_idx
  <2>1. next_slot - 1 \in DOMAIN logs \ {0} /\ P(next_slot - 1)
    BY <1>1, <1>3
  <2>2. m \in DOMAIN logs /\ P(m)
    BY <2>1
  <2>3. m = next_slot - 1
    BY <1>1, <2>1, <2>2
  <2>4. Last = logs[next_slot - 1]
    BY Zenon, <2>3 DEF Last
  <2> QED BY <2>1, <2>4 DEF LogInv, Shape, MapOK, Entry
<1> QED BY <1>2, <1>3

\* last_entry, log_entries and pack begin within the log.
LEMMA BeginReading ==
  ASSUME LogInv, NEW r \in Readers,
         \/ last_entry(r)
         \/ \E op \in {"entries", "pack"}, from \in 1..MaxIdx, to \in 2..(MaxIdx + 1) :
              Read(r, op, from, to)
  PROVE  LogInv'
<1>1. /\ up /\ ~applying.jump /\ UNCHANGED <<up, logs, start_idx, applying>>
      /\ start_idx \in Nat \ {0} /\ next_slot \in Nat /\ next_slot <= MaxIdx + 1
      /\ start_idx <= next_slot
      /\ DOMAIN logs = {0} \cup start_idx..(next_slot - 1)
  <2>1. up /\ ~applying.jump /\ UNCHANGED <<up, logs, start_idx, applying>>
    BY Zenon DEF last_entry, Read, CanRead
  <2>2. start_idx \in Nat \ {0}
    BY MaxIdxAssumption DEF LogInv, TypeOK
  <2> QED BY <2>1, <2>2, Slot DEF Segment
<1>2. CASE last_entry(r)
  <2> DEFINE x == [Idle EXCEPT !.op = "last", !.at = next_slot - 1, !.end = next_slot,
                   !.want = Last]
  <2>1. /\ x.op = "last" /\ x.at = next_slot - 1 /\ x.end = next_slot
        /\ x.want = Last
    BY DEF Idle
  <2>2. Last \in Entry
    BY <1>1, LastEntry
  <2>r. next_slot - 1 \in 0..(MaxIdx + 1) /\ next_slot \in 0..(MaxIdx + 1)
    BY <1>1, MaxIdxAssumption
  <2>3. x \in Reading
    BY <2>2, <2>r, IdleReader, Zenon DEF Reading
  <2>4. ReadOK(x)
    BY <1>1, <2>1, LastEntry DEF ReadOK
  <2>5. rd' = [rd EXCEPT ![r] = x]
    BY <1>2 DEF last_entry
  <2>6. PICK y \in Reading : y = x
    BY <2>3
  <2> HIDE DEF x
  <2> QED BY Zenon, <1>1, <2>4, <2>5, <2>6, ReaderStep
<1>3. ASSUME NEW op \in {"entries", "pack"}, NEW from \in 1..MaxIdx,
             NEW to \in 2..(MaxIdx + 1), Read(r, op, from, to)
      PROVE  LogInv'
  <2> DEFINE x == [Idle EXCEPT !.op = op, !.at = from, !.end = to]
  <2>r. from \in 0..(MaxIdx + 1) /\ to \in 0..(MaxIdx + 1)
    BY MaxIdxAssumption
  <2>0. x \in Reading
    BY <2>r, IdleReader, Zenon DEF Reading
  <2>1. x \in Reading /\ x.op = op /\ x.at = from /\ x.end = to
    BY <2>0 DEF Idle
  <2>i. start_idx <= from /\ from < to /\ to <= next_slot
    BY <1>3, Zenon DEF Read
  <2>2. from..(to - 1) \subseteq DOMAIN logs /\ from < to
    BY <1>1, <2>i, MaxIdxAssumption
  <2>3. ReadOK(x)
    BY <2>1, <2>2 DEF ReadOK
  <2>4. rd' = [rd EXCEPT ![r] = x]
    BY Zenon, <1>3 DEF Read
  <2> HIDE DEF x
  <2> QED BY Zenon, <1>1, <2>1, <2>3, <2>4, ReaderStep
<1> QED BY <1>2, <1>3

\* A reader that goes on, misses an entry or ends keeps the invariant.
LEMMA GoOnReading ==
  ASSUME LogInv, NEW r \in Readers, LastFound(r) \/ ReadEntry(r) \/ ReadMissing(r)
  PROVE  LogInv'
<1>1. /\ up /\ rd[r] \in Reading /\ ReadOK(rd[r]) /\ UNCHANGED <<start_idx, applying>>
      /\ rd \in [Readers -> Reading]
  BY DEF LastFound, ReadEntry, ReadMissing, LogInv, TypeOK, Reading, ReaderInv
<1>2. CASE UNCHANGED <<up, logs>> /\ rd' = [rd EXCEPT ![r] = Idle]
  BY Zenon, <1>1, <1>2, IdleReader, ReaderStep
<1>3. CASE /\ UNCHANGED <<up, logs>> /\ rd[r].op \in {"entries", "pack"}
           /\ rd[r].at + 1 # rd[r].end
           /\ rd' = [rd EXCEPT ![r] = [rd[r] EXCEPT !.at = @ + 1]]
  <2> DEFINE x == [rd[r] EXCEPT !.at = @ + 1]
  <2>1. /\ rd[r].at \in Nat /\ rd[r].end \in Nat /\ rd[r].end <= MaxIdx + 1
        /\ 0 < rd[r].at /\ rd[r].at + 1 < rd[r].end
    BY <1>1, <1>3, MaxIdxAssumption DEF Reading, ReadOK
  <2>2. rd[r].at + 1 \in 0..(MaxIdx + 1)
    BY <2>1, MaxIdxAssumption
  <2>3. x \in Reading
    BY <1>1, <2>2, Zenon DEF Reading
  <2>4. x.op = rd[r].op /\ x.at = rd[r].at + 1 /\ x.end = rd[r].end /\ x.hit = rd[r].hit
    BY <1>1, Zenon DEF Reading
  <2> HIDE DEF x
  <2>5. ReadOK(x)
    BY <1>1, <1>3, <2>1, <2>4 DEF ReadOK
  <2>6. rd' = [rd EXCEPT ![r] = x]
    BY <1>3 DEF x
  <2>7. PICK y \in Reading : y = x
    BY <2>3
  <2> QED BY Zenon, <1>1, <1>3, <2>5, <2>6, <2>7, ReaderStep
<1>4. CASE /\ up' = FALSE /\ UNCHANGED rd /\ rd[r].op \in {"entries", "pack"}
           /\ logs' = Put(rd[r].at, Null) \/ logs' = logs
  <2>1. rd[r].at \in 0..MaxIdx
    BY <1>1, <1>4, MaxIdxAssumption DEF Reading, ReadOK
  <2>2. DOMAIN logs' \subseteq 0..MaxIdx /\ logs' \in [DOMAIN logs' -> Entry]
    BY <1>4, <2>1 DEF LogInv, TypeOK, Put, Entry
  <2> QED BY Zenon, <1>1, <1>4, <2>2 DEF LogInv, TypeOK
<1>5. CASE LastFound(r)
  BY <1>2, <1>5 DEF LastFound
<1>6. CASE ReadEntry(r)
  <2>1. rd[r].at \in Nat /\ rd[r].end \in Nat
    BY <1>1, MaxIdxAssumption DEF Reading
  <2> QED BY <1>1, <1>2, <1>3, <1>6, <2>1 DEF ReadEntry
<1>7. CASE ReadMissing(r)
  <2>1. rd[r].at \in Nat /\ rd[r].end \in Nat
    BY <1>1, MaxIdxAssumption DEF Reading
  <2>2. CASE up' = FALSE /\ UNCHANGED rd
    BY Zenon, <1>4, <1>7, <2>2 DEF ReadMissing
  <2>3. CASE UNCHANGED <<up, logs>> /\ rd[r].at + 1 < rd[r].end
               /\ rd' = [rd EXCEPT ![r].at = @ + 1]
    BY <1>3, <1>7, <2>1, <2>3 DEF ReadMissing
  <2> QED BY Zenon, <1>2, <1>7, <2>2, <2>3 DEF ReadMissing
<1> QED BY <1>5, <1>6, <1>7

\* A store made by load_log_store satisfies the invariant.
LEMMA NewStore ==
  ASSUME logs' = [i \in {0} |-> Dummy], start_idx' = 1, applying' = NotApplying,
         rd' = [r \in Readers |-> Idle], up' = TRUE
  PROVE  LogInv'
<1>1. TypeOK'
  BY IdleReader, MaxIdxAssumption DEF TypeOK, Entry, NotApplying, Reading
<1>2. MapOK'
  BY MaxIdxAssumption DEF MapOK, Entry
<1>3. Segment(start_idx, 1)'
  BY DEF Segment
<1>4. Shape'
  BY <1>2, <1>3 DEF Shape, NotApplying
<1>5. \A r \in Readers : ReaderInv(r)'
  BY DEF ReaderInv, ReadOK, Idle
<1> QED BY <1>1, <1>4, <1>5 DEF LogInv

\* So does the first one.
LEMMA InitLog == Init => LogInv
<1> SUFFICES ASSUME Init PROVE LogInv
  OBVIOUS
<1>1. TypeOK
  BY IdleReader, MaxIdxAssumption DEF Init, TypeOK, Entry, NotApplying, Reading
<1>2. MapOK
  BY MaxIdxAssumption DEF Init, MapOK, Entry
<1>3. Segment(start_idx, 1)
  BY DEF Init, Segment
<1>4. Shape
  BY <1>2, <1>3 DEF Init, Shape, NotApplying
<1>5. \A r \in Readers : ReaderInv(r)
  BY DEF Init, ReaderInv, ReadOK, Idle
<1> QED BY <1>1, <1>4, <1>5 DEF LogInv

\* Every step of the store keeps the invariant.
LEMMA NextLog == LogInv /\ [Next]_vars => LogInv'
<1> SUFFICES ASSUME LogInv, [Next]_vars PROVE LogInv'
  OBVIOUS
<1>1. CASE Writer
  BY <1>1, AppendStep, ApplyEntryStep, WriteAtStep, CompactStep, ApplyPackStep,
     ApplyDoneStep DEF Writer
<1>2. ASSUME NEW r \in Readers, Reader(r) PROVE LogInv'
  BY <1>2, BeginReading, GoOnReading DEF Reader
<1>3. CASE Die
  BY Zenon, <1>3 DEF Die, LogInv, TypeOK
<1>4. CASE load_log_store
  BY <1>4, NewStore DEF load_log_store
<1>5. CASE UNCHANGED vars
  <2>1. TypeOK' /\ (Shape => Shape')
    BY Zenon, <1>5 DEF vars, LogInv, TypeOK, Shape, MapOK, Segment
  <2>2. \A r \in Readers : ReaderInv(r) => ReaderInv(r)'
    BY <1>5 DEF vars, ReaderInv, ReadOK
  <2> QED BY <1>5, <2>1, <2>2 DEF vars, LogInv
<1> QED BY <1>1, <1>2, <1>3, <1>4, <1>5 DEF Next

-----------------------------------------------------------------------------
(* inmem_log_store implements OffsetLog.                                   *)

Afirst == IF up THEN start_idx ELSE 1
Anext == IF ~up THEN 1 ELSE IF applying.jump THEN start_idx ELSE next_slot
Alog == IF up /\ ~applying.jump
        THEN [i \in start_idx..(next_slot - 1) |-> logs[i]]
        ELSE [i \in 1..0 |-> 0]

\* What the abstract log is when the map has no gap.
LEMMA View ==
  ASSUME NEW a \in Nat \ {0}, NEW n \in Nat, a = start_idx, Segment(a, n), up,
         ~applying.jump
  PROVE  Afirst = a /\ Anext = n /\ Alog = [i \in a..(n - 1) |-> logs[i]]
<1>1. DOMAIN logs = {0} \cup a..(n - 1) /\ a <= n
  BY DEF Segment
<1>2. next_slot = n
  <2>1. a + Cardinality(DOMAIN logs) - 1 = n
    BY <1>1, SegmentSize
  <2> QED BY <2>1 DEF next_slot
<1> QED BY <1>2 DEF Afirst, Anext, Alog

\* next_slot as the abstract log sees it, from the invariant.
LEMMA NextView ==
  ASSUME NEW a \in Nat \ {0}, NEW n \in Nat, a = start_idx', Segment(a, n)', up',
         ~applying'.jump
  PROVE  Afirst' = a /\ Anext' = n /\ Alog' = [i \in a..(n - 1) |-> logs'[i]]
<1>1. DOMAIN logs' = {0} \cup a..(n - 1) /\ a <= n
  BY DEF Segment
<1>2. next_slot' = n
  <2>1. a + Cardinality(DOMAIN logs') - 1 = n
    BY <1>1, SegmentSize
  <2> QED BY <2>1 DEF next_slot
<1> QED BY <1>2 DEF Afirst, Anext, Alog

AStep == Abstract!Next \/ UNCHANGED <<Afirst, Anext, Alog>>

\* append, and a round of an apply_pack that continues the log.
LEMMA PutView ==
  ASSUME LogInv, up, up', ~applying.jump, ~applying'.jump, NEW n \in Nat,
         n = next_slot, n <= MaxIdx, NEW e \in Terms, logs' = Put(n, e),
         UNCHANGED <<start_idx, rd>>
  PROVE  AStep
<1>1. PICK a \in Nat \ {0} : a = start_idx
  BY MaxIdxAssumption DEF LogInv, TypeOK
<1>2. Segment(a, n) /\ a <= n
  BY <1>1, Slot DEF Segment
<1>3. Segment(a, n + 1)' /\ n + 1 \in Nat
  BY <1>1, <1>2, PutStep
<1>4. Afirst = a /\ Anext = n /\ Alog = [i \in a..(n - 1) |-> logs[i]]
  BY <1>1, <1>2, View
<1>5. Afirst' = a /\ Anext' = n + 1 /\ Alog' = [i \in a..((n + 1) - 1) |-> logs'[i]]
  BY <1>1, <1>3, NextView
<1>6. \A i \in a..n : logs'[i] = IF i = n THEN e ELSE logs[i]
  BY <1>2 DEF Put, Segment
<1>7. Alog' = [i \in a..n |-> IF i = n THEN e ELSE Alog[i]]
  BY <1>4, <1>5, <1>6
<1>8. Abstract!Write(n, e) /\ n \in Afirst..Anext
  BY <1>2, <1>4, <1>5, <1>7 DEF Abstract!Write, Afirst, Anext, Alog
<1> QED BY <1>8 DEF AStep, Abstract!Next, Afirst, Anext

\* write_at is a write of the abstract log.
LEMMA WriteAtView ==
  ASSUME LogInv, LogInv', NEW k \in 1..MaxIdx, NEW e \in Terms, write_at(k, e)
  PROVE  AStep
<1>1. /\ up /\ up' /\ ~applying.jump /\ ~applying'.jump /\ UNCHANGED start_idx
      /\ k \in start_idx..next_slot
      /\ logs' = [j \in (DOMAIN logs \cap 0..(k - 1)) \cup {k} |->
                    IF j = k THEN e ELSE logs[j]]
  BY DEF write_at, LogInv, Shape
<1>2. PICK a \in Nat \ {0} : a = start_idx
  BY MaxIdxAssumption DEF LogInv, TypeOK
<1>3. PICK n \in Nat : Segment(a, n) /\ n = next_slot
  BY <1>1, <1>2, Slot
<1>4. Segment(a, k + 1)' /\ k + 1 \in Nat
  BY <1>1, <1>2, <1>3 DEF Segment
<1>5. Afirst = a /\ Anext = n /\ Alog = [i \in a..(n - 1) |-> logs[i]]
  BY <1>1, <1>2, <1>3, View
<1>6. Afirst' = a /\ Anext' = k + 1 /\ Alog' = [i \in a..((k + 1) - 1) |-> logs'[i]]
  BY Zenon, <1>1, <1>2, <1>4, NextView
<1>7. \A i \in a..k : logs'[i] = IF i = k THEN e ELSE Alog[i]
  BY <1>1, <1>2, <1>3, <1>5 DEF Segment
<1>8. Alog' = [i \in a..k |-> IF i = k THEN e ELSE Alog[i]]
  BY <1>6, <1>7
<1>9. Abstract!Write(k, e) /\ k \in Afirst..Anext
  BY Zenon, <1>1, <1>2, <1>3, <1>5, <1>6, <1>8 DEF Abstract!Write, Afirst, Anext, Alog
<1> QED BY <1>9 DEF AStep, Abstract!Next, Afirst, Anext

\* compact is a compaction of the abstract log, or invisible.
LEMMA CompactView ==
  ASSUME LogInv, LogInv', NEW last \in 0..MaxIdx, compact(last)
  PROVE  AStep
<1>1. /\ up /\ up' /\ ~applying.jump /\ ~applying'.jump
      /\ logs' = [j \in DOMAIN logs \cap (Nat \ start_idx..last) |-> logs[j]]
      /\ start_idx' = IF start_idx <= last THEN last + 1 ELSE start_idx
  BY DEF compact, Only, LogInv, Shape
<1>2. PICK a \in Nat \ {0} : a = start_idx
  BY MaxIdxAssumption DEF LogInv, TypeOK
<1>3. PICK n \in Nat : Segment(a, n) /\ n = next_slot
  BY <1>1, <1>2, Slot
<1>4. DOMAIN logs = {0} \cup a..(n - 1) /\ a <= n
  BY <1>3 DEF Segment
<1>5. Afirst = a /\ Anext = n /\ Alog = [i \in a..(n - 1) |-> logs[i]]
  BY <1>1, <1>2, <1>3, View
<1>6. CASE a <= last
  <2>1. PICK b \in Nat \ {0} : b = last + 1 /\ b = start_idx'
    BY <1>1, <1>2, <1>6
  <2>2. PICK m \in Nat : m = IF n > last THEN n ELSE last + 1
    BY <2>1
  <2>3. DOMAIN logs' = {0} \cup b..(m - 1) /\ b <= m
    BY <1>1, <1>2, <1>4, <1>6, <2>1, <2>2
  <2>4. Segment(b, m)'
    BY <2>3 DEF Segment
  <2>5. Afirst' = b /\ Anext' = m /\ Alog' = [i \in b..(m - 1) |-> logs'[i]]
    BY Zenon, <1>1, <2>1, <2>4, NextView
  <2>6. \A i \in b..(m - 1) : logs'[i] = Alog[i]
    BY SMTT(40), <1>1, <1>2, <1>4, <1>5, <1>6, <2>1, <2>2, <2>3
  <2>7. Alog' = [i \in Afirst'..(Anext' - 1) |-> Alog[i]]
    BY <2>5, <2>6
  <2>8. Abstract!Compact(last)
    BY Zenon, <1>5, <1>6, <2>1, <2>2, <2>5, <2>7 DEF Abstract!Compact, Afirst, Anext, Alog
  <2>9. last \in 0..(MaxIdx + 1)
    BY MaxIdxAssumption
  <2> QED BY <2>8, <2>9 DEF AStep, Abstract!Next
<1>7. CASE ~(a <= last)
  <2>1. start_idx' = a /\ DOMAIN logs' = DOMAIN logs /\ \A i \in DOMAIN logs : logs'[i] = logs[i]
    BY <1>1, <1>2, <1>4, <1>7
  <2>2. Segment(a, n)'
    BY <1>4, <2>1 DEF Segment
  <2>3. Afirst' = a /\ Anext' = n /\ Alog' = [i \in a..(n - 1) |-> logs'[i]]
    BY Zenon, <1>1, <2>1, <2>2, NextView
  <2>4. Alog' = Alog
    BY <1>4, <1>5, <2>1, <2>3
  <2> QED BY <1>5, <2>3, <2>4 DEF AStep
<1> QED BY <1>6, <1>7

\* apply_pack's start is invisible, and so is a jump until its end.
LEMMA ApplyPackView ==
  ASSUME LogInv, NEW i \in 1..MaxIdx, NEW n \in 1..MaxIdx, apply_pack(i, n)
  PROVE  AStep
<1>1. /\ up /\ up' /\ ~applying.jump /\ UNCHANGED <<start_idx, logs>>
      /\ i = next_slot \/ next_slot = start_idx
      /\ applying' = [on |-> TRUE, jump |-> (i # next_slot), at |-> i, end |-> i + n]
  BY DEF apply_pack, LogInv, Shape
<1>2. next_slot' = next_slot
  BY <1>1 DEF next_slot
<1>3. CASE i = next_slot
  <2>1. ~applying'.jump
    BY Zenon, <1>1, <1>3
  <2> QED BY <1>1, <1>2, <2>1 DEF AStep, Afirst, Anext, Alog
<1>4. CASE i # next_slot
  <2>0. start_idx \in Nat
    BY MaxIdxAssumption DEF LogInv, TypeOK
  <2>1. applying'.jump /\ next_slot = start_idx /\ start_idx \in Nat
    BY Zenon, <1>1, <1>4, <2>0
  <2>2. Alog = [j \in start_idx..(start_idx - 1) |-> logs[j]]
    BY <1>1, <2>1 DEF Alog
  <2>3. start_idx..(start_idx - 1) = {} /\ 1..0 = {}
    BY <2>1
  <2>4. Alog = [j \in 1..0 |-> 0]
    BY <2>2, <2>3
  <2>5. Alog' = [j \in 1..0 |-> 0]
    BY <1>1, <2>1 DEF Alog
  <2> QED BY <1>1, <2>1, <2>4, <2>5 DEF AStep, Afirst, Anext
<1> QED BY <1>3, <1>4

\* A round of apply_pack is a write, or invisible in a jump.
LEMMA ApplyEntryView ==
  ASSUME LogInv, NEW e \in Terms, ApplyEntry(e)
  PROVE  AStep
<1>1. /\ up /\ up' /\ applying.on /\ applying.at < applying.end
      /\ logs' = Put(applying.at, e) /\ UNCHANGED <<start_idx, rd>>
      /\ applying' = [applying EXCEPT !.at = @ + 1]
  BY DEF ApplyEntry
<1>2. applying \in Applying /\ applying.at \in Nat /\ applying.at <= MaxIdx
  BY <1>1, MaxIdxAssumption DEF LogInv, TypeOK, Applying
<1>3. applying'.jump = applying.jump
  BY <1>1, <1>2, Zenon DEF Applying
<1>4. CASE applying.jump
  BY <1>1, <1>3, <1>4 DEF AStep, Afirst, Anext, Alog
<1>5. CASE ~applying.jump
  <2>1. applying.at = next_slot
    BY <1>1, <1>5, Slot
  <2> QED BY <1>1, <1>2, <1>3, <1>5, <2>1, PutView
<1> QED BY <1>4, <1>5

\* The end of apply_pack installs the pack after a jump, and is invisible else.
LEMMA ApplyDoneView ==
  ASSUME LogInv, LogInv', ApplyDone
  PROVE  AStep
<1>1. /\ up /\ up' /\ applying.on /\ applying.at = applying.end
      /\ applying' = NotApplying /\ UNCHANGED logs
  BY DEF ApplyDone
<1>2. start_idx \in Nat \ {0} /\ start_idx < applying.end
  BY <1>1, MaxIdxAssumption DEF LogInv, TypeOK, Shape
<1>3. PICK n \in Nat : n = applying.end /\ n \in 0..(MaxIdx + 1)
  BY MaxIdxAssumption DEF LogInv, TypeOK
<1>4. PICK a \in Nat \ {0} : /\ Segment(a, n) /\ a < n
                             /\ ~applying.jump => a = start_idx
  BY <1>1, <1>2, <1>3 DEF LogInv, Shape
<1>5. DOMAIN logs = {0} \cup a..(n - 1) /\ DOMAIN logs \ {0} = a..(n - 1)
  BY <1>4 DEF Segment
<1>6. start_idx' = a
  BY <1>3, <1>4, <1>5 DEF ApplyDone, FirstKey
<1>7. ~applying'.jump /\ Segment(a, n)'
  BY <1>1, <1>4 DEF NotApplying, Segment
<1>8. Afirst' = a /\ Anext' = n /\ Alog' = [i \in a..(n - 1) |-> logs'[i]]
  BY <1>1, <1>6, <1>7, NextView
<1>9. CASE ~applying.jump
  <2>1. Afirst = a /\ Anext = n /\ Alog = [i \in a..(n - 1) |-> logs[i]]
    BY <1>1, <1>4, <1>9, View
  <2>2. Alog' = Alog
    BY <1>1, <1>8, <2>1
  <2> QED BY <1>8, <2>1, <2>2 DEF AStep
<1>10. CASE applying.jump
  <2>1. Afirst = Anext
    BY <1>1, <1>10 DEF Afirst, Anext
  <2>2. \A i \in a..(n - 1) : logs'[i] \in Terms
    BY <1>1, <1>4, <1>5 DEF LogInv, Shape, MapOK
  <2>3. Alog' \in [a..(n - 1) -> Terms]
    BY <1>8, <2>2
  <2>4. Abstract!Install(a, n)
    BY SMTT(40), <1>4, <1>8, <2>1, <2>3 DEF Abstract!Install, Afirst, Anext, Alog
  <2>5. a \in 0..(MaxIdx + 1)
    BY <1>3, <1>4, MaxIdxAssumption
  <2> QED BY <1>3, <2>4, <2>5 DEF AStep, Abstract!Next
<1> QED BY <1>9, <1>10

\* A process that dies loses the abstract log, or has none to lose.
LEMMA DownView == ~up' => AStep
BY DEF AStep, Abstract!Next, Abstract!Lose, Afirst, Anext, Alog

\* A new store is an empty abstract log.
LEMMA LoadView == load_log_store => AStep
<1> SUFFICES ASSUME load_log_store PROVE AStep
  OBVIOUS
<1>1. Segment(1, 1)' /\ up' /\ start_idx' = 1 /\ ~applying'.jump /\ ~up
  BY DEF load_log_store, Segment, NotApplying
<1>2. Afirst' = 1 /\ Anext' = 1 /\ Alog' = [i \in 1..(1 - 1) |-> logs'[i]]
  BY <1>1, NextView
<1>3. Alog' = [i \in 1..0 |-> 0]
  BY <1>2
<1> QED BY <1>1, <1>2, <1>3 DEF AStep, Afirst, Anext, Alog

\* Every step of the store is one of the abstract log, or invisible.
LEMMA StepView == LogInv /\ LogInv' /\ [Next]_vars => AStep
<1> SUFFICES ASSUME LogInv, LogInv', [Next]_vars PROVE AStep
  OBVIOUS
<1>1. ASSUME NEW e \in Terms, append(e) PROVE AStep
  <2>1. next_slot \in Nat /\ ~applying.jump
    BY SMTT(40), <1>1, Slot DEF append, LogInv, Shape
  <2> QED BY <1>1, <2>1, PutView DEF append
<1>2. CASE UNCHANGED <<up, logs, start_idx, applying>>
  BY <1>2 DEF AStep, Afirst, Anext, Alog, next_slot
<1>3. ASSUME NEW r \in Readers, Reader(r) PROVE AStep
  BY Zenon, <1>2, <1>3, DownView
     DEF Reader, last_entry, LastFound, Read, ReadEntry, ReadMissing
<1>4. CASE Writer
  BY SMTT(40), <1>1, <1>4, ApplyEntryView, WriteAtView, CompactView,
     ApplyPackView, ApplyDoneView
     DEF Writer
<1>5. CASE Die
  BY <1>5, DownView DEF Die
<1> QED BY <1>2, <1>3, <1>4, <1>5, LoadView DEF Next, vars

-----------------------------------------------------------------------------
(* simple_state_mgr.                                                       *)

\* A file that can be read holds at least what was promised, or nothing was.
FileInv ==
  /\ mem \in [Files -> Value]
  /\ file \in [Files -> Value \cup {Absent, Torn}]
  /\ promised \in [Files -> 0..MaxVersion]
  /\ \A f \in saving : file[f] = Torn
  /\ \A f \in Files :
       /\ file[f] # Torn =>
            IF file[f] \in Value THEN file[f].ver >= promised[f] ELSE promised[f] = 0
       /\ up => mem[f].ver >= promised[f]

\* An initial value has version 0.
LEMMA FreshValue == Fresh \in Value /\ Fresh.ver = 0
BY MaxVersionAssumption DEF Fresh, Value

\* A server without files satisfies the files' invariant.
LEMMA InitFiles == InitAll => FileInv
<1> SUFFICES ASSUME InitAll PROVE FileInv
  OBVIOUS
<1>1. /\ mem \in [Files -> Value] /\ file \in [Files -> Value \cup {Absent, Torn}]
      /\ promised \in [Files -> 0..MaxVersion] /\ saving = {}
  BY FreshValue, MaxVersionAssumption DEF InitAll
<1>2. ASSUME NEW f \in Files
      PROVE  promised[f] = 0 /\ mem[f].ver = 0 /\ file[f] = Absent
  BY FreshValue DEF InitAll
<1>3. ASSUME NEW f \in Files, file[f] \in Value PROVE file[f].ver >= 0
  BY <1>3, MaxVersionAssumption DEF Value
<1> QED BY <1>1, <1>2, <1>3 DEF FileInv

\* Every save, crash and restart keeps the files' invariant.
LEMMA NextFiles == FileInv /\ [NextAll]_<<vars, fileVars>> => FileInv'
<1> SUFFICES ASSUME FileInv, [NextAll]_<<vars, fileVars>> PROVE FileInv'
  OBVIOUS
<1>1. CASE UNCHANGED fileVars /\ (up' => up)
  BY <1>1 DEF fileVars, FileInv
<1>2. ASSUME NEW f \in Files, NEW ctx \in BOOLEAN, Save(f, ctx) PROVE FileInv'
  <2>1. /\ mem[f] \in Value /\ mem[f].ver < MaxVersion /\ up /\ up' /\ saving = {}
        /\ mem' = [mem EXCEPT ![f] = [ver |-> mem[f].ver + 1, ctx |-> ctx]]
        /\ \/ file' = [file EXCEPT ![f] = Torn] /\ saving' = {f}
           \/ UNCHANGED <<file, saving>>
        /\ UNCHANGED promised
    BY <1>2 DEF Save, FileInv, vars
  <2>2. mem[f].ver + 1 \in 0..MaxVersion /\ mem[f].ver \in Nat
    BY SMTT(40), <2>1, MaxVersionAssumption DEF Value
  <2>3. [ver |-> mem[f].ver + 1, ctx |-> ctx] \in Value
    BY <2>2, Zenon DEF Value
  <2>4. mem' \in [Files -> Value] /\ file' \in [Files -> Value \cup {Absent, Torn}]
    BY <2>1, <2>3 DEF FileInv
  <2>5. \A g \in Files : mem'[g].ver >= promised[g]
    <3>1. mem'[f].ver = mem[f].ver + 1 /\ promised[f] \in Nat
      BY <2>1, MaxVersionAssumption DEF FileInv
    <3>2. \A g \in Files \ {f} : mem'[g] = mem[g]
      BY <2>1 DEF FileInv
    <3> QED BY SMTT(40), <2>1, <2>2, <3>1, <3>2 DEF FileInv
  <2>6. \A g \in Files : file'[g] = file[g] \/ file'[g] = Torn
    BY <2>1 DEF FileInv
  <2>7. \A g \in Files :
          file'[g] # Torn => IF file'[g] \in Value THEN file'[g].ver >= promised[g]
                             ELSE promised[g] = 0
    BY <2>6 DEF FileInv
  <2>8. \A g \in saving' : file'[g] = Torn
    BY <2>1 DEF FileInv
  <2> QED BY SMTT(40), <2>1, <2>4, <2>5, <2>7, <2>8 DEF FileInv
<1>3. ASSUME NEW f \in Files, Written(f) PROVE FileInv'
  <2>1. /\ up /\ f \in saving /\ file[f] = Torn /\ mem[f] \in Value
        /\ file' = [file EXCEPT ![f] = mem[f]] \/ UNCHANGED file
        /\ saving' = {} /\ promised' = [promised EXCEPT ![f] = mem[f].ver]
        /\ UNCHANGED mem
    BY <1>3 DEF Written, FileInv
  <2>2. mem[f].ver \in 0..MaxVersion /\ mem[f].ver \in Nat
    BY <2>1, MaxVersionAssumption DEF Value
  <2>3. /\ promised' \in [Files -> 0..MaxVersion]
        /\ file' \in [Files -> Value \cup {Absent, Torn}]
    BY <2>1, <2>2 DEF FileInv
  <2>4. \A g \in Files \ {f} : promised'[g] = promised[g] /\ file'[g] = file[g]
    BY <2>1 DEF FileInv
  <2>5. promised'[f] = mem[f].ver /\ file'[f] \in {mem[f], Torn}
    BY <2>1 DEF FileInv
  <2>6. \A g \in Files : mem[g].ver >= promised'[g]
    BY <2>1, <2>2, <2>4, <2>5 DEF FileInv
  <2>7. \A g \in Files :
          file'[g] # Torn => IF file'[g] \in Value THEN file'[g].ver >= promised'[g]
                             ELSE promised'[g] = 0
    BY SMTT(40), <2>1, <2>2, <2>4, <2>5 DEF FileInv
  <2> QED BY SMTT(40), <2>1, <2>3, <2>6, <2>7 DEF FileInv
<1>4. CASE Restart
  <2>1. CASE UNCHANGED <<vars, fileVars>>
    BY <1>1, <2>1 DEF vars
  <2>2. CASE /\ \A f \in Files : loadable(f)
             /\ mem' = [f \in Files |-> load(f)]
             /\ saving' = {}
             /\ UNCHANGED <<file, promised>>
    <3>1. ASSUME NEW f \in Files PROVE load(f) \in Value /\ load(f).ver >= promised[f]
      <4>1. CASE file[f] \in Value
        <5>1. load(f) = [file[f] EXCEPT !.ctx = FALSE]
          BY <4>1 DEF load
        <5>2. load(f) \in Value /\ load(f).ver = file[f].ver
          BY Zenon, <4>1, <5>1 DEF Value
        <5> QED BY <2>2, <4>1, <5>2 DEF FileInv, loadable
      <4>2. CASE file[f] \notin Value
        <5>1. load(f) = Fresh /\ promised[f] = 0
          BY <2>2, <4>2 DEF load, FileInv, loadable
        <5> QED BY <5>1, FreshValue
      <4> QED BY <4>1, <4>2
    <3> QED BY <2>2, <3>1 DEF FileInv
  <2> QED BY <1>4, <2>1, <2>2 DEF Restart
<1>5. CASE /\ (saving = {} /\ Writer) \/ (\E r \in Readers : Reader(r)) \/ Die
           /\ UNCHANGED fileVars
  <2>1. up' => up
    BY Zenon, <1>5 DEF Writer, append, ApplyEntry, write_at, compact, apply_pack, ApplyDone,
       Reader, last_entry, LastFound, Read, ReadEntry, ReadMissing, CanRead, Die
  <2> QED BY <1>1, <1>5, <2>1
<1>6. CASE UNCHANGED <<vars, fileVars>>
  BY <1>1, <1>6 DEF vars
<1> QED BY <1>2, <1>3, <1>4, <1>5, <1>6 DEF NextAll

-----------------------------------------------------------------------------
(* The results.                                                            *)

\* Beside the files the store behaves as a log store by itself.
THEOREM StoreAlone == SpecAll => Spec
<1>1. InitAll => Init
  BY DEF InitAll
<1>2. [NextAll]_<<vars, fileVars>> => [Next]_vars
  BY DEF NextAll, Next, Save, Written, Restart, vars
<1> QED BY <1>1, <1>2, PTL DEF SpecAll, Spec

\* The map, the first index, apply_pack and the readers agree at all times.
THEOREM LogInvariant == Spec => []LogInv
BY InitLog, NextLog, PTL DEF Spec

\* Types of the store and of its readers.
THEOREM LogTypes == SpecAll => []TypeOK
<1>1. LogInv => TypeOK
  BY DEF LogInv
<1> QED BY <1>1, StoreAlone, LogInvariant, PTL

\* The entries have no gap and next_slot is the slot behind them, whatever
\* append, write_at, compact and apply_pack did.
THEOREM NoGap == SpecAll => []Contiguous
<1>1. LogInv => Contiguous
  BY Zenon, Slot DEF LogInv, Shape, MapOK, Segment, Contiguous
<1> QED BY <1>1, StoreAlone, LogInvariant, PTL

\* The asserts of log_entries, log_entries_ext and pack fail only for a
\* reader whose entries were removed under it.
THEOREM ReadersServed == SpecAll => []ReadersCovered
<1>1. LogInv => ReadersCovered
  BY DEF LogInv, ReaderInv, ReadOK, ReadersCovered
<1> QED BY <1>1, StoreAlone, LogInvariant, PTL

\* last_entry, although it takes the lock twice, returns what was the last
\* entry when it was called, unless that was removed.
THEOREM LastEntryKept == SpecAll => []LastEntryWasLast
<1>1. ASSUME LogInv, up, NEW r \in Readers, rd[r].op = "last", ~rd[r].hit
      PROVE  entry_at(rd[r].at) = rd[r].want
  <2>2. rd[r].at \in Nat /\ start_idx \in Nat
    BY <1>1, MaxIdxAssumption DEF LogInv, TypeOK
  <2>1. \A i \in DOMAIN logs \ {0} : start_idx <= i
    <3>1. \E a, n : start_idx <= a /\ a \in Nat /\ Segment(a, n)
      BY <1>1, <2>2 DEF LogInv, Shape
    <3>2. \A a, n : start_idx <= a /\ a \in Nat /\ Segment(a, n) =>
                    \A i \in DOMAIN logs \ {0} : i >= a
      BY DEF Segment
    <3>3. DOMAIN logs \subseteq Nat
      BY <1>1, MaxIdxAssumption DEF LogInv, TypeOK
    <3> QED BY <2>2, <3>1, <3>2, <3>3
  <2> QED BY SMTT(40), <1>1, <2>1, <2>2 DEF LogInv, Shape, MapOK, ReaderInv, ReadOK, entry_at
<1>2. LogInv => LastEntryWasLast
  BY <1>1 DEF LastEntryWasLast
<1> QED BY <1>2, StoreAlone, LogInvariant, PTL

\* inmem_log_store implements the abstract log.
THEOREM LogRefines == SpecAll => ImplementsLog
<1>1. Init => Abstract!Empty
  <2> SUFFICES ASSUME Init PROVE Abstract!Empty
    OBVIOUS
  <2>1. Segment(1, 1) /\ up /\ start_idx = 1 /\ ~applying.jump
    BY DEF Init, Segment, NotApplying
  <2>2. Afirst = 1 /\ Anext = 1 /\ Alog = [i \in 1..(1 - 1) |-> logs[i]]
    BY <2>1, View
  <2>3. Alog = [i \in 1..0 |-> 0]
    BY <2>2
  <2> QED BY <2>2, <2>3 DEF Abstract!Empty, Afirst, Anext, Alog
<1>2. LogInv /\ LogInv' /\ [Next]_vars => Abstract!Next \/ UNCHANGED <<Afirst, Anext, Alog>>
  BY StepView DEF AStep
<1> QED
  BY <1>1, <1>2, StoreAlone, LogInvariant, PTL
     DEF Spec, ImplementsLog, Abstract!Spec, Afirst, Anext, Alog

\* save_state and save_config: a server that runs has forgotten nothing that
\* NuRaft acted upon, through crashes and writes cut short.
THEOREM SavesKept == SpecAll => []SavesNotForgotten
<1>1. FileInv => SavesNotForgotten
  BY DEF FileInv, SavesNotForgotten
<1> QED BY <1>1, InitFiles, NextFiles, PTL DEF SpecAll
=============================================================================
