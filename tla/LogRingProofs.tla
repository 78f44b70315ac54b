----------------------------- MODULE LogRingProofs -----------------------------
(***************************************************************************)
(* For a ring of any size: the types, and that writer and reader never     *)
(* meet in an entry.  The two conjuncts of EntryIsNotShared need each      *)
(* other: the writer may advance while the reader is past its check, and   *)
(* does not reach the entry after the reader's because it does not copy    *)
(* into the reader's own.                                                  *)
(***************************************************************************)
EXTENDS LogRing, SequenceTheorems, TLAPS

Inv == TypeOK /\ EntryIsNotShared

(***************************************************************************)
(* The next index is an index, and different indexes have different next   *)
(* ones ((i + 1) % MAX_LOG_ENTRIES).                                       *)
(***************************************************************************)
LEMMA SuccFacts ==
    ASSUME NEW i \in Slots
    PROVE  /\ Succ(i) = IF i = N - 1 THEN 0 ELSE i + 1
           /\ Succ(i) \in Slots
           /\ Succ(i) # i
<1>1. CASE i = N - 1
  <2>1. (i + 1) % N = 0
    BY <1>1, RingAssumption
  <2> QED
    BY <2>1, <1>1, RingAssumption DEF Succ, Slots
<1>2. CASE i # N - 1
  <2>1. i + 1 \in 0..(N - 1)
    BY <1>2, RingAssumption DEF Slots
  <2>2. (i + 1) % N = i + 1
    BY <2>1, RingAssumption
  <2> QED
    BY <2>1, <2>2, <1>2, RingAssumption DEF Succ, Slots
<1> QED
  BY <1>1, <1>2

(* Two different entries have different successors. *)
LEMMA SuccInjective ==
    ASSUME NEW i \in Slots, NEW j \in Slots, Succ(i) = Succ(j)
    PROVE  i = j
  BY SuccFacts, RingAssumption DEF Slots

(***************************************************************************)
(* The invariant holds at the start and after every step of the writer and *)
(* of the reader.                                                          *)
(***************************************************************************)
LEMMA InitInv == Init => Inv
  BY RingAssumption DEF Init, Inv, TypeOK, EntryIsNotShared, Slots

(* dp_ctrl_threat_log and the reader of the control thread keep the invariant. *)
LEMMA StepInv == Inv /\ [Next]_vars => Inv'
<1> SUFFICES ASSUME Inv, [Next]_vars
             PROVE  Inv'
  OBVIOUS
<1> USE DEF Inv, TypeOK, EntryIsNotShared
<1>1. ASSUME NEW l \in Logs, Begin(l)
      PROVE  Inv'
  BY <1>1 DEF Begin
<1>2. CASE Finish
  <2>1. writer' \in Slots /\ writer # reader
    BY <1>2, SuccFacts DEF Finish
  <2>2. rpc' = "checked" => Succ(reader') # writer'
    BY <1>2, <2>1, SuccInjective DEF Finish
  <2> QED
    BY <1>2, <2>1, <2>2 DEF Finish
<1>3. CASE Check
  BY <1>3 DEF Check
<1>4. CASE Move
  <2>1. reader' \in Slots /\ reader' # writer
    BY <1>4, SuccFacts DEF Move
  <2> QED
    BY <1>4, <2>1 DEF Move
<1>5. CASE Send
  BY <1>5 DEF Send
<1>6. CASE UNCHANGED vars
  BY <1>6 DEF vars
<1> QED
  BY <1>1, <1>2, <1>3, <1>4, <1>5, <1>6 DEF Next

(***************************************************************************)
(* The indexes of the ring stay in the ring, whatever its size.            *)
(***************************************************************************)
THEOREM RingTypeCorrect == Spec => []TypeOK
<1>1. Inv => TypeOK
  BY DEF Inv
<1> QED
  BY <1>1, InitInv, StepInv, PTL DEF Spec

(***************************************************************************)
(* Neither thread touches the entry the other works on, whatever the size  *)
(* of the ring and however the two interleave.                             *)
(***************************************************************************)
THEOREM RingIsNotShared == Spec => []EntryIsNotShared
<1>1. Inv => EntryIsNotShared
  BY DEF Inv
<1> QED
  BY <1>1, InitInv, StepInv, PTL DEF Spec

-------------------------------------------------------------------------------
(***************************************************************************)
(* The refinement.  Count(w, r) logs wait when the indexes are w and r, and *)
(* At(r, i) is the entry of the i-th of them.                              *)
(***************************************************************************)
Count(w, r) == (w - r - 1 + N) % N
At(r, i) == (r + i) % N
Pending == Count(writer, reader)
Place(i) == At(reader, i)

\* Every log that waits, and the one that is sent, is whole.
Filled ==
    /\ \A i \in 1..Pending : ring[Place(i)] \in Logs
    /\ rpc = "send" => ring[reader] \in Logs

(***************************************************************************)
(* A number below twice the ring's size wraps at most once.                *)
(***************************************************************************)
LEMMA Wraps ==
    ASSUME NEW k \in 0..(2 * N - 1)
    PROVE  (k % N) = IF k < N THEN k ELSE k - N
<1>1. CASE k < N
  BY <1>1, RingAssumption
<1>2. CASE ~(k < N)
  <2>1. k - N \in 0..(N - 1) /\ k = (k - N) + N
    BY <1>2, RingAssumption
  <2> QED
    BY <2>1, <1>2, RingAssumption
<1> QED
  BY <1>1, <1>2

(***************************************************************************)
(* How many logs wait, and where they are, without the modulus.            *)
(***************************************************************************)
LEMMA CountFacts ==
    ASSUME NEW w \in Slots, NEW r \in Slots
    PROVE  /\ Count(w, r) = IF w > r THEN w - r - 1 ELSE (w - r - 1) + N
           /\ Count(w, r) \in 0..(N - 1)
<1>1. (w - r - 1) + N \in 0..(2 * N - 1)
  BY RingAssumption DEF Slots
<1>2. Count(w, r) = IF (w - r - 1) + N < N THEN (w - r - 1) + N
                    ELSE ((w - r - 1) + N) - N
  BY <1>1, Wraps DEF Count
<1> QED
  BY <1>2, RingAssumption DEF Slots

(* The entry a given number of places after another is an entry of the ring. *)
LEMMA AtFacts ==
    ASSUME NEW r \in Slots, NEW i \in 0..N
    PROVE  /\ At(r, i) = IF r + i < N THEN r + i ELSE (r + i) - N
           /\ At(r, i) \in Slots
<1>1. r + i \in 0..(2 * N - 1)
  BY RingAssumption DEF Slots
<1>2. At(r, i) = IF r + i < N THEN r + i ELSE (r + i) - N
  BY <1>1, Wraps DEF At
<1> QED
  BY <1>1, <1>2, RingAssumption DEF Slots

(***************************************************************************)
(* A log that waits is neither in the writer's nor in the reader's entry.  *)
(***************************************************************************)
LEMMA WaitsBetween ==
    ASSUME NEW w \in Slots, NEW r \in Slots, NEW i \in 1..Count(w, r)
    PROVE  i \in 0..N /\ At(r, i) \in Slots /\ At(r, i) # w /\ At(r, i) # r
<1>1. i \in 0..N
  BY CountFacts, RingAssumption
<1>2. Count(w, r) = IF w > r THEN w - r - 1 ELSE (w - r - 1) + N
  BY CountFacts
<1>3. At(r, i) \in Slots /\ At(r, i) = IF r + i < N THEN r + i ELSE (r + i) - N
  BY <1>1, AtFacts
<1> QED
  BY <1>1, <1>2, <1>3, RingAssumption DEF Slots

(***************************************************************************)
(* When the writer's index moves, one more log waits, in the entry it was  *)
(* at.                                                                     *)
(***************************************************************************)
LEMMA WriterMoves ==
    ASSUME NEW w \in Slots, NEW r \in Slots, w # r
    PROVE  /\ Count(Succ(w), r) = Count(w, r) + 1
           /\ Count(w, r) + 1 \in 1..(N - 1)
           /\ At(r, Count(w, r) + 1) = w
<1>1. Succ(w) \in Slots /\ Succ(w) = IF w = N - 1 THEN 0 ELSE w + 1
  BY SuccFacts
<1>2. Count(w, r) = IF w > r THEN w - r - 1 ELSE (w - r - 1) + N
  BY CountFacts
<1>3. Count(Succ(w), r) = IF Succ(w) > r THEN Succ(w) - r - 1 ELSE (Succ(w) - r - 1) + N
  BY <1>1, CountFacts
<1>4. Count(Succ(w), r) = Count(w, r) + 1 /\ Count(w, r) + 1 \in 1..(N - 1)
  BY <1>1, <1>2, <1>3, RingAssumption DEF Slots
<1>5. Count(w, r) + 1 \in 0..N
  BY <1>4, RingAssumption
<1>6. At(r, Count(w, r) + 1) = IF r + (Count(w, r) + 1) < N THEN r + (Count(w, r) + 1)
                               ELSE (r + (Count(w, r) + 1)) - N
  BY <1>5, AtFacts
<1>7. At(r, Count(w, r) + 1) = w
  BY <1>2, <1>6, RingAssumption DEF Slots
<1> QED
  BY <1>4, <1>7

(***************************************************************************)
(* When the reader's index moves, one log less waits, and each of the      *)
(* others is one place nearer.                                             *)
(***************************************************************************)
LEMMA ReaderMoves ==
    ASSUME NEW w \in Slots, NEW r \in Slots, Succ(r) # w
    PROVE  /\ Count(w, r) \in 1..(N - 1)
           /\ Count(w, Succ(r)) = Count(w, r) - 1
           /\ Succ(r) = At(r, 1)
           /\ \A i \in 1..(Count(w, r) - 1) : At(Succ(r), i) = At(r, i + 1)
<1>1. Succ(r) \in Slots /\ Succ(r) = IF r = N - 1 THEN 0 ELSE r + 1
  BY SuccFacts
<1>2. Count(w, r) = IF w > r THEN w - r - 1 ELSE (w - r - 1) + N
  BY CountFacts
<1>3. Count(w, Succ(r)) = IF w > Succ(r) THEN w - Succ(r) - 1 ELSE (w - Succ(r) - 1) + N
  BY <1>1, CountFacts
<1>4. Count(w, Succ(r)) = Count(w, r) - 1 /\ Count(w, r) \in 1..(N - 1)
  BY <1>1, <1>2, <1>3, RingAssumption DEF Slots
<1>5. ASSUME NEW i \in 1..(Count(w, r) - 1)
      PROVE  At(Succ(r), i) = At(r, i + 1)
  <2>1. i \in 0..N /\ i + 1 \in 0..N
    BY <1>4, RingAssumption
  <2>2. At(r, i + 1) = IF r + (i + 1) < N THEN r + (i + 1) ELSE (r + (i + 1)) - N
    BY <2>1, AtFacts
  <2>3. At(Succ(r), i) = IF Succ(r) + i < N THEN Succ(r) + i ELSE (Succ(r) + i) - N
    BY <1>1, <2>1, AtFacts
  <2> QED
    BY <1>1, <2>1, <2>2, <2>3, RingAssumption DEF Slots
<1>6. Succ(r) = At(r, 1)
  BY DEF Succ, At
<1> QED
  BY <1>4, <1>5, <1>6

-------------------------------------------------------------------------------
(***************************************************************************)
(* The logs that wait are whole at every step: only a finished copy adds   *)
(* an entry to them.                                                       *)
(***************************************************************************)
LEMMA InitFilled == Init => Filled
<1> SUFFICES ASSUME Init PROVE Filled
  OBVIOUS
<1>1. Count(0, N - 1) = 0
  BY CountFacts, RingAssumption DEF Slots
<1> QED
  BY <1>1 DEF Init, Filled, Pending

(* Every step keeps each entry between reader and writer filled. *)
LEMMA StepFilled == Inv /\ Filled /\ [Next]_vars => Filled'
<1> SUFFICES ASSUME Inv, Filled, [Next]_vars
             PROVE  Filled'
  OBVIOUS
<1> USE DEF Inv, TypeOK, EntryIsNotShared, Filled, Pending, Place
<1>1. ASSUME NEW l \in Logs, Begin(l)
      PROVE  Filled'
  BY <1>1, WaitsBetween DEF Begin
<1>2. CASE Finish
  <2>1. ASSUME NEW i \in 1..Count(writer', reader')
        PROVE  ring'[At(reader', i)] \in Logs
    <3>1. /\ Count(writer', reader') = Count(writer, reader) + 1
          /\ Count(writer, reader) \in 0..(N - 1)
          /\ At(reader, Count(writer, reader) + 1) = writer
      BY <1>2, WriterMoves, CountFacts DEF Finish
    <3>2. CASE i \in 1..Count(writer, reader)
      BY <1>2, <3>2, WaitsBetween DEF Finish
    <3>3. CASE i = Count(writer, reader) + 1
      BY <1>2, <3>1, <3>3 DEF Finish
    <3> QED
      BY <2>1, <3>1, <3>2, <3>3, RingAssumption
  <2> QED
    BY <1>2, <2>1 DEF Finish
<1>3. CASE Check
  BY <1>3 DEF Check
<1>4. CASE Move
  <2>1. /\ Count(writer, reader) \in 1..(N - 1)
        /\ Count(writer, reader') = Count(writer, reader) - 1
        /\ reader' = At(reader, 1)
        /\ \A i \in 1..(Count(writer, reader) - 1) : At(reader', i) = At(reader, i + 1)
    BY <1>4, ReaderMoves DEF Move
  <2>2. ASSUME NEW i \in 1..Count(writer, reader')
        PROVE  i \in 1..(Count(writer, reader) - 1) /\ i + 1 \in 1..Count(writer, reader)
    BY <2>1, RingAssumption
  <2>3. 1 \in 1..Count(writer, reader)
    BY <2>1
  <2> QED
    BY <1>4, <2>1, <2>2, <2>3 DEF Move
<1>5. CASE Send
  BY <1>5 DEF Send
<1>6. CASE UNCHANGED vars
  BY <1>6 DEF vars
<1> QED
  BY <1>1, <1>2, <1>3, <1>4, <1>5, <1>6 DEF Next

-------------------------------------------------------------------------------
Waiting(f, w, r) == [i \in 1..Count(w, r) |-> f[At(r, i)]]

(* The refinement mapping, written with the indices as parameters. *)
LEMMA UnreadIsWaiting == Unread = Waiting(ring, writer, reader)
  BY DEF Unread, Waiting, Count, At

(***************************************************************************)
(* What waits is a sequence of logs, as long as the count says.            *)
(***************************************************************************)
LEMMA WaitingSeq ==
    ASSUME NEW f, NEW w \in Slots, NEW r \in Slots,
           \A i \in 1..Count(w, r) : f[At(r, i)] \in Logs
    PROVE  /\ Waiting(f, w, r) \in Seq(Logs)
           /\ Len(Waiting(f, w, r)) = Count(w, r)
           /\ \A i \in 1..Count(w, r) : Waiting(f, w, r)[i] = f[At(r, i)]
<1>1. Count(w, r) \in Nat
  BY CountFacts, RingAssumption
<1>2. Waiting(f, w, r) \in [1..Count(w, r) -> Logs]
  BY DEF Waiting
<1>3. Waiting(f, w, r) \in Seq(Logs)
  BY <1>1, <1>2
<1>4. Len(Waiting(f, w, r)) = Count(w, r)
  BY <1>1, <1>2, <1>3, LenProperties
<1> QED
  BY <1>3, <1>4 DEF Waiting

(***************************************************************************)
(* An entry that no waiting log is in may change.                          *)
(***************************************************************************)
LEMMA WaitingElsewhere ==
    ASSUME NEW f \in [Slots -> Logs \cup {None}], NEW w \in Slots, NEW r \in Slots, NEW x
    PROVE  Waiting([f EXCEPT ![w] = x], w, r) = Waiting(f, w, r)
<1>1. \A i \in 1..Count(w, r) : [f EXCEPT ![w] = x][At(r, i)] = f[At(r, i)]
  BY WaitsBetween
<1> QED
  BY <1>1 DEF Waiting

(***************************************************************************)
(* A log copied to the writer's entry is appended when the index moves.    *)
(***************************************************************************)
LEMMA WaitingAppend ==
    ASSUME NEW f \in [Slots -> Logs \cup {None}], NEW w \in Slots, NEW r \in Slots, w # r,
           NEW l \in Logs,
           \A i \in 1..Count(w, r) : f[At(r, i)] \in Logs
    PROVE  /\ Waiting([f EXCEPT ![w] = l], Succ(w), r) = Append(Waiting(f, w, r), l)
           /\ Len(Waiting(f, w, r)) < N - 1
<1> DEFINE c == Count(w, r)
           g == [f EXCEPT ![w] = l]
           old == Waiting(f, w, r)
           new == Waiting(g, Succ(w), r)
<1>1. /\ Succ(w) \in Slots /\ Count(Succ(w), r) = c + 1
      /\ c + 1 \in 1..(N - 1) /\ c \in Nat /\ At(r, c + 1) = w
  BY WriterMoves, SuccFacts, CountFacts, RingAssumption
<1>2. \A i \in 1..c : At(r, i) # w /\ At(r, i) \in Slots
  BY WaitsBetween
<1>3. g[w] = l /\ \A i \in 1..c : g[At(r, i)] = f[At(r, i)]
  BY <1>2
<1>4. /\ old \in Seq(Logs) /\ Len(old) = c
      /\ \A i \in 1..c : old[i] = f[At(r, i)]
  BY WaitingSeq
<1> HIDE DEF g
<1>5. \A i \in 1..(c + 1) : g[At(r, i)] \in Logs
  <2>1. ASSUME NEW i \in 1..(c + 1)
        PROVE  i \in 1..c \/ i = c + 1
    BY <1>1
  <2> QED
    BY <1>1, <1>3, <2>1
<1>6. /\ new \in Seq(Logs) /\ Len(new) = c + 1
      /\ \A i \in 1..(c + 1) : new[i] = g[At(r, i)]
  BY <1>1, <1>5, WaitingSeq
<1> HIDE DEF c, old, new
<1>7. /\ Append(old, l) \in Seq(Logs)
      /\ Len(Append(old, l)) = c + 1
      /\ \A i \in 1..c : Append(old, l)[i] = old[i]
      /\ Append(old, l)[c + 1] = l
  BY <1>4, AppendProperties
<1>8. ASSUME NEW i \in 1..(c + 1)
      PROVE  new[i] = Append(old, l)[i]
  <2>1. i \in 1..c \/ i = c + 1
    BY <1>1
  <2>2. CASE i \in 1..c
    BY <1>3, <1>4, <1>6, <1>7, <2>2
  <2>3. CASE i = c + 1
    BY <1>1, <1>3, <1>6, <1>7, <2>3
  <2> QED
    BY <2>1, <2>2, <2>3
<1>9. new = Append(old, l)
  BY <1>6, <1>7, <1>8, SeqEqual
<1>10. Len(old) < N - 1
  BY <1>1, <1>4, RingAssumption
<1> QED
  BY <1>9, <1>10 DEF old, new, g

(***************************************************************************)
(* When the reader's index moves, the first log that waits is the one at   *)
(* it, and the rest wait.                                                  *)
(***************************************************************************)
LEMMA WaitingTail ==
    ASSUME NEW f \in [Slots -> Logs \cup {None}], NEW w \in Slots, NEW r \in Slots,
           Succ(r) # w,
           \A i \in 1..Count(w, r) : f[At(r, i)] \in Logs
    PROVE  /\ Waiting(f, w, r) # <<>>
           /\ f[Succ(r)] = Head(Waiting(f, w, r))
           /\ Waiting(f, w, Succ(r)) = Tail(Waiting(f, w, r))
<1> DEFINE c == Count(w, r)
           s == Succ(r)
           old == Waiting(f, w, r)
           new == Waiting(f, w, s)
<1>1. /\ c \in 1..(N - 1) /\ Count(w, s) = c - 1 /\ s = At(r, 1) /\ s \in Slots
      /\ \A i \in 1..(c - 1) : At(s, i) = At(r, i + 1)
  BY ReaderMoves, SuccFacts
<1>2. /\ old \in Seq(Logs) /\ Len(old) = c
      /\ \A i \in 1..c : old[i] = f[At(r, i)]
  BY WaitingSeq
<1>3. \A i \in 1..(c - 1) : i + 1 \in 1..c
  BY <1>1, RingAssumption
<1>4. \A i \in 1..Count(w, s) : f[At(s, i)] \in Logs
  BY <1>1, <1>3
<1>5. /\ new \in Seq(Logs) /\ Len(new) = c - 1
      /\ \A i \in 1..(c - 1) : new[i] = f[At(s, i)]
  BY <1>1, <1>4, WaitingSeq
<1> HIDE DEF c, s, old, new
<1>6. old # <<>> /\ Head(old) = f[s]
  BY <1>1, <1>2
<1>7. /\ Tail(old) \in Seq(Logs) /\ Len(Tail(old)) = c - 1
      /\ \A i \in 1..(c - 1) : Tail(old)[i] = old[i + 1]
  BY <1>2, <1>6, HeadTailProperties
<1>8. ASSUME NEW i \in 1..(c - 1)
      PROVE  new[i] = Tail(old)[i]
  <2>1. new[i] = f[At(r, i + 1)]
    BY <1>1, <1>5
  <2>2. old[i + 1] = f[At(r, i + 1)]
    BY <1>2, <1>3
  <2> QED
    BY <1>7, <2>1, <2>2
<1>9. new = Tail(old)
  BY <1>5, <1>7, <1>8, SeqEqual
<1> QED
  BY <1>6, <1>9 DEF old, new, s

-------------------------------------------------------------------------------
(* An empty ring is an empty queue. *)
LEMMA InitQueue == Init => Queue!Init
<1> SUFFICES ASSUME Init PROVE Queue!Init
  OBVIOUS
<1>1. Count(0, N - 1) = 0
  BY CountFacts, RingAssumption DEF Slots
<1>2. Waiting(ring, 0, N - 1) = <<>>
  BY <1>1 DEF Waiting
<1> QED
  BY <1>2, UnreadIsWaiting DEF Init, Queue!Init

(* Moving log_writer appends to the queue, moving log_reader takes its head. *)
LEMMA StepQueue == Inv /\ Filled /\ [Next]_vars => [Queue!Next]_(Queue!vars)
<1> SUFFICES ASSUME Inv, Filled, [Next]_vars
             PROVE  [Queue!Next]_(Queue!vars)
  OBVIOUS
<1> USE DEF Inv, TypeOK, EntryIsNotShared, Filled, Pending, Place
<1>0. Unread = Waiting(ring, writer, reader) /\ Unread' = Waiting(ring', writer', reader')
  BY DEF Unread, Waiting, Count, At
<1>1. ASSUME NEW l \in Logs, Begin(l)
      PROVE  UNCHANGED Queue!vars
  <2>1. Unread' = Unread
    BY <1>0, <1>1, WaitingElsewhere DEF Begin
  <2>2. UNCHANGED (IF rpc = "send" THEN ring[reader] ELSE None)
    BY <1>1 DEF Begin
  <2> QED
    BY <2>1, <2>2 DEF Queue!vars
<1>2. CASE Finish
  <2>1. Unread' = Append(Unread, log) /\ Len(Unread) < N - 1 /\ log \in Logs
    BY <1>0, <1>2, WaitingAppend DEF Finish
  <2>2. UNCHANGED (IF rpc = "send" THEN ring[reader] ELSE None)
    BY <1>2 DEF Finish
  <2> QED
    BY <2>1, <2>2 DEF Queue!Accept, Queue!Next
<1>3. CASE Check
  BY <1>0, <1>3 DEF Check, Queue!vars
<1>4. CASE Move
  <2>1. Unread # <<>> /\ ring[Succ(reader)] = Head(Unread) /\ Unread' = Tail(Unread)
    BY <1>0, <1>4, WaitingTail DEF Move
  <2> QED
    BY <1>4, <2>1 DEF Move, Queue!Take, Queue!Next
<1>5. CASE Send
  <2>1. ring[reader] # None /\ Unread' = Unread
    BY <1>0, <1>5, RingAssumption DEF Send
  <2> QED
    BY <1>5, <2>1 DEF Send, Queue!Sent, Queue!Next
<1>6. CASE UNCHANGED vars
  BY <1>0, <1>6 DEF vars, Queue!vars
<1> QED
  BY <1>1, <1>2, <1>3, <1>4, <1>5, <1>6 DEF Next

(***************************************************************************)
(* A ring of any size is a queue of one place less: the logs are sent in   *)
(* the order they were accepted, each once and whole.                      *)
(***************************************************************************)
THEOREM RingImplementsQueue == Spec => ImplementsQueue
  BY InitInv, StepInv, InitFilled, StepFilled, InitQueue, StepQueue, PTL
  DEF Spec, ImplementsQueue, Queue!Spec
================================================================================
