-------------------------- MODULE TimerWheelProofs --------------------------
(***************************************************************************)
(* Proofs about the timer wheel, for any number of slots and of entries.   *)
(***************************************************************************)
EXTENDS TimerWheel, FiniteSetTheorems, TLAPS

(* Two deadlines less than a turn of the wheel apart share a slot only if   *)
(* they are equal: the fact that lets timer_wheel_roll expire a whole slot. *)
LEMMA SameSlot ==
    ASSUME NEW n \in Nat \ {0}, NEW a \in Nat, NEW b \in Nat,
           a % n = b % n, b <= a, a < b + n
    PROVE  a = b
<1> DEFINE p == a \div n
           q == b \div n
<1>1. /\ p \in Int /\ q \in Int
      /\ a = (n * p) + (a % n)
      /\ b = (n * q) + (b % n)
  OBVIOUS
<1> HIDE DEF p, q
<1>2. a - b = n * (p - q)
  <2>1. a - b = n * p - n * q
    BY <1>1
  <2>2. n * p - n * q = n * (p - q)
    BY <1>1
  <2> QED
    BY <2>1, <2>2
<1>3. p - q = 0
  <2> DEFINE k == p - q
  <2>1. k \in Int /\ n * k = a - b
    BY <1>1, <1>2
  <2> HIDE DEF k
  <2>2. CASE k >= 1
    <3>1. n * k >= n
      BY <2>1, <2>2
    <3> QED
      BY <3>1, <2>1
  <2>3. CASE k <= -1
    <3>1. n * k <= -n
      BY <2>1, <2>3
    <3> QED
      BY <3>1, <2>1
  <2>4. k = 0
    BY <2>1, <2>2, <2>3
  <2> QED
    BY <2>4 DEF k
<1> QED
  BY <1>1, <1>2, <1>3

(* Every timeout an entry is started with leaves room for two stalls in a   *)
(* turn of the wheel.                                                       *)
LEMMA ClampFits ==
    ASSUME NEW t \in Timeouts
    PROVE  /\ Clamp(t) \in Nat
           /\ Clamp(t) >= FirstStall
           /\ Clamp(t) + 2 * MaxStall < N
BY WheelAssumption DEF Clamp

(* A slot number is a slot of the wheel. *)
LEMMA SlotInRange ==
    ASSUME NEW a \in Nat
    PROVE  a % N \in 0..N-1
BY WheelAssumption

(* w->count counts the linked entries. *)
CountInv == IsFiniteSet(linked) /\ count = Cardinality(linked)

Inv == TypeOK /\ WheelInv /\ CountInv

(* The entry at the head of the swept slot has the swept second as its      *)
(* deadline, which is before the tick of the roll.                          *)
LEMMA SweptEntryIsDue ==
    ASSUME Inv, roll.on, roll.s < roll.m, NEW e \in SlotEntries(roll.s)
    PROVE  /\ e \in Entries
           /\ e \in linked
           /\ due[e] = roll.s
           /\ due[e] < tick
<1>1. /\ e \in Entries
      /\ e \in linked
      /\ slot[e] = roll.s % N
  BY DEF SlotEntries, Inv, TypeOK
<1>2. /\ due[e] \in Nat
      /\ due[e] % N = roll.s % N
      /\ due[e] >= roll.s
  BY <1>1 DEF Inv, WheelInv, EntryInv, ClockInv, Started
<1>3. /\ due[e] <= tick + timeout[e]
      /\ timeout[e] + 2 * MaxStall < N
      /\ tick <= current + 2 * MaxStall
      /\ roll.s \in current..tick
      /\ roll.m = tick
  BY <1>1 DEF Inv, WheelInv, EntryInv, ClockInv
<1>4. /\ tick \in Nat
      /\ current \in Nat
      /\ roll.s \in Nat
      /\ timeout[e] \in Nat
      /\ N \in Nat \ {0}
      /\ MaxStall \in Nat
  BY <1>1, WheelAssumption DEF Inv, TypeOK
<1>5. due[e] < roll.s + N
  BY <1>2, <1>3, <1>4
<1>6. due[e] = roll.s
  BY <1>2, <1>4, <1>5, SameSlot
<1> QED
  BY <1>1, <1>3, <1>6

(* The timer thread only moves g_seconds, by no more than a stall. *)
LEMMA TimerThreadInv == Inv /\ TimerThread => Inv'
<1> SUFFICES ASSUME Inv, TimerThread PROVE Inv'
  OBVIOUS
<1> USE WheelAssumption
<1>1. TypeOK'
  BY DEF Inv, TypeOK, TimerThread, entryVars
<1>2. WheelInv'
  BY DEF Inv, TypeOK, WheelInv, EntryInv, ClockInv, TimerThread, entryVars, Started
<1>3. CountInv'
  BY DEF Inv, CountInv, TimerThread, entryVars
<1> QED
  BY <1>1, <1>2, <1>3 DEF Inv

(* The entry operations keep w->count the number of linked entries. *)
LEMMA EntryCount ==
    ASSUME CountInv, NEW e \in Entries, NEW t, NEW at,
           EntryStart(e, t, at) \/ EntryRefresh(e, at) \/ EntryRemove(e)
    PROVE  CountInv'
<1>1. CASE EntryStart(e, t, at)
  BY <1>1, FS_AddElement DEF CountInv, EntryStart
<1>2. CASE EntryRefresh(e, at)
  BY <1>2 DEF CountInv, EntryRefresh
<1>3. CASE EntryRemove(e)
  BY <1>3, FS_RemoveElement DEF CountInv, EntryRemove
<1> QED
  BY <1>1, <1>2, <1>3

(* A packet touches one entry, with a deadline counted from its own tick. *)
LEMMA PacketInv == Inv /\ Packet => Inv'
<1> SUFFICES ASSUME Inv, Packet PROVE Inv'
  OBVIOUS
<1> USE WheelAssumption
<1>0. PICK e \in Entries : \/ \E t \in Timeouts : EntryStart(e, t, seconds)
                           \/ EntryRefresh(e, seconds)
                           \/ EntryRemove(e)
  BY DEF Packet
<1>a. /\ ~roll.on
      /\ tick' = seconds
      /\ UNCHANGED <<seconds, lastSeconds, current, roll>>
      /\ fired' = NoEntry
  BY DEF Packet
<1>b. seconds \in Nat /\ CountInv
  BY DEF Inv, TypeOK
<1>1. CASE \E t \in Timeouts : EntryStart(e, t, seconds)
  <2>0. PICK t \in Timeouts : EntryStart(e, t, seconds)
    BY <1>1
  <2>a. /\ Clamp(t) \in Nat
        /\ Clamp(t) >= FirstStall
        /\ Clamp(t) + 2 * MaxStall < N
    BY ClampFits
  <2>b. (seconds + Clamp(t)) % N \in 0..N-1
    BY <1>b, <2>a, SlotInRange
  <2>1. CountInv'
    BY <1>b, <2>0, EntryCount
  <2>2. TypeOK'
    <3>1. count' \in Nat
      BY <2>1, FS_CardinalityType DEF CountInv
    <3>2. /\ callback' \in [Entries -> BOOLEAN]
          /\ linked' \subseteq Entries
      BY <2>0 DEF Inv, TypeOK, EntryStart
    <3>3. /\ timeout' \in [Entries -> Nat]
          /\ slot' \in [Entries -> 0..N-1]
          /\ due' \in [Entries -> Nat \cup {Idle}]
      BY <1>b, <2>0, <2>a, <2>b DEF Inv, TypeOK, EntryStart
    <3> QED
      BY <1>a, <3>1, <3>2, <3>3 DEF Inv, TypeOK
  <2>3. WheelInv'
    BY <1>a, <2>0, <2>a DEF Inv, TypeOK, WheelInv, EntryInv, ClockInv, EntryStart, Started, Idle
  <2> QED
    BY <2>1, <2>2, <2>3 DEF Inv
<1>2. CASE EntryRefresh(e, seconds)
  <2>a. timeout[e] \in Nat
    BY DEF Inv, TypeOK
  <2>b. (seconds + timeout[e]) % N \in 0..N-1
    BY <1>b, <2>a, SlotInRange
  <2>1. CountInv'
    BY <1>b, <1>2, EntryCount
  <2>2. TypeOK'
    BY <1>a, <1>2, <2>a, <2>b DEF Inv, TypeOK, EntryRefresh
  <2>3. WheelInv'
    BY <1>a, <1>2, <2>a DEF Inv, TypeOK, WheelInv, EntryInv, ClockInv, EntryRefresh, Started, Idle
  <2> QED
    BY <2>1, <2>2, <2>3 DEF Inv
<1>3. CASE EntryRemove(e)
  <2>1. CountInv'
    BY <1>b, <1>3, EntryCount
  <2>2. TypeOK'
    <3>1. count' \in Nat
      BY <2>1, FS_CardinalityType DEF CountInv
    <3> QED
      BY <1>a, <1>3, <3>1 DEF Inv, TypeOK, EntryRemove, Idle
  <2>3. WheelInv'
    BY <1>a, <1>3 DEF Inv, TypeOK, WheelInv, EntryInv, ClockInv, EntryRemove, Started, Idle
  <2> QED
    BY <2>1, <2>2, <2>3 DEF Inv
<1> QED
  BY <1>0, <1>1, <1>2, <1>3

(* A roll starts at the wheel's position and covers every second up to the  *)
(* tick it was called with: the cut at a full turn never applies.           *)
LEMMA DpiTimeoutStart ==
    ASSUME Inv, DpiTimeout
    PROVE  /\ ~roll.on
           /\ tick' = seconds
           /\ current' = IF Started THEN current ELSE seconds
           /\ current' > 0
           /\ roll' = [on |-> TRUE, s |-> current', m |-> seconds]
           /\ UNCHANGED <<seconds, lastSeconds, entryVars>>
           /\ fired' = NoEntry
<1> USE WheelAssumption
<1> DEFINE cur == IF Started THEN current ELSE seconds
<1>1. /\ cur \in Nat
      /\ cur > 0
      /\ cur <= seconds
      /\ seconds < cur + N
  BY DEF Inv, TypeOK, WheelInv, EntryInv, ClockInv, DpiTimeout, Started
<1> HIDE DEF cur
<1>2. ~(seconds < cur) /\ (IF seconds < cur + N THEN seconds ELSE cur + N) = seconds
  BY <1>1 DEF Inv, TypeOK
<1> QED
  BY <1>1, <1>2 DEF DpiTimeout, cur

(* dpi_timeout, which starts the wheel or begins a roll, keeps the invariant. *)
LEMMA DpiTimeoutInv == Inv /\ DpiTimeout => Inv'
<1> SUFFICES ASSUME Inv, DpiTimeout PROVE Inv'
  OBVIOUS
<1> USE WheelAssumption
<1>a. /\ ~roll.on
      /\ tick' = seconds
      /\ current' = IF Started THEN current ELSE seconds
      /\ current' > 0
      /\ roll' = [on |-> TRUE, s |-> current', m |-> seconds]
      /\ UNCHANGED <<seconds, lastSeconds, entryVars>>
      /\ fired' = NoEntry
  BY DpiTimeoutStart
<1>1. TypeOK'
  BY <1>a DEF Inv, TypeOK, entryVars
<1>2. WheelInv'
  BY <1>a DEF Inv, TypeOK, WheelInv, EntryInv, ClockInv, entryVars, Started
<1>3. CountInv'
  BY <1>a DEF Inv, CountInv, entryVars
<1> QED
  BY <1>1, <1>2, <1>3 DEF Inv

(* The sweep passes a second only when no entry is left with that deadline. *)
LEMMA RollAdvanceInv == Inv /\ RollAdvance => Inv'
<1> SUFFICES ASSUME Inv, RollAdvance PROVE Inv'
  OBVIOUS
<1> USE WheelAssumption
<1>1. TypeOK'
  BY DEF Inv, TypeOK, RollAdvance, entryVars
<1>2. ASSUME NEW e \in Entries, e \in linked PROVE due[e] >= roll.s + 1
  <2>1. due[e] \in Nat /\ due[e] >= roll.s /\ slot[e] = due[e] % N
    BY <1>2 DEF Inv, WheelInv, EntryInv, ClockInv, RollAdvance, Started
  <2>2. due[e] # roll.s
    BY <1>2, <2>1 DEF RollAdvance, SlotEntries
  <2> QED
    BY <2>1, <2>2 DEF Inv, TypeOK
<1>3. WheelInv'
  BY <1>2 DEF Inv, TypeOK, WheelInv, EntryInv, ClockInv, RollAdvance, entryVars, Started
<1>4. CountInv'
  BY DEF Inv, CountInv, RollAdvance, entryVars
<1> QED
  BY <1>1, <1>3, <1>4 DEF Inv

(* The end of a roll, w->current = now, keeps the invariant. *)
LEMMA RollEndInv == Inv /\ RollEnd => Inv'
<1> SUFFICES ASSUME Inv, RollEnd PROVE Inv'
  OBVIOUS
<1> USE WheelAssumption
<1>1. TypeOK'
  BY DEF Inv, TypeOK, RollEnd, entryVars, NotRolling
<1>2. WheelInv'
  BY DEF Inv, TypeOK, WheelInv, EntryInv, ClockInv, RollEnd, entryVars, Started, NotRolling
<1>3. CountInv'
  BY DEF Inv, CountInv, RollEnd, entryVars
<1> QED
  BY <1>1, <1>2, <1>3 DEF Inv

(* An expiring entry leaves its slot, and whatever its callback puts on the *)
(* wheel lands at or after the tick of the roll, ahead of the sweep.        *)
LEMMA RollFireInv == Inv /\ RollFire => Inv'
<1> SUFFICES ASSUME Inv, RollFire PROVE Inv'
  OBVIOUS
<1> USE WheelAssumption
<1>0. PICK e \in SlotEntries(roll.s) :
          /\ fired' = e
          /\ \/ ExpireFree(e)
             \/ \E t \in Timeouts : ExpireRestart(e, t)
             \/ \E f \in linked \ {e} : ExpireRemove(e, f) \/ ExpireRefresh(e, f)
  BY DEF RollFire
<1>a. /\ roll.on
      /\ UNCHANGED <<seconds, lastSeconds, tick, current, roll>>
      /\ tick \in Nat
      /\ CountInv
  BY DEF RollFire, Inv, TypeOK
<1>b. /\ e \in Entries
      /\ e \in linked
      /\ fired' \in Entries
  BY <1>0, SweptEntryIsDue DEF RollFire
<1>1. CASE ExpireFree(e)
  <2>1. CountInv'
    BY <1>a, <1>b, <1>1, EntryCount DEF ExpireFree
  <2>2. TypeOK'
    <3>1. count' \in Nat
      BY <2>1, FS_CardinalityType DEF CountInv
    <3> QED
      BY <1>a, <1>b, <1>1, <3>1 DEF Inv, TypeOK, ExpireFree, EntryRemove, Idle
  <2>3. WheelInv'
    BY <1>a, <1>b, <1>1
       DEF Inv, TypeOK, WheelInv, EntryInv, ClockInv, ExpireFree, EntryRemove, Started, Idle
  <2> QED
    BY <2>1, <2>2, <2>3 DEF Inv
<1>2. CASE \E t \in Timeouts : ExpireRestart(e, t)
  <2>0. PICK t \in Timeouts : ExpireRestart(e, t)
    BY <1>2
  <2>a. /\ Clamp(t) \in Nat
        /\ Clamp(t) >= FirstStall
        /\ Clamp(t) + 2 * MaxStall < N
    BY ClampFits
  <2>b. (tick + Clamp(t)) % N \in 0..N-1
    BY <1>a, <2>a, SlotInRange
  <2>1. CountInv'
    BY <1>a, <2>0 DEF CountInv, ExpireRestart
  <2>2. TypeOK'
    BY <1>a, <1>b, <2>0, <2>a, <2>b DEF Inv, TypeOK, ExpireRestart
  <2>3. WheelInv'
    BY <1>a, <1>b, <2>0, <2>a
       DEF Inv, TypeOK, WheelInv, EntryInv, ClockInv, ExpireRestart, Started, Idle
  <2> QED
    BY <2>1, <2>2, <2>3 DEF Inv
<1>3. CASE \E f \in linked \ {e} : ExpireRemove(e, f)
  <2>0. PICK f \in linked \ {e} : ExpireRemove(e, f)
    BY <1>3
  <2>a. f \in Entries
    BY <2>0 DEF Inv, TypeOK
  <2>1. CountInv'
    <3>1. IsFiniteSet(linked \ {e}) /\ Cardinality(linked \ {e}) = count - 1
      BY <1>a, <1>b, FS_RemoveElement DEF CountInv
    <3>2. /\ IsFiniteSet((linked \ {e}) \ {f})
          /\ Cardinality((linked \ {e}) \ {f}) = (count - 1) - 1
      <4> DEFINE S == linked \ {e}
      <4>1. IsFiniteSet(S) /\ Cardinality(S) = count - 1 /\ f \in S
        BY <3>1, <2>0
      <4> HIDE DEF S
      <4>2. IsFiniteSet(S \ {f}) /\ Cardinality(S \ {f}) = (count - 1) - 1
        BY <4>1, FS_RemoveElement
      <4> QED
        BY <4>2 DEF S
    <3> QED
      BY <3>2, <2>0 DEF CountInv, ExpireRemove
  <2>2. TypeOK'
    <3>1. count' \in Nat
      BY <2>1, FS_CardinalityType DEF CountInv
    <3> QED
      BY <1>a, <1>b, <2>0, <2>a, <3>1 DEF Inv, TypeOK, ExpireRemove, Idle
  <2>3. WheelInv'
    BY <1>a, <1>b, <2>0, <2>a
       DEF Inv, TypeOK, WheelInv, EntryInv, ClockInv, ExpireRemove, Started, Idle
  <2> QED
    BY <2>1, <2>2, <2>3 DEF Inv
<1>4. CASE \E f \in linked \ {e} : ExpireRefresh(e, f)
  <2>0. PICK f \in linked \ {e} : ExpireRefresh(e, f)
    BY <1>4
  <2>a. f \in Entries /\ timeout[f] \in Nat
    BY <2>0 DEF Inv, TypeOK
  <2>b. (tick + timeout[f]) % N \in 0..N-1
    <3>1. tick + timeout[f] \in Nat
      BY <1>a, <2>a
    <3> QED
      BY <3>1, SlotInRange
  <2>1. CountInv'
    BY <1>a, <1>b, <2>0, FS_RemoveElement DEF CountInv, ExpireRefresh
  <2>2. TypeOK'
    <3>1. count' \in Nat
      BY <2>1, FS_CardinalityType DEF CountInv
    <3> QED
      BY <1>a, <1>b, <2>0, <2>a, <2>b, <3>1 DEF Inv, TypeOK, ExpireRefresh, Idle
  <2>3. WheelInv'
    <3>1. /\ due' = [due EXCEPT ![e] = Idle, ![f] = tick + timeout[f]]
          /\ slot' = [slot EXCEPT ![f] = (tick + timeout[f]) % N]
          /\ linked' = linked \ {e}
          /\ callback' = [callback EXCEPT ![e] = FALSE]
          /\ timeout' = timeout
          /\ f # e /\ f \in linked
      BY <2>0 DEF ExpireRefresh
    <3>2. /\ due'[e] = Idle /\ ~callback'[e] /\ e \notin linked'
          /\ due'[f] = tick + timeout[f] /\ slot'[f] = due'[f] % N
          /\ callback'[f] /\ f \in linked'
      BY <3>1, <1>b, <2>a DEF Inv, TypeOK, WheelInv, EntryInv, ClockInv
    <3>3. ASSUME NEW g \in Entries \ {e, f}
          PROVE  /\ due'[g] = due[g] /\ slot'[g] = slot[g]
                 /\ callback'[g] = callback[g] /\ (g \in linked' <=> g \in linked)
      BY <3>1 DEF Inv, TypeOK
    <3>4. /\ tick >= roll.s
          /\ roll'.on
          /\ UNCHANGED <<tick, current, roll>>
          /\ tick \in Nat /\ roll.s \in Nat
          /\ Started
      BY <1>a DEF Inv, WheelInv, ClockInv, TypeOK
    <3>5. EntryInv(e)'
      BY <1>b, <3>2 DEF EntryInv
    <3>6. EntryInv(f)'
      BY <2>a, <3>1, <3>2, <3>4 DEF EntryInv, Inv, WheelInv, Started
    <3>7. ASSUME NEW g \in Entries \ {e, f} PROVE EntryInv(g)'
      <4>1. EntryInv(g)
        BY DEF Inv, WheelInv
      <4> QED
        BY <3>1, <3>3, <3>4, <4>1 DEF EntryInv, Started
    <3>8. ClockInv'
      BY <1>a DEF Inv, WheelInv, ClockInv, Started
    <3> QED
      BY <3>5, <3>6, <3>7, <3>8 DEF WheelInv
  <2> QED
    BY <2>1, <2>2, <2>3 DEF Inv
<1> QED
  BY <1>0, <1>1, <1>2, <1>3, <1>4

(* timer_wheel_init leaves a wheel that satisfies the invariant. *)
LEMMA InitInv == Init => Inv
<1> SUFFICES ASSUME Init PROVE Inv
  OBVIOUS
<1> USE WheelAssumption
<1>1. TypeOK
  BY DEF Init, TypeOK, NotRolling, Idle
<1>2. WheelInv
  BY DEF Init, WheelInv, EntryInv, ClockInv, NotRolling, Started, Idle
<1>3. CountInv
  BY FS_EmptySet DEF Init, CountInv
<1> QED
  BY <1>1, <1>2, <1>3 DEF Inv

(* Every step of the timer thread and of the data-plane thread keeps it. *)
LEMMA NextInv == Inv /\ [Next]_vars => Inv'
<1> SUFFICES ASSUME Inv, [Next]_vars PROVE Inv'
  OBVIOUS
<1>1. CASE UNCHANGED vars
  BY <1>1 DEF Inv, TypeOK, WheelInv, EntryInv, ClockInv, CountInv, Started, vars
<1> QED
  BY <1>1, TimerThreadInv, PacketInv, DpiTimeoutInv, RollFireInv, RollAdvanceInv,
     RollEndInv DEF Next

(* The inductive invariant holds throughout. *)
THEOREM Invariance == Spec => []Inv
BY InitInv, NextInv, PTL DEF Spec

(* Every variable keeps its type: a slot number never leaves the wheel. *)
THEOREM TypeCorrect == Spec => []TypeOK
<1>1. Inv => TypeOK
  BY DEF Inv
<1> QED
  BY <1>1, Invariance, PTL

(* timer_wheel_entry_is_active, which looks at the callback, is right about *)
(* every entry, and w->count is the number of linked entries, for any wheel *)
(* and any number of entries.                                               *)
THEOREM ActiveCorrect == Spec => []ActiveIsLinked
<1>1. Inv => ActiveIsLinked
  BY DEF Inv, WheelInv, EntryInv, CountInv, ActiveIsLinked
<1> QED
  BY <1>1, Invariance, PTL

(* Each step of the wheel is a step of the abstract deadline timers. *)
LEMMA StepRefines == Inv /\ [Next]_vars => [Timers!Next]_(Timers!vars)
<1> SUFFICES ASSUME Inv, [Next]_vars PROVE [Timers!Next]_(Timers!vars)
  OBVIOUS
<1> USE WheelAssumption
<1>0. /\ tick \in Nat /\ seconds \in Nat /\ current \in Nat
      /\ tick <= seconds /\ current <= tick
  BY DEF Inv, TypeOK, WheelInv, ClockInv
<1>1. CASE TimerThread
  BY <1>0, <1>1 DEF TimerThread, entryVars, Timers!Next, Timers!Tick
<1>2. CASE Packet
  <2>1. PICK e \in Entries : \/ \E t \in Timeouts : EntryStart(e, t, seconds)
                             \/ EntryRefresh(e, seconds)
                             \/ EntryRemove(e)
    BY <1>2 DEF Packet
  <2>2. /\ due \in [Entries -> Nat \cup {Idle}]
        /\ timeout[e] \in Nat
        /\ \A t \in Timeouts : Clamp(t) \in Nat
    BY ClampFits DEF Inv, TypeOK
  <2>3. PICK d \in Nat \cup {Idle} :
           /\ due' = [due EXCEPT ![e] = d]
           /\ d = Idle \/ d >= seconds
    <3>1. ASSUME NEW t \in Timeouts, EntryStart(e, t, seconds)
          PROVE  /\ due' = [due EXCEPT ![e] = seconds + Clamp(t)]
                 /\ seconds + Clamp(t) \in Nat /\ seconds + Clamp(t) >= seconds
      BY <1>0, <2>2, <3>1 DEF EntryStart
    <3>2. CASE EntryRefresh(e, seconds)
      <4>1. seconds + timeout[e] \in Nat \cup {Idle}
        BY <1>0, <2>2
      <4> WITNESS seconds + timeout[e] \in Nat \cup {Idle}
      <4> QED
        BY <1>0, <2>2, <3>2 DEF EntryRefresh
    <3>3. CASE EntryRemove(e)
      BY <3>3 DEF EntryRemove
    <3> QED
      BY <2>1, <3>1, <3>2, <3>3
  <2>4. due'[e] = d
    BY <2>2, <2>3
  <2> QED
    BY <1>0, <1>2, <2>3, <2>4
       DEF Packet, Timers!Next, Timers!Change, Timers!Deadline, Timers!Idle, Idle
<1>3. CASE DpiTimeout
  <2>1. /\ tick' = seconds
        /\ current' = IF Started THEN current ELSE seconds
        /\ due' = due
        /\ fired' = NoEntry
    BY <1>3, DpiTimeoutStart DEF entryVars
  <2>2. \A e \in Entries : due[e] # Idle => due[e] >= current'
    BY <1>0, <1>3, <2>1
       DEF Inv, TypeOK, WheelInv, EntryInv, ClockInv, Started, Idle, DpiTimeout
  <2> QED
    BY <1>0, <2>1, <2>2 DEF Timers!Next, Timers!Sweep, Timers!Idle, Idle, Started
<1>4. CASE RollFire
  <2>1. PICK e \in SlotEntries(roll.s) :
          /\ fired' = e
          /\ \/ ExpireFree(e)
             \/ \E t \in Timeouts : ExpireRestart(e, t)
             \/ \E f \in linked \ {e} : ExpireRemove(e, f) \/ ExpireRefresh(e, f)
    BY <1>4 DEF RollFire
  <2>2. /\ e \in Entries /\ due[e] \in Nat /\ due[e] < tick
        /\ UNCHANGED <<tick, current>>
    BY <1>4, SweptEntryIsDue DEF RollFire, Inv, TypeOK
  <2>3. /\ due \in [Entries -> Nat \cup {Idle}]
        /\ timeout \in [Entries -> Nat]
        /\ linked \subseteq Entries
        /\ \A t \in Timeouts : Clamp(t) \in Nat
    BY ClampFits DEF Inv, TypeOK
  <2>4. PICK f \in Entries, c \in Nat \cup {Idle}, d \in Nat \cup {Idle} :
           /\ due' = [due EXCEPT ![e] = c, ![f] = d]
           /\ c = Idle \/ c >= tick
           /\ d = Idle \/ d >= tick
           /\ f = e => c = d
    <3>1. CASE ExpireFree(e)
      BY <2>2, <2>3, <3>1 DEF ExpireFree, EntryRemove
    <3>2. ASSUME NEW t \in Timeouts, ExpireRestart(e, t)
          PROVE  /\ due' = [due EXCEPT ![e] = tick + Clamp(t), ![e] = tick + Clamp(t)]
                 /\ tick + Clamp(t) \in Nat /\ tick + Clamp(t) >= tick
      <4> DEFINE v == tick + Clamp(t)
      <4>1. v \in Nat /\ v >= tick
        BY <1>0, <2>3
      <4>2. due' = [due EXCEPT ![e] = v]
        BY <3>2 DEF ExpireRestart
      <4> HIDE DEF v
      <4>3. due' = [due EXCEPT ![e] = v, ![e] = v]
        BY <4>2, <2>2, <2>3
      <4> QED
        BY <4>1, <4>3 DEF v
    <3>3. ASSUME NEW f \in linked \ {e}, ExpireRemove(e, f)
          PROVE  due' = [due EXCEPT ![e] = Idle, ![f] = Idle] /\ f \in Entries
      BY <2>3, <3>3 DEF ExpireRemove
    <3>4. ASSUME NEW f \in linked \ {e}, ExpireRefresh(e, f)
          PROVE  /\ due' = [due EXCEPT ![e] = Idle, ![f] = tick + timeout[f]]
                 /\ tick + timeout[f] \in Nat /\ tick + timeout[f] >= tick
                 /\ f \in Entries /\ f # e
      BY <1>0, <2>3, <3>4 DEF ExpireRefresh
    <3> QED
      BY <2>1, <2>2, <3>1, <3>2, <3>3, <3>4
  <2>5. due'[e] = c /\ due'[f] = d
    BY <2>2, <2>3, <2>4
  <2>6. due' = [due EXCEPT ![e] = due'[e], ![f] = due'[f]]
    BY <2>4, <2>5
  <2>7. Timers!Deadline(due'[e], tick) /\ Timers!Deadline(due'[f], tick)
    BY <2>4, <2>5 DEF Timers!Deadline, Timers!Idle, Idle
  <2>8. Timers!Expire
    BY <1>0, <2>1, <2>2, <2>6, <2>7 DEF Timers!Expire, Timers!Idle
  <2> QED
    BY <2>8 DEF Timers!Next
<1>5. CASE RollAdvance
  BY <1>0, <1>5 DEF RollAdvance, entryVars, Timers!Next, Timers!Tick
<1>6. CASE RollEnd
  BY <1>0, <1>6
     DEF Inv, TypeOK, WheelInv, EntryInv, ClockInv, RollEnd, entryVars, Started, Idle,
         Timers!Next, Timers!Sweep, Timers!Idle
<1>7. CASE UNCHANGED vars
  BY <1>7 DEF vars, Timers!vars
<1> QED
  BY <1>1, <1>2, <1>3, <1>4, <1>5, <1>6, <1>7 DEF Next

(* The wheel of N slots, rolled late, twice a second apart or after a jump  *)
(* of the clock, behaves as timers that keep their full deadlines: no       *)
(* callback runs early or for a replaced deadline, and a finished roll      *)
(* leaves nothing behind.                                                   *)
THEOREM WheelImplementsDeadlines == Spec => ImplementsDeadlines
<1>1. Init => Timers!Init
  BY DEF Init, Timers!Init, Idle, Timers!Idle
<1> QED
  BY <1>1, StepRefines, Invariance, PTL DEF Spec, ImplementsDeadlines, Timers!Spec
=============================================================================
