----------------------------- MODULE TimerWheel -----------------------------
(***************************************************************************)
(* The per-thread timer wheel of the data plane (dp/utils/timer_wheel.c),  *)
(* driven by the timer thread that advances g_seconds and by the data-plane*)
(* thread, which arms entries while it handles packets and rolls the wheel *)
(* once a second (dp/pkt.c, dp/dpi/dpi_entry.c).  A slot is the set of the *)
(* entries linked into it; the order inside a slot is not kept.            *)
(***************************************************************************)
EXTENDS Integers, FiniteSets

CONSTANTS
    Entries,      \* timer entries of the thread's sessions, trackers, caches
    NoEntry,
    N,            \* MAX_TIMER_SLOTS
    Timeouts,     \* timeouts the entries are started with
    MaxStall,     \* bound: seconds from a roll to the next, and of a roll
    FirstStall,   \* bound: seconds to the first roll
    MaxSeconds    \* bound: last value of g_seconds that is explored

(* timer_wheel_entry_start: an overlong timeout becomes 0. *)
Clamp(t) == IF t >= N THEN 0 ELSE t

(* Between two rolls the data-plane loop sleeps at most a second and then   *)
(* handles what it received; its longest timeout is far below the wheel's   *)
(* span.  Before the first roll the wheel has not been given its position.  *)
ASSUME WheelAssumption ==
    /\ N \in Nat \ {0}
    /\ MaxStall \in Nat \ {0}
    /\ FirstStall \in Nat \ {0}
    /\ FirstStall <= MaxStall
    /\ 2 * MaxStall < N
    /\ Timeouts \subseteq Nat
    /\ \A t \in Timeouts : /\ Clamp(t) + 2 * MaxStall < N
                           /\ Clamp(t) >= FirstStall
    /\ NoEntry \notin Entries
    /\ MaxSeconds \in Nat

VARIABLES
    seconds,      \* g_seconds, written by the timer thread
    lastSeconds,  \* last_seconds of the data-plane loop
    tick,         \* th_snap.tick
    current,      \* w->current; 0 until the wheel is started
    count,        \* w->count
    linked,       \* entries on some slot's list
    slot,         \* n->expire_slot
    timeout,      \* n->timeout
    callback,     \* is n->callback set?
    roll,         \* progress of timer_wheel_roll: [on, s, m]
    due,          \* history: expire_at computed by the insert, before % N
    fired         \* history: entry whose callback ran in the last step

vars == <<seconds, lastSeconds, tick, current, count, linked, slot, timeout,
          callback, roll, due, fired>>
entryVars == <<count, linked, slot, timeout, callback, due>>

Idle == -1
NotRolling == [on |-> FALSE, s |-> 0, m |-> 0]
Started == current > 0

Init ==
    /\ seconds = 0
    /\ lastSeconds = 0
    /\ tick = 0
    /\ current = 0
    /\ count = 0
    /\ linked = {}
    /\ slot = [e \in Entries |-> 0]
    /\ timeout = [e \in Entries |-> 0]
    /\ callback = [e \in Entries |-> FALSE]
    /\ roll = NotRolling
    /\ due = [e \in Entries |-> Idle]
    /\ fired = NoEntry

(***************************************************************************)
(* Operations on entries.  Each is the conjunct that says what it does to  *)
(* entryVars; `at' is the tick it is called with.                          *)
(***************************************************************************)
EntryStartNoModulo(e, t, at) ==
    /\ e \notin linked
    /\ callback' = [callback EXCEPT ![e] = TRUE]
    /\ timeout' = [timeout EXCEPT ![e] = Clamp(t)]
    /\ slot' = [slot EXCEPT ![e] = at + Clamp(t)]
    /\ due' = [due EXCEPT ![e] = at + Clamp(t)]
    /\ linked' = linked \cup {e}
    /\ count' = count + 1

EntryStart(e, t, at) ==
    /\ e \notin linked
    /\ callback' = [callback EXCEPT ![e] = TRUE]
    /\ timeout' = [timeout EXCEPT ![e] = Clamp(t)]
    /\ slot' = [slot EXCEPT ![e] = (at + Clamp(t)) % N]
    /\ due' = [due EXCEPT ![e] = at + Clamp(t)]
    /\ linked' = linked \cup {e}
    /\ count' = count + 1

EntryRefreshDropsCallback(e, at) ==
    /\ e \in linked
    /\ slot' = [slot EXCEPT ![e] = (at + timeout[e]) % N]
    /\ due' = [due EXCEPT ![e] = at + timeout[e]]
    /\ callback' = [callback EXCEPT ![e] = FALSE]
    /\ UNCHANGED <<timeout, linked, count>>

EntryRefresh(e, at) ==
    /\ e \in linked
    /\ slot' = [slot EXCEPT ![e] = (at + timeout[e]) % N]
    /\ due' = [due EXCEPT ![e] = at + timeout[e]]
    /\ UNCHANGED <<callback, timeout, linked, count>>

EntryRemove(e) ==
    /\ e \in linked
    /\ linked' = linked \ {e}
    /\ count' = count - 1
    /\ callback' = [callback EXCEPT ![e] = FALSE]
    /\ due' = [due EXCEPT ![e] = Idle]
    /\ UNCHANGED <<slot, timeout>>

(***************************************************************************)
(* The timer thread: one second, or a jump when it finds that it fell      *)
(* behind the system clock.                                                *)
(***************************************************************************)
TimerThread ==
    /\ \E s \in (seconds + 1)..MaxSeconds :
          /\ s <= IF roll.on THEN tick + MaxStall
                  ELSE lastSeconds + (IF Started THEN MaxStall ELSE FirstStall)
          /\ seconds' = s
    /\ fired' = NoEntry
    /\ UNCHANGED <<lastSeconds, tick, current, roll, entryVars>>

(* A packet is received: the clock is read and one entry is touched. *)
Packet ==
    /\ ~roll.on
    /\ tick' = seconds
    /\ \E e \in Entries : \/ \E t \in Timeouts : EntryStart(e, t, seconds)
                          \/ EntryRefresh(e, seconds)
                          \/ EntryRemove(e)
    /\ fired' = NoEntry
    /\ UNCHANGED <<seconds, lastSeconds, current, roll>>

(* dpi_timeout, up to the loop of timer_wheel_roll. *)
DpiTimeout ==
    LET cur == IF Started THEN current ELSE seconds
        m   == IF seconds < cur + N THEN seconds ELSE cur + N
    IN  /\ ~roll.on
        /\ seconds - lastSeconds >= 1
        /\ tick' = seconds
        /\ current' = cur
        /\ IF seconds < cur
           THEN /\ lastSeconds' = seconds
                /\ UNCHANGED roll
           ELSE /\ roll' = [on |-> TRUE, s |-> cur, m |-> m]
                /\ UNCHANGED lastSeconds
        /\ fired' = NoEntry
        /\ UNCHANGED <<seconds, entryVars>>

SlotEntriesOfNext(s) == {e \in linked : slot[e] = (s + 1) % N}

SlotEntries(s) == {e \in linked : slot[e] = s % N}

(***************************************************************************)
(* The loop body of timer_wheel_roll: the entry at the head of the slot is *)
(* removed and its callback runs, which frees the owner, restarts the      *)
(* entry, or removes or refreshes another entry of the owner (a session's  *)
(* tick entry, a meter).                                                   *)
(***************************************************************************)
ExpireFree(e) == EntryRemove(e)

ExpireRestart(e, t) ==
    /\ slot' = [slot EXCEPT ![e] = (tick + Clamp(t)) % N]
    /\ due' = [due EXCEPT ![e] = tick + Clamp(t)]
    /\ timeout' = [timeout EXCEPT ![e] = Clamp(t)]
    /\ UNCHANGED <<callback, linked, count>>

ExpireRemove(e, f) ==
    /\ linked' = (linked \ {e}) \ {f}
    /\ count' = (count - 1) - 1
    /\ callback' = [callback EXCEPT ![e] = FALSE, ![f] = FALSE]
    /\ due' = [due EXCEPT ![e] = Idle, ![f] = Idle]
    /\ UNCHANGED <<slot, timeout>>

ExpireRefresh(e, f) ==
    /\ linked' = linked \ {e}
    /\ count' = count - 1
    /\ callback' = [callback EXCEPT ![e] = FALSE]
    /\ slot' = [slot EXCEPT ![f] = (tick + timeout[f]) % N]
    /\ due' = [due EXCEPT ![e] = Idle, ![f] = tick + timeout[f]]
    /\ UNCHANGED timeout

RollFire ==
    /\ roll.on
    /\ roll.s < roll.m
    /\ \E e \in SlotEntries(roll.s) :
          /\ fired' = e
          /\ \/ ExpireFree(e)
             \/ \E t \in Timeouts : ExpireRestart(e, t)
             \/ \E f \in linked \ {e} : ExpireRemove(e, f) \/ ExpireRefresh(e, f)
    /\ UNCHANGED <<seconds, lastSeconds, tick, current, roll>>

RollAdvanceSkipsSlot ==
    /\ roll.on
    /\ roll.s < roll.m
    /\ SlotEntries(roll.s) = {}
    /\ roll' = [roll EXCEPT !.s = @ + 2]
    /\ fired' = NoEntry
    /\ UNCHANGED <<seconds, lastSeconds, tick, current, entryVars>>

RollAdvance ==
    /\ roll.on
    /\ roll.s < roll.m
    /\ SlotEntries(roll.s) = {}
    /\ roll' = [roll EXCEPT !.s = @ + 1]
    /\ fired' = NoEntry
    /\ UNCHANGED <<seconds, lastSeconds, tick, current, entryVars>>

RollEnd ==
    /\ roll.on
    /\ roll.s >= roll.m
    /\ roll' = NotRolling
    /\ current' = tick
    /\ lastSeconds' = seconds
    /\ fired' = NoEntry
    /\ UNCHANGED <<seconds, tick, entryVars>>

Next == TimerThread \/ Packet \/ DpiTimeout \/ RollFire \/ RollAdvance \/ RollEnd

(* The data-plane thread keeps running its loop, and time passes. *)
Fairness == /\ WF_vars(TimerThread)
            /\ WF_vars(DpiTimeout)
            /\ WF_vars(RollFire)
            /\ WF_vars(RollAdvance)
            /\ WF_vars(RollEnd)

Spec == Init /\ [][Next]_vars /\ Fairness
-----------------------------------------------------------------------------
TypeOK ==
    /\ seconds \in Nat
    /\ lastSeconds \in Nat
    /\ tick \in Nat
    /\ current \in Nat
    /\ count \in Nat
    /\ linked \subseteq Entries
    /\ slot \in [Entries -> 0..N-1]
    /\ timeout \in [Entries -> Nat]
    /\ callback \in [Entries -> BOOLEAN]
    /\ roll \in [on : BOOLEAN, s : Nat, m : Nat]
    /\ due \in [Entries -> Nat \cup {Idle}]
    /\ fired \in Entries \cup {NoEntry}

Timers == INSTANCE DeadlineTimers WITH now <- tick, swept <- current

(* The wheel, which keeps deadlines modulo N, honours every deadline: no    *)
(* callback runs early, late, twice, or for a deadline that was changed.    *)
ImplementsDeadlines == Timers!Spec

(* timer_wheel_entry_is_active tests n->callback: it must tell whether the  *)
(* entry is linked, and w->count must be the number of linked entries, also *)
(* while callbacks of a roll start, refresh and remove entries.             *)
ActiveIsLinked ==
    /\ \A e \in Entries : callback[e] <=> e \in linked
    /\ count = Cardinality(linked)

(* Every deadline is eventually met or replaced, whatever the callbacks of  *)
(* a roll put back on the wheel.                                            *)
DeadlinesMet ==
    \A e \in Entries : \A d \in 0..(MaxSeconds - 2 * MaxStall - 1) :
        (due[e] = d) ~> (due[e] # d)

(* Where the deadlines are, relative to the wheel: the inductive invariant  *)
(* behind ImplementsDeadlines.  A linked entry is in the slot of its        *)
(* deadline, at or after the slot being swept and less than a turn ahead.   *)
EntryInv(e) ==
    /\ callback[e] <=> e \in linked
    /\ e \notin linked => due[e] = Idle
    /\ e \in linked =>
          /\ due[e] \in Nat
          /\ slot[e] = due[e] % N
          /\ timeout[e] >= FirstStall
          /\ timeout[e] + 2 * MaxStall < N
          /\ due[e] <= tick + timeout[e]
          /\ Started => due[e] >= IF roll.on THEN roll.s ELSE current
          /\ ~Started => due[e] >= FirstStall

(* How far the clocks of the two threads can be apart. *)
ClockInv ==
    /\ current <= tick
    /\ tick <= seconds
    /\ lastSeconds <= seconds
    /\ tick <= current + 2 * MaxStall
    /\ ~Started => /\ ~roll.on
                   /\ lastSeconds = 0
                   /\ seconds <= FirstStall
    /\ Started /\ ~roll.on => /\ lastSeconds <= current + MaxStall
                              /\ seconds <= lastSeconds + MaxStall
    /\ roll.on => /\ roll.m = tick
                  /\ roll.s \in current..tick
                  /\ seconds <= tick + MaxStall

WheelInv == ClockInv /\ \A e \in Entries : EntryInv(e)
=============================================================================
