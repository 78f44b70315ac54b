--------------------------- MODULE DeadlineTimers ---------------------------
(***************************************************************************)
(* What the users of the timer wheel (sessions, fragment trackers, meters, *)
(* the log and unknown-ip caches) rely on.  An armed entry has a deadline. *)
(* It expires only when the clock is past that deadline, and for the       *)
(* deadline it was last armed with.  When a sweep up to a tick is over, no *)
(* armed entry has a deadline before that tick.                            *)
(***************************************************************************)
EXTENDS Integers

CONSTANTS Entries, NoEntry

VARIABLES
    now,     \* clock the entries are armed and expired against
    due,     \* due[e]: deadline of an armed entry, Idle otherwise
    swept,   \* every deadline before this tick has been honoured
    fired    \* the entry whose handler ran in the last step, or NoEntry

vars == <<now, due, swept, fired>>

Idle == -1

Init ==
    /\ now = 0
    /\ due = [e \in Entries |-> Idle]
    /\ swept = 0
    /\ fired = NoEntry

(* A deadline that may be set at clock t, or no deadline. *)
Deadline(d, t) == d = Idle \/ (d \in Nat /\ d >= t)

(* The clock is read and an entry is armed, re-armed or disarmed. *)
Change ==
    /\ now' \in Nat
    /\ now' >= now
    /\ \E e \in Entries :
          /\ Deadline(due'[e], now')
          /\ due' = [due EXCEPT ![e] = due'[e]]
    /\ fired' = NoEntry
    /\ UNCHANGED swept

(* The clock is read. *)
Tick ==
    /\ now' \in Nat
    /\ now' >= now
    /\ fired' = NoEntry
    /\ UNCHANGED <<due, swept>>

(* e expires; its handler may re-arm it, or change one other entry. *)
Expire ==
    /\ \E e, f \in Entries :
          /\ due[e] # Idle
          /\ due[e] < now
          /\ Deadline(due'[e], now)
          /\ Deadline(due'[f], now)
          /\ due' = [due EXCEPT ![e] = due'[e], ![f] = due'[f]]
          /\ fired' = e
    /\ UNCHANGED <<now, swept>>

(* A sweep is complete up to the tick swept'. *)
Sweep ==
    /\ swept' \in swept..now'
    /\ now' \in Nat
    /\ now' >= now
    /\ \A e \in Entries : due[e] # Idle => due[e] >= swept'
    /\ fired' = NoEntry
    /\ UNCHANGED due

Next == Change \/ Tick \/ Expire \/ Sweep

Spec == Init /\ [][Next]_vars
=============================================================================
