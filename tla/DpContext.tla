------------------------------ MODULE DpContext ------------------------------
(***************************************************************************)
(* The packet contexts of a data-plane thread (dp/pkt.c, dp/ring.c,        *)
(* dp/utils/timer_queue.c).  The control thread adds and deletes taps,     *)
(* queues, the inline port and pairs of ports under ctrl_dp_lock.  The     *)
(* data-plane thread polls and receives from them without the lock,        *)
(* releases the ones whose port disappears, and frees the released ones    *)
(* once they have aged.                                                    *)
(***************************************************************************)
EXTENDS Integers, Sequences, FiniteSets

CONSTANTS
    Mem,        \* memory for contexts, each used once
    None,
    Taps,       \* names of taps and netfilter queues
    Pairs,      \* port pairs are used
    Readd,      \* a name is added again after it was deleted
    Timeout     \* RELEASED_CTX_TIMEOUT

ASSUME ContextAssumption ==
    /\ None \notin Mem
    /\ {Pairs, Readd} \subseteq BOOLEAN
    /\ Timeout \in Nat

Names == Taps \cup {"port", "vin", "vex"}

VARIABLES
    st,         \* context -> "unused", "live", "released" or "freed"
    name, peer, \* context -> its name, peer_ctx
    links,      \* context -> how often it is on ctx_list
    flag,       \* the contexts whose field epoll is set
    kernel,     \* the contexts the epoll descriptor watches
    rel,        \* context -> how often it was appended to the free list
    free,       \* ctx_free_list: contexts and their age
    inline,     \* ctx_inline
    added,      \* the names that were added
    rq, half,   \* the control thread holds the lock and releases these; what it did to the first
    pc, polling, evs,   \* the data-plane thread
    sec,        \* a second has passed since its last iteration
    late,       \* contexts appended while timer_queue_trim runs
    used        \* the contexts its last step read

ctrlVars == <<rq, half>>
vars == <<st, name, peer, links, flag, kernel, rel, free, inline, added, rq, half,
          pc, polling, evs, sec, late, used>>

Init ==
    /\ st = [c \in Mem |-> "unused"]
    /\ name = [c \in Mem |-> None]
    /\ peer = [c \in Mem |-> None]
    /\ links = [c \in Mem |-> 0]
    /\ rel = [c \in Mem |-> 0]
    /\ flag = {} /\ kernel = {} /\ free = <<>> /\ inline = None /\ added = {}
    /\ rq = <<>> /\ half = "no"
    /\ pc = "top" /\ polling = None /\ evs = {} /\ sec = FALSE /\ late = {} /\ used = {}

Lookup(nm) == {c \in Mem : links[c] > 0 /\ name[c] = nm}

-------------------------------------------------------------------------------
(***************************************************************************)
(* The control thread.  Its operations hold ctrl_dp_lock.                  *)
(***************************************************************************)
Unlocked == rq = <<>>

MayAdd(nms) == Unlocked /\ (Readd \/ nms \cap added = {})

dpVars == <<pc, polling, evs, sec, late, used>>

\* dp_data_add_tap and dp_data_add_nfq; a name that exists is left alone.
AddTap(t) ==
    /\ MayAdd({t}) /\ Lookup(t) = {}
    /\ \E c \in Mem :
          /\ st[c] = "unused"
          /\ st' = [st EXCEPT ![c] = "live"]
          /\ name' = [name EXCEPT ![c] = t]
          /\ peer' = [peer EXCEPT ![c] = c]
          /\ links' = [links EXCEPT ![c] = 1]
          /\ flag' = flag \cup {c}
          /\ kernel' = kernel \cup {c}
    /\ added' = added \cup {t}
    /\ UNCHANGED <<rel, free, inline>> /\ UNCHANGED ctrlVars /\ UNCHANGED dpVars

AddPort ==
    /\ MayAdd({"port"}) /\ inline = None
    /\ \E c \in Mem :
          /\ st[c] = "unused"
          /\ st' = [st EXCEPT ![c] = "live"]
          /\ name' = [name EXCEPT ![c] = "port"]
          /\ peer' = [peer EXCEPT ![c] = c]
          /\ links' = [links EXCEPT ![c] = 1]
          /\ inline' = c
    /\ added' = added \cup {"port"}
    /\ UNCHANGED <<flag, kernel, rel, free>> /\ UNCHANGED ctrlVars /\ UNCHANGED dpVars

(***************************************************************************)
(* dp_data_add_port_pair.  A context that exists is used; both are linked  *)
(* in any case.  When the second cannot be opened, or one cannot be added  *)
(* to the epoll descriptor, what there is of the two is freed.             *)
(***************************************************************************)
EitherOf(nm, c) == IF Lookup(nm) = {} THEN st[c] = "unused" ELSE c \in Lookup(nm)

AddPair(in, ex) ==
    /\ Pairs /\ MayAdd({"vin", "vex"}) /\ in # ex
    /\ EitherOf("vin", in) /\ EitherOf("vex", ex)
    /\ st' = [st EXCEPT ![in] = "live", ![ex] = "live"]
    /\ name' = [name EXCEPT ![in] = "vin", ![ex] = "vex"]
    /\ peer' = [peer EXCEPT ![in] = ex, ![ex] = in]
    /\ links' = [links EXCEPT ![in] = @ + 1, ![ex] = @ + 1]
    /\ flag' = flag \cup {in, ex}
    /\ kernel' = kernel \cup {in, ex}
    /\ added' = added \cup {"vin", "vex"}
    /\ UNCHANGED <<rel, free, inline>> /\ UNCHANGED ctrlVars /\ UNCHANGED dpVars

AddPairFails(in, ex) ==
    /\ Pairs /\ MayAdd({"vin", "vex"}) /\ in # ex
    /\ EitherOf("vin", in) /\ EitherOf("vex", ex)
    /\ \E gone \in {{in, ex}} \cup (IF Lookup("vex") = {} THEN {{in}} ELSE {}) :
          /\ st' = [c \in Mem |-> IF c \in gone THEN "freed" ELSE st[c]]
          /\ kernel' = kernel \ gone
          /\ flag' = flag \ gone
    /\ UNCHANGED <<name, peer, links, rel, free, inline, added>>
    /\ UNCHANGED ctrlVars /\ UNCHANGED dpVars

\* dp_data_del_tap and dp_data_del_nfq; then the two steps of the release.
DelTap(t) ==
    /\ Unlocked
    /\ \E c \in Lookup(t) : rq' = <<c>>
    /\ UNCHANGED <<st, name, peer, links, flag, kernel, rel, free, inline, added, half>>
    /\ UNCHANGED dpVars

DelPort ==
    /\ Unlocked /\ inline # None
    /\ rq' = <<inline>>
    /\ inline' = None
    /\ UNCHANGED <<st, name, peer, links, flag, kernel, rel, free, added, half>>
    /\ UNCHANGED dpVars

DelPair ==
    /\ Unlocked /\ Lookup("vin") \cup Lookup("vex") # {}
    /\ \E in \in Lookup("vin") \cup {None}, ex \in Lookup("vex") \cup {None} :
          /\ (in = None) = (Lookup("vin") = {})
          /\ (ex = None) = (Lookup("vex") = {})
          /\ rq' = SelectSeq(<<in, ex>>, LAMBDA c : c # None)
    /\ UNCHANGED <<st, name, peer, links, flag, kernel, rel, free, inline, added, half>>
    /\ UNCHANGED dpVars


ReleaseUnlink ==
    /\ rq # <<>> /\ half = "no"
    /\ half' = IF Head(rq) \in flag THEN "deleted" ELSE "kept"
    /\ links' = [links EXCEPT ![Head(rq)] = @ - 1]
    /\ kernel' = IF Head(rq) \in flag THEN kernel \ {Head(rq)} ELSE kernel
    /\ UNCHANGED <<st, name, peer, flag, rel, free, inline, added, rq>> /\ UNCHANGED dpVars


ReleaseAppend ==
    /\ half # "no"
    /\ LET c == Head(rq)
       IN  /\ flag' = IF half = "deleted" THEN flag \ {c} ELSE flag
           /\ free' = Append(free, [ctx |-> c, age |-> 0])
           /\ late' = IF pc = "trim" THEN late \cup {c} ELSE late
           /\ rel' = [rel EXCEPT ![c] = @ + 1]
           /\ st' = [st EXCEPT ![c] = "released"]
    /\ rq' = Tail(rq) /\ half' = "no"
    /\ UNCHANGED <<name, peer, links, kernel, inline, added, pc, polling, evs, sec, used>>

-------------------------------------------------------------------------------
(***************************************************************************)
(* The data-plane thread: dp_data_thr.                                     *)
(***************************************************************************)
Reads(c) == used' = {c}      \* dp_rx; what it receives is sent to the peer

shared == <<st, name, peer, links, rel, free, inline, added>>

\* The inline port is polled; when it is empty it is added to the epoll descriptor.
Poll ==
    /\ pc = "top"
    /\ \/ inline = None /\ pc' = "wait" /\ used' = {} /\ UNCHANGED <<polling, kernel>>
       \/ inline # None /\ Reads(inline) /\ pc' = "wait" /\ UNCHANGED <<polling, kernel>>
       \/ /\ inline # None /\ Reads(inline)
          /\ polling' = inline
          /\ kernel' = kernel \cup {inline}
          /\ pc' = "flag"
    /\ UNCHANGED <<flag, evs, sec, late>> /\ UNCHANGED shared /\ UNCHANGED ctrlVars

SetFlag ==
    /\ pc = "flag"
    /\ flag' = flag \cup {polling}
    /\ pc' = "wait" /\ used' = {polling}
    /\ UNCHANGED <<kernel, polling, evs, sec, late>> /\ UNCHANGED shared /\ UNCHANGED ctrlVars

EpollWait ==
    /\ pc = "wait"
    /\ \E S \in SUBSET kernel : \E ev \in [S -> {"in", "err"}] : evs' = {<<c, ev[c]>> : c \in S}
    /\ pc' = "events" /\ used' = {}
    /\ UNCHANGED <<flag, kernel, polling, sec, late>> /\ UNCHANGED shared /\ UNCHANGED ctrlVars

EventIn(c) ==
    /\ pc = "events" /\ <<c, "in">> \in evs
    /\ Reads(c)
    /\ evs' = evs \ {<<c, "in">>}
    /\ UNCHANGED <<flag, kernel, pc, polling, sec, late>> /\ UNCHANGED shared /\ UNCHANGED ctrlVars

\* As below, without the search of the list.
ErrReleasesAlways(c) == c # polling

\* EPOLLHUP or EPOLLERR: the context is released if one of its name is on the list.
ErrReleases(c) == c # polling /\ Lookup(name[c]) # {}

EventErr(c) ==
    /\ pc = "events" /\ <<c, "err">> \in evs
    /\ c # polling => Unlocked
    /\ used' = {c}
    /\ evs' = evs \ {<<c, "err">>}
    /\ IF ErrReleases(c)
       THEN /\ links' = [links EXCEPT ![c] = @ - 1]
            /\ kernel' = IF c \in flag THEN kernel \ {c} ELSE kernel
            /\ flag' = flag \ {c}
            /\ free' = Append(free, [ctx |-> c, age |-> 0])
            /\ rel' = [rel EXCEPT ![c] = @ + 1]
            /\ st' = [st EXCEPT ![c] = "released"]
       ELSE UNCHANGED <<links, kernel, flag, free, rel, st>>
    /\ UNCHANGED <<name, peer, inline, added, pc, polling, sec, late>> /\ UNCHANGED ctrlVars

\* After the events the polled port leaves the epoll descriptor, if the flag says so.
Unpoll ==
    /\ pc = "events" /\ evs = {}
    /\ IF polling # None /\ polling \in flag
       THEN kernel' = kernel \ {polling} /\ flag' = flag \ {polling}
       ELSE UNCHANGED <<kernel, flag>>
    /\ used' = {polling} \ {None}
    /\ polling' = None
    /\ pc' = IF sec THEN "second" ELSE "top"
    /\ UNCHANGED <<evs, sec, late>> /\ UNCHANGED shared /\ UNCHANGED ctrlVars

\* The work of a second; the free list is trimmed in some of them.
Second ==
    /\ pc = "second"
    /\ pc' \in {"top", "trim"}
    /\ sec' = FALSE /\ used' = {} /\ late' = {}
    /\ UNCHANGED <<flag, kernel, polling, evs>> /\ UNCHANGED shared /\ UNCHANGED ctrlVars

(***************************************************************************)
(* timer_queue_trim takes no lock.  A context that is appended meanwhile   *)
(* may be lost when the trim empties the list.                             *)
(***************************************************************************)
Trim ==
    /\ pc = "trim"
    /\ LET k    == Cardinality({i \in DOMAIN free : \A j \in 1 .. i : free[j].age >= Timeout})
           old  == {free[i].ctx : i \in 1 .. k}
           rest == SubSeq(free, k + 1, Len(free))
       IN  /\ st' = [c \in Mem |-> IF c \in old THEN "freed" ELSE st[c]]
           /\ kernel' = kernel \ old
           /\ \E lost \in {{}} \cup {IF k > 0 THEN late ELSE {}} :
                 free' = SelectSeq(rest, LAMBDA e : e.ctx \notin lost)
    /\ pc' = "top" /\ used' = {} /\ late' = {}
    /\ UNCHANGED <<name, peer, links, flag, rel, inline, added, polling, evs, sec>>
    /\ UNCHANGED ctrlVars

\* dp_timer_thr.
Tick ==
    /\ sec' = TRUE
    /\ free' = [i \in DOMAIN free |-> [free[i] EXCEPT !.age = IF @ < Timeout THEN @ + 1 ELSE @]]
    /\ UNCHANGED <<st, name, peer, links, flag, kernel, rel, inline, added, pc, polling, evs, late, used>>
    /\ UNCHANGED ctrlVars

Next ==
    \/ \E t \in Taps : AddTap(t) \/ DelTap(t)
    \/ AddPort \/ DelPort
    \/ \E in, ex \in Mem : AddPair(in, ex) \/ AddPairFails(in, ex)
    \/ DelPair
    \/ ReleaseUnlink \/ ReleaseAppend
    \/ Poll \/ SetFlag \/ EpollWait
    \/ \E c \in Mem : EventIn(c) \/ EventErr(c)
    \/ Unpoll \/ Second \/ Trim \/ Tick

Spec == Init /\ [][Next]_vars
-------------------------------------------------------------------------------
\* Type invariant: contexts, the structures that hold them, and the two threads.
TypeOK ==
    /\ st \in [Mem -> {"unused", "live", "released", "freed"}]
    /\ name \in [Mem -> Names \cup {None}]
    /\ peer \in [Mem -> Mem \cup {None}]
    /\ flag \subseteq Mem /\ kernel \subseteq Mem /\ late \subseteq Mem
    /\ inline \in Mem \cup {None} /\ polling \in Mem \cup {None}
    /\ \A i \in DOMAIN rq : rq[i] \in Mem
    /\ half \in {"no", "kept", "deleted"}
    /\ pc \in {"top", "flag", "wait", "events", "second", "trim"}

\* The data-plane thread reads no context that was freed, neither the one it polls nor
\* one an event names, though the control thread may release it at any moment between
\* epoll_wait and the event ("Context is released in data path thread too. It's
\* synchronized.").
NoUseAfterFree == \A c \in used : st[c] # "freed"

\* A context is released once, whichever of a delete and an epoll error comes first
\* ("When switch mode, port is pulled first, then epoll error happens first").
ReleasedOnce == \A c \in Mem : rel[c] <= 1


===============================================================================
