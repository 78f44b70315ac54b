------------------------------ MODULE ConnReport ------------------------------
(***************************************************************************)
(* What the control thread and the data-plane thread share in dp/ctrl.c,   *)
(* dp/pkt.c and dp/dpi/dpi_msg.c: the requests the control thread makes of *)
(* the data-plane thread (a word, an eventfd and a condition variable with *)
(* a time-out), and the two connection maps that the data-plane thread     *)
(* fills with its sessions' reports while the control thread drains the    *)
(* one that is not current, after an RCU grace period.                     *)
(***************************************************************************)
EXTENDS Integers, FiniteSets, FiniteSetsExt

CONSTANTS
    Sessions,   \* the sessions that will exist, each once; a session is its id
    Conn,       \* session -> the connection it is reported under
    Mac,        \* session -> the workload's MAC
    Table,      \* session -> the session map that holds it
    Nodes,      \* memory for connection nodes
    None,
    Requests,   \* the requests made: <<"list">>, <<"clear", id or 0>>, <<"delmac", mac>>
    TimesOut,   \* a request may time out
    Limits      \* the rate limiter may refuse a node

ASSUME ReportAssumption ==
    /\ None \notin Sessions \cup Nodes
    /\ {TimesOut, Limits} \subseteq BOOLEAN
    /\ DOMAIN Conn = Sessions /\ DOMAIN Mac = Sessions /\ DOMAIN Table = Sessions

NoRequest == <<"none">>
Kind(r) == r[1]

VARIABLES
    live, past,     \* the sessions that exist; those that have ended
    logged,         \* DPI_SESS_FLAG_START_LOGGED
    map, cnt, cur,  \* conn4_map, conn4_map_cnt, conn4_map_cur
    conn, count,    \* node -> its connection; node -> sessions counted in it
    sent,           \* session -> how often it was counted in what was sent
    stored,         \* the sessions whose count entered a map
    req, ev, arg,   \* th_ctrl_req, the eventfd, the global the request's argument is in
    cpc, woken, old, grace,             \* the control thread
    pc, rcu, task, doing, todo, ref     \* the data-plane thread

mapVars == <<map, cnt, cur, conn, count, sent, stored>>
ctrlVars == <<cpc, woken, old, grace>>
reqVars == <<req, ev, arg>>
sessVars == <<live, past, logged>>
dpVars == <<pc, rcu, task, doing, todo, ref>>
vars == <<mapVars, ctrlVars, reqVars, sessVars, dpVars>>

\* The report under way: of which session, whether it counts the session, and
\* whether the session ends with it.
NoTask == [s |-> None, counts |-> FALSE, ends |-> FALSE]
Task(s, counts, ends) == [s |-> s, counts |-> counts, ends |-> ends]

Init ==
    /\ live = {} /\ past = {} /\ logged = {}
    /\ map = [i \in 0..1 |-> {}] /\ cnt = [i \in 0..1 |-> 0] /\ cur = 0
    /\ conn = [n \in Nodes |-> None]
    /\ count = [n \in Nodes |-> [s \in Sessions |-> 0]]
    /\ sent = [s \in Sessions |-> 0] /\ stored = {}
    /\ req = NoRequest /\ ev = FALSE /\ arg = NoRequest
    /\ cpc = "idle" /\ woken = FALSE /\ old = 0 /\ grace = FALSE
    /\ pc = "idle" /\ rcu = FALSE /\ task = NoTask /\ doing = "none" /\ todo = {}
    /\ ref = [map |-> 0, node |-> None]

-------------------------------------------------------------------------------
(***************************************************************************)
(* The control thread.                                                     *)
(***************************************************************************)
\* dp_data_wait_ctrl_req_thr takes the lock and leaves the request.
Ask(r) ==
    /\ cpc = "idle"
    /\ cpc' = "asking" /\ req' = r /\ arg' = r
    /\ UNCHANGED <<ev, woken, old, grace, mapVars, sessVars, dpVars>>

\* It writes to the eventfd and waits, which releases the lock.
Post ==
    /\ cpc = "asking"
    /\ cpc' = "waiting" /\ ev' = TRUE /\ woken' = FALSE
    /\ UNCHANGED <<req, arg, old, grace, mapVars, sessVars, dpVars>>


\* The wait ends with an answer, any answer, or with a time-out.
Return ==
    /\ cpc = "waiting"
    /\ woken \/ TimesOut
    /\ cpc' = "idle" /\ req' = NoRequest /\ arg' = NoRequest /\ woken' = FALSE
    /\ UNCHANGED <<ev, old, grace, mapVars, sessVars, dpVars>>

\* Mutated: the old map is drained with no grace period.
SwitchNoGrace ==
    /\ cpc = "idle" /\ cnt[cur] > 0
    /\ cpc' = "draining" /\ old' = cur /\ cur' = 1 - cur
    /\ UNCHANGED <<woken, grace, map, cnt, conn, count, sent, stored,
                   reqVars, sessVars, dpVars>>

\* dp_ctrl_update_connects passes over an empty map; else it switches maps and
\* synchronize_rcu waits for the section the data-plane thread may be in.
Switch ==
    /\ cpc = "idle" /\ cnt[cur] > 0
    /\ cpc' = "syncing" /\ old' = cur /\ cur' = 1 - cur /\ grace' = rcu
    /\ UNCHANGED <<woken, map, cnt, conn, count, sent, stored,
                   reqVars, sessVars, dpVars>>

Synced ==
    /\ cpc = "syncing" /\ ~grace
    /\ cpc' = "draining"
    /\ UNCHANGED <<woken, old, grace, mapVars, reqVars, sessVars, dpVars>>

\* One node is copied to the message, removed and freed.
Send ==
    /\ cpc = "draining"
    /\ \E n \in map[old] :
        /\ sent' = [s \in Sessions |-> sent[s] + count[n][s]]
        /\ map' = [map EXCEPT ![old] = @ \ {n}]
        /\ conn' = [conn EXCEPT ![n] = None]
        /\ count' = [count EXCEPT ![n] = [s \in Sessions |-> 0]]
    /\ UNCHANGED <<cnt, cur, stored, ctrlVars, reqVars, sessVars, dpVars>>

Drained ==
    /\ cpc = "draining" /\ map[old] = {}
    /\ cpc' = "idle" /\ cnt' = [cnt EXCEPT ![old] = 0] /\ old' = 0
    /\ UNCHANGED <<map, cur, conn, count, sent, stored, woken, grace,
                   reqVars, sessVars, dpVars>>

-------------------------------------------------------------------------------
(***************************************************************************)
(* The data-plane thread.  A packet or an expiry runs in an RCU section, a *)
(* request does not.                                                       *)
(***************************************************************************)
\* A packet creates session s or finds it, and the session is reported, for
\* the first time (dpi_session_start_log) or again (dpi_session_mid_log).
Packet(s) ==
    /\ pc = "idle" /\ s \notin past
    /\ live' = live \cup {s}
    /\ rcu' = TRUE
    /\ \/ task' = Task(s, s \notin logged, FALSE) /\ pc' = "report"
       \/ s \notin live /\ task' = NoTask /\ pc' = "leave"
    /\ UNCHANGED <<past, logged, doing, todo, ref, mapVars, ctrlVars, reqVars>>

\* The session's last report (dpi_session_end_log): it counts the session if
\* none did, and there is none for one that was neither logged nor answered.
EndLog(s) ==
    \/ task' = Task(s, s \notin logged, TRUE) /\ pc' = "report"
    \/ s \notin logged /\ task' = Task(s, FALSE, TRUE) /\ pc' = "release"

Expire(s) ==
    /\ pc = "idle" /\ s \in live
    /\ rcu' = TRUE
    /\ EndLog(s)
    /\ UNCHANGED <<doing, todo, ref, sessVars, mapVars, ctrlVars, reqVars>>

\* dp_ctrl_connect_report holds the map's index and looks the connection up.
\* key.application is never set, so a node may be missed.
Find ==
    /\ pc = "report"
    /\ \E n \in {m \in map[cur] : conn[m] = Conn[task.s]} \cup {None} :
        ref' = [map |-> cur, node |-> n]
    /\ pc' = "store"
    /\ UNCHANGED <<rcu, task, doing, todo, sessVars, mapVars, ctrlVars, reqVars>>

\* A count of task.s enters node n if the report counts the session.
Counted(n) ==
    /\ count' = [count EXCEPT ![n][task.s] = @ + IF task.counts THEN 1 ELSE 0]
    /\ stored' = IF task.counts THEN stored \cup {task.s} ELSE stored

NewNode(n) ==
    /\ conn[n] = None
    /\ Counted(n)
    /\ conn' = [conn EXCEPT ![n] = Conn[task.s]]
    /\ map' = [map EXCEPT ![ref.map] = @ \cup {n}]

\* Mutated: the node added is not counted in conn4_map_cnt.
AddUncounted(n) == NewNode(n) /\ UNCHANGED cnt

Add(n) == NewNode(n) /\ cnt' = [cnt EXCEPT ![ref.map] = @ + 1]

\* The report updates the node it found, or adds a new one if the rate limiter
\* and the memory allow.  It succeeds in every case.
Store ==
    /\ pc = "store"
    /\ pc' = "reported" /\ ref' = [map |-> 0, node |-> None]
    /\ \/ ref.node # None /\ Counted(ref.node) /\ UNCHANGED <<map, cnt, conn>>
       \/ ref.node = None /\ \E n \in Nodes : Add(n)
       \/ /\ ref.node = None
          /\ Limits \/ \A n \in Nodes : conn[n] # None
          /\ UNCHANGED <<map, cnt, conn, count, stored>>
    /\ UNCHANGED <<cur, sent, rcu, task, doing, todo, sessVars, ctrlVars, reqVars>>

\* Mutated: a session is counted whenever it is reported.
ReportedNotLogged ==
    /\ pc = "reported"
    /\ pc' = IF task.ends THEN "release" ELSE "leave"
    /\ UNCHANGED <<logged, rcu, task, doing, todo, ref, live, past, mapVars, ctrlVars, reqVars>>

\* The session is marked as logged, unless this is its end.
Reported ==
    /\ pc = "reported"
    /\ logged' = IF task.ends THEN logged ELSE logged \cup {task.s}
    /\ pc' = IF task.ends THEN "release" ELSE "leave"
    /\ UNCHANGED <<rcu, task, doing, todo, ref, live, past, mapVars, ctrlVars, reqVars>>

\* The rest of dpi_session_release; a request then goes on with its sessions.
ReleaseSession ==
    /\ pc = "release"
    /\ live' = live \ {task.s} /\ past' = past \cup {task.s}
    /\ task' = NoTask
    /\ pc' = IF rcu THEN "leave" ELSE "walk"
    /\ UNCHANGED <<logged, rcu, doing, todo, ref, mapVars, ctrlVars, reqVars>>

Leave ==
    /\ pc = "leave"
    /\ pc' = "idle" /\ rcu' = FALSE /\ task' = NoTask /\ grace' = FALSE
    /\ UNCHANGED <<doing, todo, ref, sessVars, mapVars, cpc, woken, old, reqVars>>

\* The thread wakes on the eventfd and reads the request without the lock.
Wake ==
    /\ pc = "idle" /\ ev
    /\ ev' = FALSE
    /\ pc' = IF req = NoRequest THEN "idle" ELSE "call"
    /\ UNCHANGED <<req, arg, rcu, task, doing, todo, ref, sessVars, mapVars, ctrlVars>>

\* It reads the request again, and starts on the sessions the request is about.
Call ==
    /\ pc = "call"
    /\ todo' = IF \/ Kind(req) = "clear"
                  \/ Kind(req) = "delmac" /\ Kind(arg) = "delmac"
               THEN live ELSE {}
    /\ doing' = Kind(req)
    /\ pc' = "walk"
    /\ UNCHANGED <<rcu, task, ref, sessVars, mapVars, ctrlVars, reqVars>>

\* dpi_clear_session reads g_sess_id_to_clear for every session, and 0 means
\* all; dpi_session_delete_by_mac compares with the control thread's variable,
\* which holds anything once that thread has returned.
Clears(s) == arg = <<"clear", s>> \/ Kind(arg) # "clear" \/ arg = <<"clear", 0>>
SameMac(s) == IF Kind(arg) = "delmac" THEN {arg[2] = Mac[s]} ELSE BOOLEAN

Walk ==
    /\ pc = "walk" /\ todo # {}
    /\ \E s \in todo : \E same \in IF doing = "clear" THEN {Clears(s)} ELSE SameMac(s) :
        \/ /\ same
           /\ todo' = IF doing = "clear" /\ arg = <<"clear", s>>
                      THEN {t \in todo : Table[t] # Table[s]}
                      ELSE todo \ {s}
           /\ EndLog(s)
        \/ /\ ~same
           /\ todo' = todo \ {s}
           /\ UNCHANGED <<pc, task>>
    /\ UNCHANGED <<rcu, doing, ref, sessVars, mapVars, ctrlVars, reqVars>>

\* Mutated: a list of sessions returns before dpi_ctrl_req_done.
DoneUnlessListed ==
    /\ pc = "walk" /\ todo = {} /\ cpc # "asking"
    /\ pc' = "idle" /\ doing' = "none"
    /\ woken' = ((cpc = "waiting" /\ doing # "list") \/ woken)
    /\ UNCHANGED <<rcu, task, todo, ref, sessVars, mapVars, cpc, old, grace, reqVars>>

\* dpi_ctrl_req_done signals under the lock; nobody may be waiting.
Done ==
    /\ pc = "walk" /\ todo = {} /\ cpc # "asking"
    /\ pc' = "idle" /\ doing' = "none"
    /\ woken' = (cpc = "waiting" \/ woken)
    /\ UNCHANGED <<rcu, task, todo, ref, sessVars, mapVars, cpc, old, grace, reqVars>>

-------------------------------------------------------------------------------
Ctrl ==
    \/ \E r \in Requests : Ask(r)
    \/ Post
    \/ Return
    \/ Switch
    \/ Synced
    \/ Send
    \/ Drained

Dp ==
    \/ \E s \in Sessions : Packet(s) \/ Expire(s)
    \/ Find
    \/ Store
    \/ Reported
    \/ ReleaseSession
    \/ Leave
    \/ Wake
    \/ Call
    \/ Walk
    \/ Done

Next == Ctrl \/ Dp

Spec == Init /\ [][Next]_vars

(***************************************************************************)
(* The control loop looks at the clock after every message, so it comes    *)
(* round to the connection maps however many requests arrive, and finishes *)
(* what it starts.  The data-plane thread finishes what it starts, and     *)
(* epoll_wait reports the eventfd however many packets arrive.             *)
(***************************************************************************)
Fairness ==
    /\ WF_vars(Post \/ Return \/ Synced \/ Send \/ Drained)
    /\ SF_vars(Switch)
    /\ WF_vars(pc # "idle" /\ Dp)
    /\ SF_vars(Wake)

FairSpec == Spec /\ Fairness

-------------------------------------------------------------------------------
TypeOK ==
    /\ live \subseteq Sessions /\ past \subseteq Sessions /\ live \cap past = {}
    /\ logged \subseteq Sessions /\ stored \subseteq Sessions
    /\ map \in [0..1 -> SUBSET Nodes] /\ cnt \in [0..1 -> 0..Cardinality(Nodes)]
    /\ cur \in 0..1 /\ old \in 0..1
    /\ \A n \in Nodes : conn[n] = None <=> n \notin map[0] \cup map[1]
    /\ count \in [Nodes -> [Sessions -> Nat]] /\ sent \in [Sessions -> Nat]
    /\ {req, arg} \subseteq Requests \cup {NoRequest}
    /\ {ev, woken, grace, rcu} \subseteq BOOLEAN
    /\ cpc \in {"idle", "asking", "waiting", "syncing", "draining"}
    /\ pc \in {"idle", "report", "store", "reported", "release", "leave", "call", "walk"}
    /\ todo \subseteq live

(***************************************************************************)
(* The node that a report is about to update has not been freed by the     *)
(* control thread meanwhile: "Hold the map pointer for RCU access"         *)
(* (dp_ctrl_connect_report, dp_ctrl_update_connects).                      *)
(***************************************************************************)
NoUseAfterFree == ref.node # None => ref.node \in map[ref.map]

(***************************************************************************)
(* A session is counted once in what is sent to the agent or still held,   *)
(* however its reports, the switch of maps and its end interleave: no      *)
(* count is lost or sent twice (count_session, START_LOGGED, the drain).   *)
(***************************************************************************)
CountedOnce ==
    \A s \in Sessions :
        LET held == FoldSet(LAMBDA n, a : a + count[n][s], 0, map[0] \cup map[1])
        IN  held + sent[s] = IF s \in stored THEN 1 ELSE 0


(***************************************************************************)
(* What entered a map is sent: the map whose count is zero is empty when   *)
(* dp_ctrl_update_connects passes it over.                                 *)
(***************************************************************************)
StoredIsSent == \A s \in Sessions : s \in stored ~> sent[s] > 0

(***************************************************************************)
(* A request is answered without the help of the time-out: no wake-up is   *)
(* lost between the eventfd, the word and the condition variable.          *)
(***************************************************************************)
RequestEnds == cpc = "waiting" ~> cpc = "idle"
================================================================================
