------------------------------- MODULE Monitor -------------------------------
(***************************************************************************)
(* The supervisor (monitor/monitor.c).  It forks the controller, the data  *)
(* plane and the agent, restarts the ones that exit together with what     *)
(* depends on them, kills a data plane whose heartbeat stops, and stops    *)
(* them all when it is told to exit.  One thread; its signal handlers run  *)
(* between any two of its steps.  The children are the environment.        *)
(***************************************************************************)
EXTENDS Integers, Sequences, FiniteSets

CONSTANTS
    Mode,       \* g_mode
    OnDemand,   \* g_exit_monitor_on_proc_exit
    Pids,       \* a pid that is recorded or in use is not given to a new process
    MissMax,    \* DP_MISS_HB_MAX
    MaxFaults,  \* how many times a child exits by itself or hangs, or fork fails
    Quick,      \* a child may exit before start_proc has recorded it
    OpSignals,  \* signals 40 and 41 are sent
    ExitSignal  \* SIGTERM, SIGBUS, SIGINT or SIGQUIT is sent

None == 0

Order == <<"ctrl", "scanner", "dp", "agent", "standalone">>

Procs == {Order[n] : n \in DOMAIN Order}

ASSUME MonitorAssumption ==
    /\ Mode \in {"ctrl", "agent", "ctrl_agent", "scanner"}
    /\ None \notin Pids
    /\ {MissMax, MaxFaults} \subseteq Nat
    /\ {OnDemand, Quick, OpSignals, ExitSignal} \subseteq BOOLEAN

VARIABLES
    pc, n,                          \* where the main thread is; the index of its scan
    active, running, pid, status,   \* g_procs
    forked,                         \* the pid fork returned, not yet recorded
    todo,                           \* the stop_proc calls exit_monitor has yet to make
    gexit,                          \* g_exit_signal
    miss,                           \* g_dp_miss_hb
    kid,                            \* the processes: their state, what they run, SIGTERM received
    chld, dfl,                      \* SIGCHLD is pending; its action is SIG_DFL
    up, beat,                       \* dp_active; dp_hb differs from g_dp_last_hb
    faults

main == <<pc, n, active, running, pid, status, forked, todo, gexit, miss>>
env  == <<kid, chld, up, beat, faults>>
vars == <<pc, n, active, running, pid, status, forked, todo, gexit, miss, kid, chld, dfl, up, beat, faults>>

Started == CASE Mode = "ctrl"       -> {"ctrl"}
             [] Mode = "agent"      -> {"dp", "agent"}
             [] Mode = "ctrl_agent" -> {"ctrl", "dp", "agent"}
             [] Mode = "scanner"    -> {"standalone"}

Free == [st |-> "free", of |-> "dp", term |-> FALSE, rc |-> "ok"]

Init ==
    /\ pc = "top" /\ n = 1
    /\ active = [p \in Procs |-> p \in Started]
    /\ running = [p \in Procs |-> FALSE]
    /\ pid = [p \in Procs |-> None]
    /\ status = [p \in Procs |-> "ok"]
    /\ forked = None /\ todo = <<>> /\ gexit = FALSE /\ miss = 0
    /\ kid = [q \in Pids |-> Free]
    /\ chld = FALSE /\ dfl = FALSE /\ up = FALSE /\ beat = FALSE /\ faults = 0

Alive(q) == kid[q].st \in {"run", "hung"}

-------------------------------------------------------------------------------
(***************************************************************************)
(* kill: SIGTERM is remembered by a process that is alive, SIGSEGV ends    *)
(* it.  A pid that was reaped names nobody.                                *)
(***************************************************************************)
Term(k, q) == IF q \in Pids /\ k[q].st \in {"run", "hung"} THEN [k EXCEPT ![q].term = TRUE] ELSE k

\* As below, and the agent goes on without its controller.
StopRelatedSparesAgent(k, p) ==
    CASE p = "agent" -> Term(k, pid["dp"])
      [] p = "ctrl"  -> Term(k, pid["scanner"])
      [] OTHER       -> k

\* stop_related_proc; wait_consul_exist takes time and changes nothing here.
StopRelated(k, p) ==
    CASE p = "agent" -> Term(k, pid["dp"])
      [] p = "ctrl"  -> Term(IF Mode = "ctrl_agent" THEN Term(k, pid["agent"]) ELSE k, pid["scanner"])
      [] OTHER       -> k

ExitCalls ==
    CASE Mode = "ctrl"       -> <<[proc |-> "ctrl", wait |-> TRUE]>>
      [] Mode = "agent"      -> <<[proc |-> "agent", wait |-> TRUE], [proc |-> "dp", wait |-> FALSE]>>
      [] Mode = "ctrl_agent" -> <<[proc |-> "agent", wait |-> TRUE], [proc |-> "dp", wait |-> FALSE],
                                  [proc |-> "ctrl", wait |-> TRUE]>>
      [] Mode = "scanner"    -> <<[proc |-> "standalone", wait |-> FALSE]>>

\* As below, with proc_exit_handler left in place.
BeginExitKeepsHandler ==
    /\ pc' = "exit"
    /\ todo' = ExitCalls
    /\ active' = [p \in Procs |-> FALSE]
    /\ UNCHANGED dfl

\* exit_monitor up to its first stop_proc.
BeginExit ==
    /\ pc' = "exit"
    /\ todo' = ExitCalls
    /\ active' = [p \in Procs |-> FALSE]
    /\ dfl' = TRUE

Top ==
    /\ pc = "top"
    /\ \/ gexit /\ BeginExit /\ UNCHANGED n
       \/ ~gexit /\ pc' = "scan" /\ n' = 1 /\ UNCHANGED <<active, todo, dfl>>
    /\ UNCHANGED <<running, pid, status, forked, gexit, miss>> /\ UNCHANGED env

Proc == Order[n]

Advance == IF n = Len(Order) THEN pc' = "select" /\ n' = n ELSE pc' = "scan" /\ n' = n + 1

\* A process that should run and does not: the one before it exited, or there was none.
ScanExited ==
    /\ pc = "scan" /\ active[Proc] /\ ~running[Proc] /\ pid[Proc] # None
    /\ pid' = [pid EXCEPT ![Proc] = None]
    /\ IF OnDemand \/ status[Proc] = "fatal"
       THEN BeginExit /\ UNCHANGED <<status, kid>>
       ELSE /\ pc' = "fork"
            /\ status' = [status EXCEPT ![Proc] = "ok"]
            /\ kid' = StopRelated(kid, Proc)
            /\ UNCHANGED <<active, todo, dfl>>
    /\ UNCHANGED <<n, running, forked, gexit, miss, chld, up, beat, faults>>

ScanStart ==
    /\ pc = "scan" /\ active[Proc] /\ ~running[Proc] /\ pid[Proc] = None
    /\ pc' = "fork"
    /\ UNCHANGED <<n, active, running, pid, status, forked, todo, gexit, miss, dfl>> /\ UNCHANGED env

\* As below, without the wait.
ScanStopNoWait ==
    /\ pc = "scan" /\ ~active[Proc] /\ pid[Proc] # None
    /\ kid' = Term(kid, pid[Proc])
    /\ pid' = [pid EXCEPT ![Proc] = None]
    /\ running' = [running EXCEPT ![Proc] = FALSE]
    /\ Advance
    /\ UNCHANGED <<active, status, forked, todo, gexit, miss, chld, dfl, up, beat, faults>>

ScanStop ==
    /\ pc = "scan" /\ ~active[Proc] /\ pid[Proc] # None
    /\ kid' = Term(kid, pid[Proc])
    /\ pc' = "wait"
    /\ UNCHANGED <<n, active, running, pid, status, forked, todo, gexit, miss, chld, dfl, up, beat, faults>>

ScanOther ==
    /\ pc = "scan"
    /\ IF active[Proc] THEN running[Proc] ELSE pid[Proc] = None
    /\ Advance
    /\ UNCHANGED <<active, running, pid, status, forked, todo, gexit, miss, dfl>> /\ UNCHANGED env

(***************************************************************************)
(* start_proc: fork, and what follows it.  Signals arrive in between.      *)
(***************************************************************************)
Fork ==
    /\ pc = "fork"
    /\ \E q \in Pids :
          /\ kid[q].st = "free" /\ \A p \in Procs : pid[p] # q
          /\ kid' = [kid EXCEPT ![q] = [Free EXCEPT !.st = "run", !.of = Proc]]
          /\ forked' = q
    /\ pc' = "record"
    /\ UNCHANGED <<n, active, running, pid, status, todo, gexit, miss, chld, dfl, up, beat, faults>>

ForkFails ==
    /\ pc = "fork" /\ faults < MaxFaults
    /\ faults' = faults + 1
    /\ Advance
    /\ UNCHANGED <<active, running, pid, status, forked, todo, gexit, miss, kid, chld, dfl, up, beat>>

Record ==
    /\ pc = "record"
    /\ pid' = [pid EXCEPT ![Proc] = forked]
    /\ running' = [running EXCEPT ![Proc] = TRUE]
    /\ forked' = None
    /\ Advance
    /\ UNCHANGED <<active, status, todo, gexit, miss, dfl>> /\ UNCHANGED env

(***************************************************************************)
(* The loop of stop_proc: waitpid takes any child that exited.             *)
(***************************************************************************)
Stopping == IF todo = <<>> THEN Proc ELSE Head(todo).proc

WaitReap(q) ==
    /\ pc = "wait" /\ kid[q].st = "zombie"
    /\ kid' = [kid EXCEPT ![q] = Free]
    /\ IF q = pid[Stopping]
       THEN /\ running' = [running EXCEPT ![Stopping] = FALSE]
            /\ pid' = [pid EXCEPT ![Stopping] = None]
            /\ IF todo = <<>> THEN Advance /\ UNCHANGED todo
               ELSE pc' = "exit" /\ todo' = Tail(todo) /\ UNCHANGED n
       ELSE UNCHANGED <<pc, n, running, pid, todo>>
    /\ UNCHANGED <<active, status, forked, gexit, miss, chld, dfl, up, beat, faults>>

\* The stop_proc calls of exit_monitor, and its end.
Exit ==
    /\ pc = "exit"
    /\ IF todo = <<>> THEN pc' = "done" /\ UNCHANGED <<todo, kid>>
       ELSE /\ kid' = Term(kid, pid[Head(todo).proc])
            /\ IF Head(todo).wait /\ pid[Head(todo).proc] # None
               THEN pc' = "wait" /\ UNCHANGED todo
               ELSE pc' = pc /\ todo' = Tail(todo)
    /\ UNCHANGED <<n, active, running, pid, status, forked, gexit, miss, chld, dfl, up, beat, faults>>

(***************************************************************************)
(* select times out after a second, and the heartbeat is checked.          *)
(***************************************************************************)
\* As below, with SIGTERM, which a thread that hangs does not see.
CheckHeartbeatTerm ==
    IF ~active["dp"] \/ ~up THEN UNCHANGED <<miss, kid, chld, beat>>
    ELSE IF beat THEN miss' = 0 /\ beat' = FALSE /\ UNCHANGED <<kid, chld>>
    ELSE IF miss < MissMax THEN miss' = miss + 1 /\ UNCHANGED <<kid, chld, beat>>
    ELSE miss' = 0 /\ kid' = Term(kid, pid["dp"]) /\ UNCHANGED <<beat, chld>>

CheckHeartbeat ==
    IF ~active["dp"] \/ ~up THEN UNCHANGED <<miss, kid, chld, beat>>
    ELSE IF beat THEN miss' = 0 /\ beat' = FALSE /\ UNCHANGED <<kid, chld>>
    ELSE IF miss < MissMax THEN miss' = miss + 1 /\ UNCHANGED <<kid, chld, beat>>
    ELSE /\ miss' = 0 /\ UNCHANGED beat
         /\ IF pid["dp"] \in Pids /\ Alive(pid["dp"])
            THEN kid' = [kid EXCEPT ![pid["dp"]].st = "zombie"] /\ chld' = TRUE
            ELSE UNCHANGED <<kid, chld>>

SelectTimeout ==
    /\ pc = "select"
    /\ CheckHeartbeat
    /\ pc' = "top"
    /\ UNCHANGED <<n, active, running, pid, status, forked, todo, gexit, dfl, up, faults>>

MainStep ==
    \/ Top \/ ScanExited \/ ScanStart \/ ScanStop \/ ScanOther \/ Fork \/ Record
    \/ (\E q \in Pids : WaitReap(q)) \/ Exit \/ SelectTimeout

-------------------------------------------------------------------------------
(***************************************************************************)
(* Signal handlers.  One that runs during select makes it return -1, and   *)
(* the heartbeat is not checked.                                           *)
(***************************************************************************)
Interrupt == pc' = IF pc = "select" THEN "top" ELSE pc

Reap(Z) ==
    LET Gone(p) == pid[p] \in Z
    IN  /\ kid' = [q \in Pids |-> IF q \in Z THEN Free ELSE kid[q]]
        /\ running' = [p \in Procs |-> running[p] /\ ~Gone(p)]
        /\ status' = [p \in Procs |-> IF Gone(p) THEN kid[pid[p]].rc ELSE status[p]]

Zombies == {q \in Pids : kid[q].st = "zombie"}


ProcExitHandler ==
    /\ chld /\ ~dfl /\ pc # "done"
    /\ chld' = FALSE
    /\ Reap(Zombies)
    /\ Interrupt
    /\ UNCHANGED <<n, active, pid, forked, todo, gexit, miss, dfl, up, beat, faults>>

ExitHandler ==
    /\ ExitSignal /\ ~gexit /\ pc # "done"
    /\ gexit' = TRUE
    /\ Interrupt
    /\ UNCHANGED <<n, active, running, pid, status, forked, todo, miss, dfl>> /\ UNCHANGED env

DpStopStartHandler ==
    /\ OpSignals /\ pc # "done"
    /\ \E b \in BOOLEAN : active' = [active EXCEPT !["dp"] = b]
    /\ Interrupt
    /\ UNCHANGED <<n, running, pid, status, forked, todo, gexit, miss, dfl>> /\ UNCHANGED env

-------------------------------------------------------------------------------
(***************************************************************************)
(* The children.  A process that hangs does not answer SIGTERM.            *)
(***************************************************************************)
Ended(q, rc) ==
    /\ kid' = [kid EXCEPT ![q].st = "zombie", ![q].rc = rc]
    /\ chld' = TRUE
    /\ UNCHANGED <<up, beat, dfl>> /\ UNCHANGED main

Terminates(q) == kid[q].st = "run" /\ kid[q].term /\ Ended(q, "ok") /\ UNCHANGED faults

Exits(q, rc) ==
    /\ kid[q].st = "run" /\ faults < MaxFaults
    /\ Quick \/ q # forked
    /\ faults' = faults + 1
    /\ Ended(q, rc)

Hangs(q) ==
    /\ kid[q].st = "run" /\ kid[q].of = "dp" /\ up /\ faults < MaxFaults
    /\ kid' = [kid EXCEPT ![q].st = "hung"]
    /\ faults' = faults + 1
    /\ UNCHANGED <<chld, dfl, up, beat>> /\ UNCHANGED main

Beats(q) ==
    /\ kid[q].st = "run" /\ kid[q].of = "dp"
    /\ up' = TRUE /\ beat' = TRUE
    /\ UNCHANGED <<kid, chld, dfl, faults>> /\ UNCHANGED main

Next ==
    \/ MainStep \/ ForkFails
    \/ ProcExitHandler \/ ExitHandler \/ DpStopStartHandler
    \/ \E q \in Pids : Terminates(q) \/ Hangs(q) \/ Beats(q) \/ \E rc \in {"ok", "fatal"} : Exits(q, rc)

Spec == Init /\ [][Next]_vars

(***************************************************************************)
(* The main thread is scheduled, a pending signal is delivered, and a      *)
(* process that does not hang obeys SIGTERM.                               *)
(***************************************************************************)
Fairness ==
    /\ WF_vars(MainStep)
    /\ WF_vars(ProcExitHandler)
    /\ \A q \in Pids : WF_vars(Terminates(q))

FairSpec == Spec /\ Fairness
-------------------------------------------------------------------------------
\* Type invariant: the process table, and the processes it stands for.
TypeOK ==
    /\ pc \in {"top", "scan", "fork", "record", "wait", "exit", "select", "done"}
    /\ n \in 1 .. Len(Order)
    /\ pid \in [Procs -> Pids \cup {None}]
    /\ running \in [Procs -> BOOLEAN] /\ active \in [Procs -> BOOLEAN]
    /\ status \in [Procs -> {"ok", "fatal"}]
    /\ kid \in [Pids -> [st : {"free", "run", "hung", "zombie"}, of : Procs, term : BOOLEAN,
                         rc : {"ok", "fatal"}]]
    /\ miss \in 0 .. MissMax
    /\ faults \in 0 .. MaxFaults

\* However exits, signals and restarts interleave, no two instances of a program run
\* at once (start_proc forks only when no pid is recorded).
OneInstance == \A a, b \in Pids : Alive(a) /\ Alive(b) /\ kid[a].of = kid[b].of => a = b


\* A data plane that hangs is killed (check_heartbeat), though it does not answer the
\* SIGTERM that the exit of the agent sends it.
HungDpKilled == \A q \in Pids : (kid[q].st = "hung") ~> (kid[q].st # "hung" \/ pc = "done")

CtrlExited == pid["ctrl"] # None /\ ~Alive(pid["ctrl"])

\* When the controller exits, the data plane is replaced by way of the agent: "dp will
\* be restarted when recovering agent" (stop_related_proc), unless the monitor ends.
DpRestartedWithAgent ==
    \A q \in Pids : (CtrlExited /\ pid["dp"] = q /\ Alive(q)) ~> (~Alive(q) \/ gexit \/ pc = "done")

\* A monitor that is told to exit does (exit_monitor stops its processes one by one),
\* when none of them has exited by itself.
ShutdownCompletes == (gexit /\ faults = 0) ~> (pc = "done" \/ faults > 0)

\* stop_proc sees the exit it waits for, also though "waitpid() can be called in signal
\* handler" (proc_exit_handler).
WaitEnds == (pc = "wait") ~> (pc # "wait")

===============================================================================
