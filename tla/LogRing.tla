-------------------------------- MODULE LogRing --------------------------------
(***************************************************************************)
(* The ring of threat logs between a data-plane thread, which writes, and  *)
(* the control thread, which reads, with no lock (dp/ctrl.c).  Each thread *)
(* sets its own index; the writer stops at the reader's index and the      *)
(* reader before the writer's.  A log refused changes nothing.              *)
(***************************************************************************)
EXTENDS Integers, Sequences

CONSTANTS
    Logs,   \* the contents of a log
    None,
    N       \* MAX_LOG_ENTRIES

ASSUME RingAssumption == N \in Nat /\ N > 1 /\ None \notin Logs

VARIABLES
    ring, writer, reader,   \* log_ring, log_writer, log_reader
    wpc, log,               \* the writer: at the check, or copying this log
    rpc                     \* the reader: at the check, past it, or sending

vars == <<ring, writer, reader, wpc, log, rpc>>

Slots == 0..(N - 1)

\* dp_ctrl_init_thread_data; log_writer is zero in static memory, and an entry
\* holds nothing yet.
Init ==
    /\ ring = [i \in Slots |-> None]
    /\ writer = 0 /\ reader = N - 1
    /\ wpc = "check" /\ log = None /\ rpc = "check"

Succ(i) == (i + 1) % N

-------------------------------------------------------------------------------
\* Mutated: the writer does not look for the reader.
BeginPastReader(l) ==
    /\ wpc = "check"
    /\ wpc' = "copy" /\ log' = l
    /\ ring' = [ring EXCEPT ![writer] = None]
    /\ UNCHANGED <<writer, reader, rpc>>

\* dp_ctrl_threat_log refuses the log if the ring is full, else starts to copy
\* it.  While it copies, the entry holds anything.
Begin(l) ==
    /\ wpc = "check" /\ writer # reader
    /\ wpc' = "copy" /\ log' = l
    /\ ring' = [ring EXCEPT ![writer] = None]
    /\ UNCHANGED <<writer, reader, rpc>>

\* Mutated: the index moves before the log is copied to the entry it names.
FinishIndexFirst ==
    /\ wpc = "copy"
    /\ ring' = [ring EXCEPT ![Succ(writer)] = log]
    /\ writer' = Succ(writer)
    /\ wpc' = "check" /\ log' = None
    /\ UNCHANGED <<reader, rpc>>

\* The log is copied and the writer's index moves.
Finish ==
    /\ wpc = "copy"
    /\ ring' = [ring EXCEPT ![writer] = log]
    /\ writer' = Succ(writer)
    /\ wpc' = "check" /\ log' = None
    /\ UNCHANGED <<reader, rpc>>

-------------------------------------------------------------------------------
\* Mutated: the reader leaves the last log in the ring.
CheckLeavesLast ==
    /\ rpc = "check" /\ Succ(reader) # writer /\ Succ(Succ(reader)) # writer
    /\ rpc' = "checked"
    /\ UNCHANGED <<ring, writer, reader, wpc, log>>

\* dp_ctrl_consume_threat_log stops at the writer's index.
Check ==
    /\ rpc = "check" /\ Succ(reader) # writer
    /\ rpc' = "checked"
    /\ UNCHANGED <<ring, writer, reader, wpc, log>>

\* The reader's index moves to the entry.
Move ==
    /\ rpc = "checked"
    /\ reader' = Succ(reader) /\ rpc' = "send"
    /\ UNCHANGED <<ring, writer, wpc, log>>

\* The entry has been sent.
Send ==
    /\ rpc = "send"
    /\ rpc' = "check"
    /\ UNCHANGED <<ring, writer, reader, wpc, log>>

-------------------------------------------------------------------------------
Next ==
    \/ \E l \in Logs : Begin(l)
    \/ Finish
    \/ Check
    \/ Move
    \/ Send

Spec == Init /\ [][Next]_vars

\* The control loop comes back to the ring every two seconds.
FairSpec == Spec /\ WF_vars(Check) /\ WF_vars(Move) /\ WF_vars(Send)

-------------------------------------------------------------------------------
TypeOK ==
    /\ ring \in [Slots -> Logs \cup {None}]
    /\ writer \in Slots /\ reader \in Slots
    /\ wpc \in {"check", "copy"} /\ rpc \in {"check", "checked", "send"}
    /\ IF wpc = "copy" THEN log \in Logs ELSE log = None

(***************************************************************************)
(* The writer never copies into the entry that the reader sends or is      *)
(* about to take: the two indexes are read by the other thread while they  *)
(* change (dp_ctrl_threat_log, dp_ctrl_consume_threat_log).                *)
(***************************************************************************)
EntryIsNotShared ==
    /\ wpc = "copy" => writer # reader
    /\ rpc = "checked" => Succ(reader) # writer

\* The entries after the reader's and before the writer's, in order.
Unread == [i \in 1..((writer - reader - 1 + N) % N) |-> ring[(reader + i) % N]]

Queue == INSTANCE LogQueue WITH
    q <- Unread,
    hand <- IF rpc = "send" THEN ring[reader] ELSE None,
    Capacity <- N - 1

(***************************************************************************)
(* The ring is a queue: logs are sent in the order they were accepted,     *)
(* each once and whole (dp_ctrl_threat_log, dp_ctrl_consume_threat_log).   *)
(***************************************************************************)
ImplementsQueue == Queue!Spec

(***************************************************************************)
(* While logs wait, one is sent: with the order, every accepted log is     *)
(* sent (the loop of dp_ctrl_consume_threat_log ends only at the writer's  *)
(* index).                                                                 *)
(***************************************************************************)
LogsAreSent == Unread # <<>> ~> rpc = "send"
================================================================================
