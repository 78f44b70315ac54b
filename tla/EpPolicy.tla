-------------------------------- MODULE EpPolicy --------------------------------
(***************************************************************************)
(* The endpoint map and the policy handles.  The control thread adds,      *)
(* replaces and deletes the endpoints of the monitored interfaces          *)
(* (dp/ctrl.c) and gives them new policy handles, one handle for all the   *)
(* endpoints of a workload (dp/dpi/dpi_policy.c).  The packet threads read *)
(* both without a lock, inside read sections: what the control thread has  *)
(* unlinked it may free only when the sections that were open have ended   *)
(* (synchronize_rcu).                                                      *)
(*                                                                         *)
(* A handle is named by its version: policy_ver does not wrap here.  An    *)
(* endpoint and the entries of its MAC addresses share one buffer; a       *)
(* buffer that was freed may be allocated again.                           *)
(***************************************************************************)
EXTENDS Integers, Sequences, FiniteSets

CONSTANTS
    Threads,    \* the packet threads
    Macs,       \* the MAC addresses of the endpoints
    UcMacs,     \* those of them whose interfaces may be inline: they have a unicast
                \* address too
    Bufs,       \* the buffers calloc may return, numbers: it returns the first free one
    MacLists,   \* the lists of MAC addresses of the policy messages
    MaxVer      \* a bound on the number of policy handles

VARIABLES
    map,    \* g_ep_map: the buffer of each original ("mac") and unicast ("uc") address
    ep,     \* the endpoint in each buffer
    hd,     \* the policy handles
    ver,    \* policy_ver, the last version given to a handle
    cfg,    \* the handle that dpi_policy_cfg is building
    ctl,    \* the control thread
    rd,     \* the packet threads
    sess    \* the policy version that decided the session of each thread and MAC

vars == <<map, ep, hd, ver, cfg, ctl, rd, sess>>

NoBuf == 0
NoHdl == 0
NoSess == -1
Handles == 1 .. MaxVer
Keys == Macs \X {"mac", "uc"}

FreeEp == [live |-> FALSE, mac |-> CHOOSE m \in Macs : TRUE, hdl |-> NoHdl, ver |-> 0]
FreeHdl == [live |-> FALSE, ref |-> 0]
Idle == [pc |-> "idle", mac |-> CHOOSE m \in Macs : TRUE, uc |-> FALSE, buf |-> NoBuf,
         new |-> NoBuf, old |-> NoHdl, todo |-> <<>>, waits |-> {}]
Outside == [pc |-> "out", buf |-> NoBuf, hdl |-> NoHdl, had |-> {}, by |-> NoHdl]

Readers == {t \in Threads : rd[t].pc # "out"}

-----------------------------------------------------------------------------
(* Endpoints.                                                              *)

\* A mutant of Unlinked: the entry of the unicast address stays in the map.
UnlinkedMacOnly(b) ==
    [k \in Keys |-> IF map[k] = b /\ k[2] = "mac" THEN NoBuf ELSE map[k]]

\* The removal of the entries of a buffer from the map.
Unlinked(b) == [k \in Keys |-> IF map[k] = b THEN NoBuf ELSE map[k]]

\* The insertion of the entries of a buffer.
Linked(m, uc, b) ==
    [k \in Keys |-> IF k = <<m, "mac">> \/ (uc /\ k = <<m, "uc">>) THEN b ELSE map[k]]

\* dpi_policy_hdl_destroy: the last reference frees the handle.
Destroy(h) ==
    [hd EXCEPT ![h] = IF @.ref > 1 THEN [@ EXCEPT !.ref = @ - 1] ELSE FreeHdl]

Calloc(b) == ~ep[b].live /\ \A c \in Bufs : c < b => ep[c].live

\* dp_ctrl_add_mac for an endpoint that is not in the map.  It has no policy
\* yet.
AddNew(m, uc, om) ==
    /\ ctl.pc = "idle"
    /\ map[<<om, "mac">>] = NoBuf /\ map[<<m, "mac">>] = NoBuf
    /\ uc => m \in UcMacs
    /\ \E b \in Bufs :
         /\ Calloc(b)
         /\ ep' = [ep EXCEPT ![b] = [live |-> TRUE, mac |-> m, hdl |-> NoHdl, ver |-> 0]]
         /\ map' = Linked(m, uc, b)
    /\ UNCHANGED <<hd, ver, cfg, ctl, rd, sess>>

\* dp_ctrl_add_mac for one that is, under the same or an earlier address: the
\* new buffer takes the policy over and the old one leaves the map.
AddUnlink(m, uc, om) ==
    LET b0 == map[<<om, "mac">>]
    IN  /\ ctl.pc = "idle"
        /\ b0 # NoBuf
        /\ om = m \/ map[<<m, "mac">>] = NoBuf
        /\ uc => m \in UcMacs
        /\ \E b \in Bufs :
             /\ Calloc(b)
             /\ ep' = [ep EXCEPT ![b] = [ep[b0] EXCEPT !.mac = m]]
             /\ ctl' = [ctl EXCEPT !.pc = "link", !.mac = m, !.uc = uc, !.buf = b0, !.new = b]
        /\ map' = Unlinked(b0)
        /\ UNCHANGED <<hd, ver, cfg, rd, sess>>

AddLink ==
    /\ ctl.pc = "link"
    /\ map' = Linked(ctl.mac, ctl.uc, ctl.new)
    /\ ctl' = [ctl EXCEPT !.pc = "replaced", !.waits = Readers]
    /\ UNCHANGED <<ep, hd, ver, cfg, rd, sess>>

\* A mutant: the old endpoint keeps its pointer to the policy handle.
AddFreeDestroys ==
    /\ ctl.pc = "replaced" /\ ctl.waits = {}
    /\ hd' = IF ep[ctl.buf].hdl = NoHdl THEN hd ELSE Destroy(ep[ctl.buf].hdl)
    /\ ep' = [ep EXCEPT ![ctl.buf] = FreeEp]
    /\ ctl' = Idle
    /\ UNCHANGED <<map, ver, cfg, rd, sess>>

\* The old endpoint gives up its pointers, so that ep_destroy leaves the
\* handle alone, and its buffer is freed.
AddFree ==
    /\ ctl.pc = "replaced" /\ ctl.waits = {}
    /\ ep' = [ep EXCEPT ![ctl.buf] = FreeEp]
    /\ ctl' = Idle
    /\ UNCHANGED <<map, hd, ver, cfg, rd, sess>>

\* dp_ctrl_del_mac.
DelUnlink(m) ==
    LET b == map[<<m, "mac">>]
    IN  /\ ctl.pc = "idle"
        /\ b # NoBuf
        /\ map' = Unlinked(b)
        /\ ctl' = [ctl EXCEPT !.pc = "deleted", !.mac = m, !.buf = b, !.waits = Readers]
        /\ UNCHANGED <<ep, hd, ver, cfg, rd, sess>>

\* ep_destroy: the handle goes with the last endpoint that has it.
DelFree ==
    /\ ctl.pc = "deleted" /\ ctl.waits = {}
    /\ hd' = IF ep[ctl.buf].hdl = NoHdl THEN hd ELSE Destroy(ep[ctl.buf].hdl)
    /\ ep' = [ep EXCEPT ![ctl.buf] = FreeEp]
    /\ ctl' = [ctl EXCEPT !.pc = "sessions", !.buf = NoBuf, !.waits = Threads]
    /\ UNCHANGED <<map, ver, cfg, rd, sess>>

\* dp_dpi_del_mac: each packet thread, between two packets, ends the sessions
\* of the endpoint.
DelSessions(t) ==
    /\ ctl.pc = "sessions" /\ t \in ctl.waits
    /\ rd[t].pc = "out"
    /\ sess' = [sess EXCEPT ![t][ctl.mac] = NoSess]
    /\ ctl' = IF ctl.waits = {t} THEN Idle ELSE [ctl EXCEPT !.waits = @ \ {t}]
    /\ UNCHANGED <<map, ep, hd, ver, cfg, rd>>

-----------------------------------------------------------------------------
(* Policy.                                                                 *)

\* dpi_policy_cfg up to the endpoints' update.  A configuration may come in
\* several messages: the first starts a handle, the last ends it.  A message
\* without a start, when no handle is being built, is refused.
CfgMsg(start, delete, end, macs) ==
    LET kept == IF cfg # NoHdl /\ (start \/ delete) THEN Destroy(cfg) ELSE hd
    IN  /\ ctl.pc = "idle"
        /\ start \/ cfg # NoHdl
        /\ IF start /\ ~delete
           THEN /\ ver < MaxVer
                /\ ver' = ver + 1
                /\ cfg' = ver + 1
                /\ hd' = [kept EXCEPT ![ver + 1] = [live |-> TRUE, ref |-> 0]]
           ELSE /\ cfg' = IF delete THEN NoHdl ELSE cfg
                /\ hd' = kept
                /\ UNCHANGED ver
        /\ ctl' = IF end THEN [ctl EXCEPT !.pc = "update", !.todo = macs] ELSE ctl
        /\ UNCHANGED <<map, ep, rd, sess>>

\* A mutant: the update does not get past an address without an endpoint.
UpdateHdlRetries ==
    LET b == map[<<Head(ctl.todo), "mac">>]
    IN  /\ ctl.pc = "update" /\ ctl.todo # <<>>
        /\ IF b = NoBuf
           THEN UNCHANGED <<ctl, hd, ep>>
           ELSE /\ hd' = IF cfg = NoHdl THEN hd ELSE [hd EXCEPT ![cfg].ref = @ + 1]
                /\ ep' = [ep EXCEPT ![b].hdl = cfg]
                /\ ctl' = [ctl EXCEPT !.pc = "version", !.buf = b, !.old = ep[b].hdl]
        /\ UNCHANGED <<map, ver, cfg, rd, sess>>

\* dpi_policy_update for the next address: the endpoint's handle is replaced.
UpdateHdl ==
    LET b == map[<<Head(ctl.todo), "mac">>]
    IN  /\ ctl.pc = "update" /\ ctl.todo # <<>>
        /\ IF b = NoBuf
           THEN /\ ctl' = [ctl EXCEPT !.todo = Tail(@)]
                /\ UNCHANGED <<hd, ep>>
           ELSE /\ hd' = IF cfg = NoHdl THEN hd ELSE [hd EXCEPT ![cfg].ref = @ + 1]
                /\ ep' = [ep EXCEPT ![b].hdl = cfg]
                /\ ctl' = [ctl EXCEPT !.pc = "version", !.buf = b, !.old = ep[b].hdl]
        /\ UNCHANGED <<map, ver, cfg, rd, sess>>

\* The control thread goes on with the next address.
NextMac == [Idle EXCEPT !.pc = "update", !.todo = Tail(ctl.todo)]

\* A mutant: the old handle is destroyed at once.
UpdateVerAtOnce ==
    /\ ctl.pc = "version"
    /\ ep' = [ep EXCEPT ![ctl.buf].ver = cfg]
    /\ hd' = IF ctl.old # NoHdl THEN Destroy(ctl.old) ELSE hd
    /\ ctl' = NextMac
    /\ UNCHANGED <<map, ver, cfg, rd, sess>>

\* A mutant: the endpoint keeps the version of the old handle.
UpdateVerKept ==
    /\ ctl.pc = "version"
    /\ IF ctl.old # NoHdl /\ hd[ctl.old].ref < 2
       THEN /\ ctl' = [ctl EXCEPT !.pc = "unused", !.waits = Readers]
            /\ UNCHANGED hd
       ELSE /\ ctl' = NextMac
            /\ hd' = IF ctl.old # NoHdl THEN Destroy(ctl.old) ELSE hd
    /\ UNCHANGED <<map, ep, ver, cfg, rd, sess>>

\* The endpoint's version follows its handle.  The old handle loses a
\* reference; if it was the last one the control thread waits for the readers.
UpdateVer ==
    /\ ctl.pc = "version"
    /\ ep' = [ep EXCEPT ![ctl.buf].ver = cfg]
    /\ IF ctl.old # NoHdl /\ hd[ctl.old].ref < 2
       THEN /\ ctl' = [ctl EXCEPT !.pc = "unused", !.waits = Readers]
            /\ UNCHANGED hd
       ELSE /\ ctl' = NextMac
            /\ hd' = IF ctl.old # NoHdl THEN Destroy(ctl.old) ELSE hd
    /\ UNCHANGED <<map, ver, cfg, rd, sess>>

UpdateFree ==
    /\ ctl.pc = "unused" /\ ctl.waits = {}
    /\ hd' = Destroy(ctl.old)
    /\ ctl' = NextMac
    /\ UNCHANGED <<map, ep, ver, cfg, rd, sess>>

\* The end of dpi_policy_cfg: a handle that no endpoint took is freed.
CfgEnd ==
    /\ ctl.pc = "update" /\ ctl.todo = <<>>
    /\ hd' = IF cfg # NoHdl /\ hd[cfg].ref = 0 THEN Destroy(cfg) ELSE hd
    /\ cfg' = NoHdl
    /\ ctl' = Idle
    /\ UNCHANGED <<map, ep, ver, rd, sess>>

-----------------------------------------------------------------------------
(* Packets.                                                                *)

\* The policies by which an endpoint may decide now: its handle and, until
\* its version is written too, the handle before.
Current(b) ==
    {ep[b].hdl} \cup IF ctl.pc = "version" /\ ctl.buf = b THEN {ctl.old} ELSE {}

\* dpi_recv_packet opens a read section and looks the endpoint up.  A packet
\* of an unknown address leaves at once.  The timers' section is of this kind
\* too: dpi_sess_policy_reeval looks the endpoint of the session up.
Enter(t, k) ==
    /\ rd[t].pc = "out"
    /\ map[k] # NoBuf
    /\ rd' = [rd EXCEPT ![t] = [Outside EXCEPT !.pc = "in", !.buf = map[k],
                                               !.had = Current(map[k])]]
    /\ UNCHANGED <<map, ep, hd, ver, cfg, ctl, sess>>

\* dpi_policy_reeval and dpi_session_create read the handle first.
ReadHdl(t) ==
    /\ rd[t].pc = "in"
    /\ rd' = [rd EXCEPT ![t].pc = "read", ![t].hdl = ep[rd[t].buf].hdl,
                        ![t].had = @ \cup Current(rd[t].buf)]
    /\ UNCHANGED <<map, ep, hd, ver, cfg, ctl, sess>>

\* Then they decide: a new session by the handle, and so one that was decided
\* by another version; the other sessions keep their decision.  A new session
\* that is denied is not kept.  Sessions without POLICY_DESC_CHECK_VER, which
\* are exempt from the policy, are left out.
Decide(t) ==
    LET m  == ep[rd[t].buf].mac
        v  == sess[t][m]
        by == IF v = NoSess \/ v # ep[rd[t].buf].ver THEN rd[t].hdl ELSE v
    IN  /\ rd[t].pc = "read"
        /\ rd' = [rd EXCEPT ![t].pc = "done", ![t].by = by,
                            ![t].had = @ \cup Current(rd[t].buf)]
        /\ \/ sess' = [sess EXCEPT ![t][m] = by]
           \/ v = NoSess /\ UNCHANGED sess
        /\ UNCHANGED <<map, ep, hd, ver, cfg, ctl>>

\* The end of the read section.
Leave(t) ==
    /\ rd[t].pc = "done"
    /\ rd' = [rd EXCEPT ![t] = Outside]
    /\ ctl' = IF ctl.pc = "sessions" THEN ctl ELSE [ctl EXCEPT !.waits = @ \ {t}]
    /\ UNCHANGED <<map, ep, hd, ver, cfg, sess>>

-----------------------------------------------------------------------------
Init ==
    /\ map = [k \in Keys |-> NoBuf]
    /\ ep = [b \in Bufs |-> FreeEp]
    /\ hd = [h \in Handles |-> FreeHdl]
    /\ ver = 0 /\ cfg = NoHdl
    /\ ctl = Idle
    /\ rd = [t \in Threads |-> Outside]
    /\ sess = [t \in Threads |-> [m \in Macs |-> NoSess]]

\* The messages the control thread takes up when it is idle.
Message ==
    \/ \E m, om \in Macs, uc \in BOOLEAN : AddNew(m, uc, om) \/ AddUnlink(m, uc, om)
    \/ \E m \in Macs : DelUnlink(m)
    \/ \E start, delete, end \in BOOLEAN, macs \in MacLists : CfgMsg(start, delete, end, macs)

\* The rest of a handler.
Handler ==
    \/ AddLink \/ AddFree \/ DelFree
    \/ \E t \in Threads : DelSessions(t)
    \/ UpdateHdl \/ UpdateVer \/ UpdateFree \/ CfgEnd

\* The rest of a read section.
Section(t) == ReadHdl(t) \/ Decide(t) \/ Leave(t)

Next ==
    \/ Message
    \/ Handler
    \/ \E t \in Threads, k \in Keys : Enter(t, k)
    \/ \E t \in Threads : Section(t)

\* The threads run, and the inspection of a packet ends; a thread serves the
\* control thread's requests between two packets, however many there are.
Fairness ==
    /\ WF_vars(Handler)
    /\ \A t \in Threads : WF_vars(Section(t)) /\ SF_vars(DelSessions(t))

Spec == Init /\ [][Next]_vars
FairSpec == Spec /\ Fairness

-----------------------------------------------------------------------------
\* The shape of the state: references are counted from 0 and never past the
\* number of endpoints.
TypeOK ==
    /\ map \in [Keys -> Bufs \cup {NoBuf}]
    /\ ep \in [Bufs -> [live : BOOLEAN, mac : Macs, hdl : 0 .. MaxVer, ver : 0 .. MaxVer]]
    /\ hd \in [Handles -> [live : BOOLEAN, ref : 0 .. Cardinality(Bufs)]]
    /\ ver \in 0 .. MaxVer /\ cfg \in 0 .. MaxVer
    /\ \A t \in Threads : rd[t].pc \in {"out", "in", "read", "done"}
    /\ \A t \in Threads : \A m \in Macs : sess[t][m] \in -1 .. MaxVer

\* A packet thread never has a freed endpoint or policy handle in its hands,
\* although the control thread does not wait for it when a handle has other
\* endpoints left (dpi_policy_update, ref_cnt < 2) nor when it hands a policy
\* from an old endpoint to a new one.
NoFreedUse ==
    \A t \in Readers :
        /\ ep[rd[t].buf].live
        /\ rd[t].pc # "in" /\ rd[t].hdl # NoHdl => hd[rd[t].hdl].live

\* Between two messages the count of a handle is the number of endpoints that
\* have it, and only those and the one under construction exist: no handle
\* leaks, none is freed early.
HandlesAccounted ==
    ctl.pc = "idle" =>
        \A h \in Handles :
            LET n == Cardinality({b \in Bufs : ep[b].live /\ ep[b].hdl = h})
            IN  hd[h].ref = n /\ (hd[h].live <=> n > 0 \/ cfg = h)

\* Between two messages the buffers in use are those the map leads to, and
\* each address leads to the endpoint it is an address of: after additions,
\* replacements and deletions (dp_ctrl_add_mac, dp_ctrl_del_mac) no buffer is
\* lost and no entry of the map outlives its buffer.
EndpointsAccounted ==
    ctl.pc = "idle" =>
        /\ {b \in Bufs : ep[b].live} = {map[<<m, "mac">>] : m \in Macs} \ {NoBuf}
        /\ \A k \in Keys : map[k] # NoBuf => /\ ep[map[k]].mac = k[1]
                                             /\ map[<<k[1], "mac">>] = map[k]

\* A packet is decided by a policy that its endpoint had while the packet was
\* being inspected, although handle and version are written and read one
\* after the other and sessions keep decisions: after an update has returned,
\* no packet that arrives is decided by the old policy.
PacketByCurrentPolicy ==
    \A t \in Threads : rd[t].pc = "done" => rd[t].by \in rd[t].had

\* The control thread returns from every message, whatever the traffic and
\* whichever of the addresses of dpi_policy_update are known.
ControlReturns == ctl.pc # "idle" ~> ctl.pc = "idle"
================================================================================
