------------------------------ MODULE DpiSession ------------------------------
(***************************************************************************)
(* The session table of a data-plane thread and the inspection of packets  *)
(* (dp/dpi/dpi_entry.c, dpi_packet.c, dpi_session.c).                      *)
(*                                                                         *)
(* A packet goes through the operators below in the order of               *)
(* dpi_inspect_ethernet: the tracker of its protocol finds or creates the  *)
(* session, the session's action is copied to the packet, the parsers and  *)
(* the policy look at it, the DLP/WAF detector matches it, what is not yet *)
(* parsed is cached, and the packet's action becomes the session's.  They  *)
(* all work on one record x:                                               *)
(*   x.w       the session              x.att     p->session is not NULL   *)
(*   x.action  the packet's action      x.new     created by this packet   *)
(*   x.skip, x.cached   the packet's SKIP_PARSER and CACHED flags          *)
(*   x.n       sessions created less sessions released                     *)
(*                                                                         *)
(* The control thread swaps the policy and switches an endpoint between    *)
(* monitor (tap) and inline mode at any time; a packet is therefore two    *)
(* steps, because dpi_recv_packet reads ep->tap once for the decision to   *)
(* forward and everything below it reads ep->tap again.                    *)
(***************************************************************************)
EXTENDS TcpTracker, FiniteSets

CONSTANTS
    Flows,          \* the 5-tuples that are seen
    Proto,          \* their protocols: a function to {"tcp", "udp", "icmp", "ip"}
    Packets,        \* the packets that may arrive, a set of records
    Rules,          \* what a policy may say of a flow: records [base, app]
    MaxPolicyVer,   \* bound on the number of policy updates
    TapModes,       \* the modes an endpoint is switched between: a set of Booleans
    SpillModes      \* the modes in which a reassembly cache overruns

Protocols == {"tcp", "udp", "icmp", "ip"}

PolicyActions == {"open", "check_app", "violate", "deny"}

ASSUME SessionAssumption ==
    /\ Proto \in [Flows -> Protocols]
    /\ Rules \subseteq [base : PolicyActions, app : PolicyActions \ {"check_app"}]
    /\ MaxPolicyVer \in Nat
    /\ TapModes \subseteq BOOLEAN /\ TapModes # {}
    /\ SpillModes \subseteq BOOLEAN

VARIABLES
    sess,       \* [Flows -> session records]: th_session4_map
    total,      \* th_counter.cur_sess
    count,      \* th_counter.cur_*_sess, per protocol
    tap,        \* ep->tap
    rule,       \* the rule of ep->policy_hdl that each flow meets
    ver,        \* ep->policy_ver
    rx,         \* the packet in dpi_recv_packet: its flow and the tap read for it
    fate,       \* what became of the last packet
    quiet       \* no packet arrives any more

vars == <<sess, total, count, tap, rule, ver, rx, fate, quiet>>

NoPacket == [flow |-> "none", tap |-> FALSE]

Idle == [to |-> "none", att |-> FALSE]

Init ==
    /\ sess = [f \in Flows |-> NoSession]
    /\ total = 0
    /\ count = [p \in Protocols |-> 0]
    /\ tap \in TapModes
    /\ rule \in [Flows -> Rules]
    /\ ver = 0
    /\ rx = NoPacket
    /\ fate = Idle
    /\ quiet = FALSE

-------------------------------------------------------------------------------
(***************************************************************************)
(* dpi_session_create: a flow the policy denies gets no session.           *)
(***************************************************************************)
FirstTimer(p) == IF p = "tcp" THEN "open" ELSE p

\* As below, with the counters of the thread left alone.
SessionCreateUncounted(x, f) ==
    IF rule[f].base = "deny"
    THEN [x EXCEPT !.action = SetAction(@, DROP), !.att = FALSE]
    ELSE [x EXCEPT !.w = TimerStart([NoSession EXCEPT !.live = TRUE, !.ver = ver], FirstTimer(Proto[f])),
                   !.att = TRUE, !.new = TRUE]

SessionCreate(x, f) ==
    IF rule[f].base = "deny"
    THEN [x EXCEPT !.action = SetAction(@, DROP), !.att = FALSE]
    ELSE [x EXCEPT !.w = TimerStart([NoSession EXCEPT
                             !.live = TRUE, !.timer = x.w.timer, !.pol = rule[f].base, !.ver = ver,
                             !.app = IF Proto[f] \in {"icmp", "ip"} THEN "skip_unready" ELSE @],
                                    FirstTimer(Proto[f])),
                   !.att = TRUE, !.new = TRUE, !.n = @ + 1]

(***************************************************************************)
(* dpi_tcp_tracker.  TcpFollow is its part below the search for the        *)
(* session; a mid-stream session is never sequenced or reassembled.        *)
(***************************************************************************)
TcpSequence(x, pkt) ==
    LET moves == IF pkt.data /\ SkipsParser(x.w) THEN TRUE
                 ELSE pkt.seq = "next" /\ (pkt.data \/ pkt.kind = "fin")
        y == [x EXCEPT !.w    = IF moves THEN Advance(@, pkt) ELSE @,
                       !.skip = @ \/ (pkt.data /\ ~SkipsParser(x.w) /\ pkt.seq = "early")]
    IN  IF pkt.lost THEN [y EXCEPT !.action = SetAction(@, BYPASS)] ELSE y

TcpFollow(x, pkt) ==
    LET y == [x EXCEPT !.w = TcpTransition(@, pkt)]
    IN  CASE x.w.mid ->
               IF (pkt.data /\ pkt.ts) \/ (pkt.kind = "fin" /\ pkt.seq = "next")
               THEN [y EXCEPT !.w = Advance(@, pkt)] ELSE y
          [] ~x.w.mid /\ pkt.seq = "cached" ->
               [x EXCEPT !.cached = TRUE, !.skip = TRUE, !.action = SetAction(@, ALLOW)]
          [] ~x.w.mid /\ pkt.seq = "outwin" /\ ~x.new ->
               [x EXCEPT !.skip = TRUE]
          [] OTHER ->
               IF IsFinal(tap, y.action) \/ IsFinal(tap, y.w.action) THEN y ELSE TcpSequence(y, pkt)

TcpCreate(x, f, pkt) ==
    LET y == SessionCreate(x, f)
    IN  IF y.att THEN TcpFollow([y EXCEPT !.w = TcpOpen(@, pkt)], pkt) ELSE y

\* As dpi_tcp_tracker, but a new connection frees the closed session under its timer.
TcpTrackKeepsEntry(x, f, pkt) ==
    IF x.att /\ x.w.c = "CLOSE" /\ x.w.s = "CLOSE" /\ pkt.kind = "syn"
    THEN TcpCreate([x EXCEPT !.w = Release(@), !.att = FALSE, !.n = @ - 1], f, pkt)
    ELSE IF x.att THEN x ELSE TcpCreate(x, f, pkt)

TcpTrack(x, f, pkt) ==
    LET closed == x.w.c = "CLOSE" /\ x.w.s = "CLOSE"
    IN  CASE pkt.kind \in {"syn", "synack"} /\ pkt.data ->
               [x EXCEPT !.att = FALSE]
          [] ~x.att /\ pkt.kind \in {"rst", "fin"} ->
               x
          [] ~x.att /\ (pkt.kind = "ack" \/ (pkt.kind \in {"syn", "synack"} /\ ~pkt.data)) ->
               TcpCreate(x, f, pkt)
          [] x.att /\ pkt.client /\ pkt.kind = "syn" /\ ~pkt.data /\ closed ->
               TcpCreate([x EXCEPT !.w = SessionDelete(@), !.att = FALSE, !.n = @ - 1], f, pkt)
          [] x.att /\ pkt.seq = "bad" /\ ~pkt.data /\ pkt.client = (pkt.kind = "syn")
             /\ ~(pkt.kind = "syn" /\ closed) ->
               [x EXCEPT !.att = FALSE]
          [] OTHER ->
               TcpFollow([x EXCEPT !.w = TimerRefresh(@)], pkt)

(***************************************************************************)
(* The other trackers.  An ICMP "unreachable" is dropped unless the packet *)
(* it carries belongs to a session of the table.                           *)
(***************************************************************************)
Track(x, f) ==
    IF x.att THEN [x EXCEPT !.w = TimerRefresh(@)] ELSE SessionCreate(x, f)

IcmpTrack(x, f, pkt) ==
    CASE pkt.kind = "unreach" ->
           [x EXCEPT !.action = SetAction(@, IF pkt.seq # "bad" /\ \E g \in Flows : sess[g].live
                                             THEN BYPASS ELSE DROP)]
      [] pkt.kind = "flood" ->
           [x EXCEPT !.action = SetAction(@, DROP)]
      [] OTHER ->
           LET y == Track(x, f)
           IN  IF y.att /\ pkt.kind = "death" THEN [y EXCEPT !.action = SetAction(@, DROP)] ELSE y

ProtoTracker(x, f, pkt) ==
    CASE Proto[f] = "tcp"  -> TcpTrack(x, f, pkt)
      [] Proto[f] = "icmp" -> IcmpTrack(x, f, pkt)
      [] OTHER             -> Track(x, f)

-------------------------------------------------------------------------------
(***************************************************************************)
(* The parsers (dpi_pkt_proto_parser): they may identify the application,  *)
(* give up on it, stop looking, or find a threat.                          *)
(***************************************************************************)
AppAfter(w, outcome) ==
    CASE outcome = "final"      -> "known"
      [] outcome = "final_skip" -> "known_skip"
      [] outcome = "none"       -> IF w.app = "known" THEN "known_skip"
                                   ELSE IF w.mid THEN "skip_unready" ELSE "skip"
      [] OTHER                  -> w.app

Parse(x, pkt) ==
    IF SkipsParser(x.w) \/ x.skip \/ ~pkt.data THEN x
    ELSE [x EXCEPT !.w = [@ EXCEPT !.app = AppAfter(x.w, pkt.app)],
                   !.action = IF pkt.app = "threat" THEN SetAction(@, DROP) ELSE @]

(***************************************************************************)
(* dpi_policy_reeval and dpi_pkt_policy_reeval: the rule is looked up      *)
(* again when the policy has another version, and with the application     *)
(* when that has been identified; a new denial blocks the session.         *)
(***************************************************************************)
PolicyNow(w, f) ==
    LET pol == IF w.ver # ver THEN rule[f].base ELSE w.pol
    IN  IF pol = "check_app" /\ AppReady(w) /\ (AppKnown(w) \/ ~w.mid) THEN rule[f].app ELSE pol


PolicyReeval(x, f) ==
    LET pol    == PolicyNow(x.w, f)
        denied == pol = "deny" /\ pol # x.w.pol
    IN  [x EXCEPT !.w = [@ EXCEPT !.pol = pol, !.ver = ver,
                                  !.action = IF denied THEN BLOCK ELSE @],
                  !.action = IF denied THEN SetAction(@, DROP) ELSE @]


Evaluate(x, f, pkt) ==
    IF ~x.att THEN x
    ELSE LET y == [x EXCEPT !.action = SetAction(@, x.w.action)]
         IN  CASE y.action = BYPASS -> PolicyReeval(y, f)
               [] y.action # BYPASS /\ (tap \/ y.action <= ALLOW) -> PolicyReeval(Parse(y, pkt), f)
               [] OTHER -> y

(***************************************************************************)
(* The DLP/WAF detector: a match whose action is to drop outranks every    *)
(* action of the packet and is written to the session as well.             *)
(***************************************************************************)
Detect(x, pkt) ==
    IF ~pkt.dlp \/ x.cached THEN x
    ELSE [x EXCEPT !.action = DROP,
                   !.w = IF x.att THEN [@ EXCEPT !.action = DROP] ELSE @]

\* dpi_post_cache_packet: data no parser has consumed is kept, up to a limit.
PostCache(x, f, pkt) ==
    IF ~IsFinal(tap, x.action) /\ x.att /\ Proto[f] = "tcp" /\ pkt.data /\ ~x.cached /\ pkt.spill
    THEN [x EXCEPT !.action = SetAction(@, BYPASS)] ELSE x

(***************************************************************************)
(* The packet's action becomes the session's.                              *)
(***************************************************************************)
SessionAction(x, f) ==
    CASE ~x.att \/ x.action = NONE                              -> x.w.action
      [] x.att /\ x.action = BYPASS                             -> BYPASS
      [] x.att /\ ~tap /\ x.action = BLOCK                      -> BLOCK
      [] x.att /\ ~tap /\ x.action \in {DROP, RESET}            -> IF Proto[f] = "tcp" THEN BLOCK
                                                                   ELSE x.w.action
      [] OTHER                                                  -> x.w.action

Convert(x, f) == [x EXCEPT !.w = [@ EXCEPT !.action = SessionAction(x, f)]]

Kinds(p) ==
    CASE p = "tcp"  -> {"syn", "synack", "ack", "fin", "rst"}
      [] p = "icmp" -> {"echo", "unreach", "flood", "death"}
      [] OTHER      -> {"data"}

\* The packets that can be the next of a flow: without a session a SYN comes from
\* the client and a SYN/ACK from the server, by definition of the two; nothing is
\* cached for it; the ICMP flood and the oversized ping are checks on a client.
CanBeNext(f, pkt) ==
    /\ pkt.kind \in Kinds(Proto[f])
    /\ pkt.kind \in {"flood", "death"} => pkt.client
    /\ pkt.spill => tap \in SpillModes
    /\ ~sess[f].live => /\ pkt.kind = "syn" => pkt.client
                        /\ pkt.kind = "synack" => ~pkt.client
                        /\ pkt.seq # "cached"

Arrived(f, pkt) ==
    [w |-> sess[f], att |-> sess[f].live, action |-> IF pkt.mss THEN DROP ELSE NONE,
     new |-> FALSE, skip |-> FALSE, cached |-> FALSE, n |-> 0]

Verdict(action, monitor) ==
    IF monitor THEN "tapped" ELSE IF action \in {DROP, RESET, BLOCK} THEN "dropped" ELSE "sent"

(***************************************************************************)
(* dpi_recv_packet, up to and after the inspection.                        *)
(***************************************************************************)
Receive(f) ==
    /\ rx = NoPacket
    /\ ~quiet
    /\ rx' = [flow |-> f, tap |-> tap]
    /\ fate' = Idle
    /\ UNCHANGED <<sess, total, count, tap, rule, ver, quiet>>

Inspect(pkt) ==
    /\ rx # NoPacket
    /\ CanBeNext(rx.flow, pkt)
    /\ LET f == rx.flow IN
       \E t \in {ProtoTracker(Arrived(f, pkt), f, pkt)} :
       \E e \in {Evaluate(t, f, pkt)} :
       \E x \in {Convert(PostCache(Detect(e, pkt), f, pkt), f)} :
           /\ sess' = [sess EXCEPT ![f] = x.w]
           /\ total' = total + x.n
           /\ count' = [count EXCEPT ![Proto[f]] = @ + x.n]
           /\ fate' = [to |-> Verdict(x.action, rx.tap), att |-> x.att]
    /\ rx' = NoPacket
    /\ UNCHANGED <<tap, rule, ver, quiet>>

(***************************************************************************)
(* The session's timer: it is off the wheel when its callback runs.        *)
(***************************************************************************)
\* As below, but the no-data callback returns with the session off the wheel.
ExpireNoRestart(f) ==
    /\ rx = NoPacket
    /\ sess[f].timer \in Programs
    /\ IF sess[f].timer = "nodata"
       THEN /\ sess' = [sess EXCEPT ![f] = [@ EXCEPT !.timer = "off"]]
            /\ UNCHANGED <<total, count>>
       ELSE /\ sess' = [sess EXCEPT ![f] = Release([@ EXCEPT !.timer = "off"])]
            /\ total' = total - 1
            /\ count' = [count EXCEPT ![Proto[f]] = @ - 1]
    /\ fate' = Idle
    /\ UNCHANGED <<tap, rule, ver, rx, quiet>>

Expire(f) ==
    /\ rx = NoPacket
    /\ sess[f].timer \in Programs
    /\ IF sess[f].timer = "nodata"
       THEN /\ sess' = [sess EXCEPT ![f] = TimerStart([@ EXCEPT !.timer = "off"], "active")]
            /\ UNCHANGED <<total, count>>
       ELSE /\ sess' = [sess EXCEPT ![f] = Release([@ EXCEPT !.timer = "off"])]
            /\ total' = total - 1
            /\ count' = [count EXCEPT ![Proto[f]] = @ - 1]
    /\ fate' = Idle
    /\ UNCHANGED <<tap, rule, ver, rx, quiet>>

\* CTRL_REQ_CLEAR_SESSION and CTRL_REQ_DEL_MAC, in the data-plane thread.
Delete(f) ==
    /\ rx = NoPacket
    /\ sess[f].live
    /\ sess' = [sess EXCEPT ![f] = SessionDelete(@)]
    /\ total' = total - 1
    /\ count' = [count EXCEPT ![Proto[f]] = @ - 1]
    /\ fate' = Idle
    /\ UNCHANGED <<tap, rule, ver, rx, quiet>>

(***************************************************************************)
(* The control thread.                                                     *)
(***************************************************************************)
SwitchMode(m) ==
    /\ m # tap
    /\ tap' = m
    /\ fate' = Idle
    /\ UNCHANGED <<sess, total, count, rule, ver, rx, quiet>>

PolicyUpdate(r) ==
    /\ ver < MaxPolicyVer
    /\ ver' = ver + 1
    /\ rule' = r
    /\ fate' = Idle
    /\ UNCHANGED <<sess, total, count, tap, rx, quiet>>

\* The traffic ends, with the last packet inspected (environment).
Silence ==
    /\ ~quiet /\ rx = NoPacket
    /\ quiet' = TRUE
    /\ fate' = Idle
    /\ UNCHANGED <<sess, total, count, tap, rule, ver, rx>>

Next ==
    \/ \E f \in Flows : Receive(f) \/ Expire(f) \/ Delete(f)
    \/ \E pkt \in Packets : Inspect(pkt)
    \/ \E m \in TapModes : SwitchMode(m)
    \/ \E r \in [Flows -> Rules] : PolicyUpdate(r)
    \/ Silence

(***************************************************************************)
(* The loop of the data-plane thread rolls the wheel every second, so that *)
(* every timer expires.                                                    *)
(***************************************************************************)
Fairness == \A f \in Flows : WF_vars(Expire(f))

Spec == Init /\ [][Next]_vars

FairSpec == Spec /\ Fairness

-------------------------------------------------------------------------------
SessionRecords ==
    [live : BOOLEAN, c : TcpStates, s : TcpStates, mid : BOOLEAN, sent : BOOLEAN,
     timer : Timers, action : NONE .. BLOCK, pol : PolicyActions, ver : 0 .. MaxPolicyVer,
     app : AppStates]

\* Type invariant: the session records, the counters, and the packet in hand.
TypeOK ==
    /\ sess \in [Flows -> SessionRecords]
    /\ total \in 0 .. Cardinality(Flows)
    /\ count \in [Protocols -> 0 .. Cardinality(Flows)]
    /\ tap \in BOOLEAN
    /\ rule \in [Flows -> Rules]
    /\ ver \in 0 .. MaxPolicyVer
    /\ rx = NoPacket \/ rx \in [flow : Flows, tap : BOOLEAN]
    /\ fate \in [to : {"none", "tapped", "dropped", "sent"}, att : BOOLEAN]
    /\ quiet \in BOOLEAN

\* The session table and the timer wheel agree: every session of the table has its
\* entry on the wheel, no entry outlives its session, and no helper is used against
\* the precondition its comment states (dpi_session.c: "Session must be on the
\* timer wheel to call this function", "Session must NOT be on the timer wheel"),
\* whichever of packet, timer, reset and control request ends the session.
WheelHoldsSessions ==
    \A f \in Flows : /\ sess[f].timer # "corrupt"
                     /\ sess[f].live <=> sess[f].timer # "off"

\* th_counter.cur_sess and the counters per protocol are the numbers of sessions in
\* the table; in particular no path releases a session twice or forgets to count.
CountersMatch ==
    /\ total = Cardinality({f \in Flows : sess[f].live})
    /\ \A p \in Protocols : count[p] = Cardinality({f \in Flows : sess[f].live /\ Proto[f] = p})


\* The packet in hand is inspected by this step, in inline mode throughout.
InspectsInline == rx # NoPacket /\ rx' = NoPacket /\ ~rx.tap /\ ~tap

\* The policy in force denies flow f, given what the parsers know of session w.
DeniedNow(w, f) ==
    \/ rule[f].base = "deny"
    \/ /\ rule[f].base = "check_app" /\ rule[f].app = "deny"
       /\ AppReady(w) /\ (AppKnown(w) \/ ~w.mid)


\* "For mid session deny, keep the session to block traffic coming afterwards": no
\* packet of a blocked session is forwarded inline, and only the end of the session
\* ends the block: a release, or a new connection over the closed one.
BlockedIsNotSent ==
    [][\A f \in Flows :
          sess[f].live /\ sess[f].action = BLOCK /\ ~tap /\ (rx # NoPacket => ~rx.tap)
          => \/ ~sess'[f].live
             \/ sess[f].c = "CLOSE" /\ sess'[f].c = "SYN_SENT"
             \/ /\ sess'[f].action \in {BLOCK, DROP}
                /\ rx.flow = f /\ rx' = NoPacket /\ fate'.att => fate'.to = "dropped"]_vars


\* Without traffic the table drains: every session, in whatever state its last packet
\* left it, is released by its timers.
Drained == quiet ~> \A f \in Flows : ~sess[f].live

===============================================================================
