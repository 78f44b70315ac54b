------------------------------ MODULE TcpTracker ------------------------------
(***************************************************************************)
(* The connection tracking of the data plane (dp/dpi/dpi_session.c) as     *)
(* operators on a session record: the entry a session holds on the timer   *)
(* wheel, the TCP state of its two wings, and what one packet does to      *)
(* them.  DpiSession.tla makes a state machine of them.                    *)
(*                                                                         *)
(* Sequence numbers are abstracted to the comparison the code makes with   *)
(* them, which is an input of the packet:                                  *)
(*   seq = "bad"     a SYN or SYN/ACK with another initial sequence number *)
(*         "cached"  a retransmission of a segment held for reassembly     *)
(*         "outwin"  outside the receive window                            *)
(*         "early"   starts after, or ends before, the next byte expected  *)
(*         "next"    anything else                                         *)
(*   lost = TRUE     the tracker gives up on the stream: the reassembly    *)
(*                   cache overran, or data it never saw was acknowledged  *)
(***************************************************************************)
EXTENDS Integers

(***************************************************************************)
(* DPI actions in the order of their numbers (defs.h), which dpi_set_action*)
(* and dpi_is_action_final compare.                                        *)
(***************************************************************************)
NONE   == 0
ALLOW  == 1
DROP   == 2
RESET  == 3
BYPASS == 4
BLOCK  == 5

TcpStates == {"none", "LISTEN", "SYN_SENT", "SYN_RECV", "ESTABLISHED", "FIN_WAIT1",
              "FIN_WAIT2", "CLOSE_WAIT", "LAST_ACK", "TIME_WAIT", "CLOSE"}

(***************************************************************************)
(* A session's entry on the wheel: "off", or the callback and timeout it   *)
(* was programmed with.  "corrupt" stands for what the wheel's lists       *)
(* become when a helper is used against its precondition.                  *)
(***************************************************************************)
Programs == {"open", "nodata", "active", "half_close", "close", "udp", "icmp", "ip"}

Timers == Programs \cup {"off", "corrupt"}

\* What the parsers know of the session: the flags SKIP_PARSER, FINAL_PARSER
\* and APP_READY, in the combinations that occur.
AppStates == {"unknown", "known", "known_skip", "skip", "skip_unready"}

SkipsParser(w) == w.app \in {"known_skip", "skip", "skip_unready"}
AppReady(w)    == w.app \in {"known", "known_skip", "skip"}
AppKnown(w)    == w.app \in {"known", "known_skip"}

\* No session in the table.  "sent" says that the client wing's length is not 0.
NoSession == [live |-> FALSE, c |-> "none", s |-> "none", mid |-> FALSE, sent |-> FALSE,
              timer |-> "off", action |-> NONE, pol |-> "open", ver |-> 0, app |-> "unknown"]

(***************************************************************************)
(* The verdict on a packet: dpi_set_action keeps a strict action against   *)
(* NONE and ALLOW only, and in monitor mode (tap) only BYPASS is final.    *)
(***************************************************************************)
SetActionFirst(a, act) == IF a > ALLOW THEN a ELSE act

SetAction(a, act) == IF a > ALLOW /\ act <= ALLOW THEN a ELSE act

IsFinalNotBlock(tap, a) == a = BYPASS \/ (~tap /\ a \in {DROP, RESET})

IsFinal(tap, a) == a = BYPASS \/ (~tap /\ a > ALLOW)

-------------------------------------------------------------------------------
(***************************************************************************)
(* The timer helpers and their preconditions.                              *)
(***************************************************************************)
TimerStart(w, t) == [w EXCEPT !.timer = IF @ = "off" THEN t ELSE "corrupt"]

TimerRemove(w) == [w EXCEPT !.timer = IF @ \in Programs THEN "off" ELSE "corrupt"]

TimerReprogram(w, t) == [w EXCEPT !.timer = IF @ \in Programs THEN t ELSE "corrupt"]

TimerRefresh(w) == [w EXCEPT !.timer = IF @ \in Programs THEN @ ELSE "corrupt"]

\* dpi_session_release frees the session: the table forgets everything but an
\* entry that was left on the wheel.
Release(w) == [NoSession EXCEPT !.timer = w.timer]

\* A release that is asked for, from outside the session's own timer.
SessionDelete(w) == Release(TimerRemove(w))

-------------------------------------------------------------------------------
(***************************************************************************)
(* tcp_update_state: the state of the wing the packet goes to ("that")     *)
(* decides.  The result is the session and the event.                      *)
(***************************************************************************)
That(w, pkt) == IF pkt.client THEN w.s ELSE w.c

Wings(w, pkt, this, that) ==
    IF pkt.client THEN [w EXCEPT !.c = this, !.s = that] ELSE [w EXCEPT !.c = that, !.s = this]

TcpUpdateState(w, pkt) ==
    LET this  == IF pkt.client THEN w.c ELSE w.s
        that  == That(w, pkt)
        To(v, evt) == [w |-> v, evt |-> evt]
        Close(v)   == TimerReprogram(v, "close")
        both  == [w EXCEPT !.c = "ESTABLISHED", !.s = "ESTABLISHED"]
    IN  CASE pkt.kind = "rst" ->
               To(Close([w EXCEPT !.c = "CLOSE", !.s = "CLOSE"]), "RST")
          [] that = "LISTEN" /\ pkt.kind \in {"syn", "synack"} ->
               To([w EXCEPT !.s = "SYN_RECV"], "SYN")
          [] that = "SYN_SENT" /\ pkt.kind = "synack" ->
               To([w EXCEPT !.c = "ESTABLISHED"], "SYNACK")
          [] that = "SYN_SENT" /\ pkt.kind = "syn" ->
               To([w EXCEPT !.c = "SYN_RECV"], "SYNACK")
          [] that = "SYN_RECV" /\ pkt.kind \in {"ack", "fin"} /\ pkt.client ->
               To(both, "TWH")
          [] that = "SYN_RECV" /\ pkt.kind = "synack" ->
               To(both, "SPLIT")
          [] that = "ESTABLISHED" /\ pkt.kind = "fin" ->
               To(Wings(w, pkt, "FIN_WAIT1", "CLOSE_WAIT"), "FIN")
          [] that = "ESTABLISHED" /\ pkt.kind = "syn" /\ w.s = "SYN_RECV" ->
               To([w EXCEPT !.s = "ESTABLISHED"], "SPLIT")
          [] that = "FIN_WAIT1" /\ pkt.kind = "fin" ->
               To(Close(Wings(w, pkt, "LAST_ACK", "FIN_WAIT2")), "FIN")
          [] that = "FIN_WAIT1" /\ pkt.kind = "ack" ->
               To(TimerReprogram(Wings(w, pkt, "CLOSE_WAIT", "FIN_WAIT2"), "half_close"), "NORMAL")
          [] that = "FIN_WAIT2" /\ pkt.kind = "fin" ->
               To(Close(Wings(w, pkt, "LAST_ACK", "TIME_WAIT")), "FIN")
          [] that = "LAST_ACK" /\ pkt.kind \in {"ack", "fin"} ->
               To(Close(Wings(w, pkt, this, "CLOSE")), "NORMAL")
          [] OTHER -> To(w, "NORMAL")


TcpUpdateWing(w, evt, pkt) ==
    CASE evt = "SYN" -> [w EXCEPT !.sent = FALSE]
      [] evt = "SYNACK" -> [w EXCEPT !.sent = @ /\ pkt.kind # "synack"]
      [] evt = "TWH" -> TimerReprogram(w, "nodata")
      [] evt \in {"SPLIT", "NORMAL"} /\ ~w.sent /\ pkt.client /\ pkt.data ->
           TimerReprogram(w, "active")
      [] OTHER -> w

TcpTransition(w, pkt) ==
    LET u == TcpUpdateState(w, pkt) IN TcpUpdateWing(u.w, u.evt, pkt)

\* How a TCP session opens: by the first packet of it that is seen.
TcpOpen(w, pkt) ==
    CASE pkt.kind = "syn"    -> [w EXCEPT !.c = "SYN_SENT", !.s = "LISTEN"]
      [] pkt.kind = "synack" -> [w EXCEPT !.c = "SYN_SENT", !.s = "SYN_RECV"]
      [] OTHER               -> TimerReprogram([w EXCEPT !.c = "ESTABLISHED",
                                                         !.s = "ESTABLISHED",
                                                         !.mid = TRUE], "active")

\* The client wing's next_seq moves.
Advance(w, pkt) == [w EXCEPT !.sent = @ \/ pkt.client]
===============================================================================
