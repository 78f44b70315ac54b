----------------------------- MODULE MCDpiSession -----------------------------
(***************************************************************************)
(* Small instances of DpiSession: the flows, the packets that arrive, and  *)
(* the rules a policy may have for a flow.                                 *)
(***************************************************************************)
EXTENDS DpiSession

OneTcp == [f \in {"t"} |-> "tcp"]

OfEach == [f \in {"t", "u", "i"} |-> CASE f = "t" -> "tcp" [] f = "u" -> "udp" [] f = "i" -> "icmp"]

OpenRule == [base |-> "open", app |-> "open"]
DenyRule == [base |-> "deny", app |-> "deny"]
AppDenyRule == [base |-> "check_app", app |-> "deny"]

OnlyOpen == {OpenRule}
SomeRules == {OpenRule, DenyRule, AppDenyRule}

Plain == [kind |-> "ack", client |-> TRUE, data |-> FALSE, seq |-> "next", lost |-> FALSE,
          ts |-> FALSE, mss |-> FALSE, app |-> "wait", dlp |-> FALSE, spill |-> FALSE]

\* Segments that open or reset a connection.
Handshake ==
    {[Plain EXCEPT !.kind = k, !.client = c, !.seq = q, !.mss = m] :
        k \in {"syn", "synack"}, c \in BOOLEAN, q \in {"next", "bad"}, m \in BOOLEAN}
    \cup {[Plain EXCEPT !.kind = k, !.client = c] : k \in {"rst"}, c \in BOOLEAN}

\* Segments without data, in and out of the window.
Bare ==
    {[Plain EXCEPT !.kind = k, !.client = c, !.seq = q, !.lost = l] :
        k \in {"ack", "fin"}, c \in BOOLEAN, q \in {"next", "outwin"}, l \in BOOLEAN}

\* Segments with data, and what the parsers and the detector make of them.
Data ==
    {[Plain EXCEPT !.kind = k, !.client = c, !.data = TRUE, !.app = a, !.lost = l, !.ts = t] :
        k \in {"ack", "fin"}, c \in BOOLEAN, l \in BOOLEAN, t \in BOOLEAN,
        a \in {"wait", "final", "final_skip", "none", "threat"}}
    \cup {[Plain EXCEPT !.client = c, !.data = TRUE, !.seq = q, !.dlp = d, !.spill = s] :
        c \in BOOLEAN, q \in {"next", "early", "outwin", "cached"}, d \in BOOLEAN, s \in BOOLEAN}
    \cup {[Plain EXCEPT !.kind = "syn", !.data = TRUE, !.dlp = d] : d \in BOOLEAN}

TcpPackets == Handshake \cup Bare \cup Data

\* The segments that matter to a verdict: no timestamps, no data on a FIN, and one
\* acknowledgment of data that was never seen.
VerdictPackets ==
    {p \in Handshake : p.kind # "rst" => ~p.mss} \cup {p \in Bare : p.lost => p.seq = "next" /\ p.kind = "ack"}
    \cup {p \in Data : ~p.ts /\ p.kind = "ack" /\ (p.lost => p.app = "wait")}

\* The ICMP messages the tracker distinguishes.
IcmpPackets ==
    {[Plain EXCEPT !.kind = k, !.client = c, !.seq = q, !.data = TRUE] :
        k \in {"echo", "unreach", "flood", "death"}, c \in BOOLEAN, q \in {"next", "bad"}}

\* A datagram, and what the parsers make of it.
UdpPackets ==
    {[Plain EXCEPT !.kind = "data", !.data = TRUE, !.app = a] : a \in {"wait", "final", "threat"}}

TimerPackets == TcpPackets \cup UdpPackets \cup IcmpPackets
===============================================================================
