-------------------------------- MODULE IpFrag --------------------------------
(***************************************************************************)
(* Reassembly of IP fragments in a data-plane thread (dp/dpi/dpi_frag.c,   *)
(* dp/utils/asm.c, and the callers in dpi_packet.c and dpi_entry.c).       *)
(*                                                                         *)
(* A tracker collects the fragments of one datagram, is found through a    *)
(* map and freed by a timer.  When the datagram is complete the tracker    *)
(* leaves the map and the wheel, the packet goes on to inspection with the *)
(* reassembled bytes, and its verdict sends or discards the fragments.     *)
(* The bytes are abstracted to their offsets.                              *)
(***************************************************************************)
EXTENDS Integers, Sequences, FiniteSets, SequencesExt

CONSTANTS
    Versions,   \* the IP versions of the traffic: 4, 6
    Tracs,      \* memory for trackers, each used once
    Nfq,        \* packets come from a netfilter queue, which sends them itself
    Keys,       \* source, destination, identification and direction of a datagram
    Frags       \* the fragments that arrive: records [seq, len, more]

ASSUME FragAssumption ==
    /\ Versions \subseteq {4, 6}
    /\ Nfq \in BOOLEAN
    /\ Frags \subseteq [seq : Nat, len : Nat \ {0}, more : BOOLEAN]

VARIABLES
    version,    \* of the datagrams at hand; the two versions share no tracker
    mem,        \* tracker -> "unused", "live" or "freed"
    trac,       \* tracker -> its key, flags, length and clips
    map,        \* th_ip4frag_map and th_ip6frag_map: the trackers they reach
    wheel,      \* the trackers with an entry on the timer wheel
    held,       \* th_counter.total_frags - th_counter.freed_frags
    out         \* what became of the last fragment

vars == <<version, mem, trac, map, wheel, held, out>>

Empty(k) == [key |-> k, first |-> FALSE, last |-> FALSE, length |-> 0, clips |-> {}]

Init ==
    /\ version \in Versions
    /\ mem = [t \in Tracs |-> "unused"]
    /\ trac = [t \in Tracs |-> Empty(CHOOSE k \in Keys : TRUE)]
    /\ map = [v \in {4, 6} |-> {}]
    /\ wheel = {}
    /\ held = 0
    /\ out = [kind |-> "none", clips |-> {}, length |-> 0]

-------------------------------------------------------------------------------
End(c) == c.seq + c.len

Clip(fr) == [seq |-> fr.seq, len |-> fr.len]

Overlap(a, b) == a.seq < End(b) /\ b.seq < End(a)

(***************************************************************************)
(* asm_construct from offset 0: the clips in order up to the first gap,    *)
(* which must not come before the byte the caller must have.               *)
(***************************************************************************)
InOrder(clips) == SetToSortSeq(clips, LAMBDA a, b : a.seq < b.seq)

FirstGap(s, gaps) == IF gaps = {} THEN Len(s) ELSE CHOOSE i \in gaps : \A j \in gaps : i <= j



AsmConstruct(clips, must) ==
    LET s    == InOrder(clips)
        gaps == {i \in 1 .. (Len(s) - 1) : End(s[i]) < s[i + 1].seq}
        last == FirstGap(s, gaps)
    IN  /\ gaps # {} => End(s[last]) >= must
        /\ last > 1
        /\ s[1].seq = 0

(***************************************************************************)
(* ipfrag_hold and ip6frag_hold.  IPv4 refuses a fragment that overlaps    *)
(* another (teardrop); asm_insert refuses a second clip at an offset.      *)
(***************************************************************************)
Teardrop(r, fr) == version = 4 /\ \E c \in r.clips : Overlap(c, Clip(fr))

\* Beyond the end the last fragment announced, or an end before what is held.
Refused(r, fr) ==
    IF fr.more THEN End(fr) > r.length /\ r.last
    ELSE End(fr) < r.length \/ (r.last /\ End(fr) # r.length)

Hold(r, fr) ==
    LET taken == \E c \in r.clips : c.seq = fr.seq
        f     == [r EXCEPT !.first = @ \/ fr.seq = 0]
        g     == [f EXCEPT !.last = @ \/ ~fr.more,
                           !.length = IF ~fr.more \/ End(fr) > @ THEN End(fr) ELSE @]
    IN  CASE Teardrop(r, fr)                     -> r
          [] ~Teardrop(r, fr) /\ Refused(r, fr)  -> f
          [] OTHER                               -> IF taken THEN g
                                                    ELSE [g EXCEPT !.clips = @ \cup {Clip(fr)}]

\* A node that was freed and is still linked is skipped: reading it is undefined, and
\* cds_lfht_del marked it as removed.
Found(k) == {t \in map[version] : mem[t] = "live" /\ trac[t].key = k}

(***************************************************************************)
(* rcu_map_del of the two constructors and the two timeouts: all four name *)
(* th_ip4frag_map.                                                         *)
(***************************************************************************)
MapDel(t) == map' = [map EXCEPT ![4] = @ \ {t}]

-------------------------------------------------------------------------------
(***************************************************************************)
(* A fragment arrives: dpi_ip_defrag or dpi_ipv6_defrag.  The tracker t is *)
(* the one the map finds, or new memory.  The verdict on a whole datagram  *)
(* sends or discards its fragments and frees them with the tracker         *)
(* (dpi_frag_send, dpi_frag_discard), unless a netfilter queue accepts the *)
(* packet: then dpi_recv_packet returns before either.  When construction  *)
(* fails the caller is told -1 through an unsigned char, which it takes    *)
(* for success: the fragment goes on alone.                                *)
(***************************************************************************)
Tracker(t, k) == IF Found(k) = {} THEN mem[t] = "unused" ELSE t \in Found(k)

IsWhole(r) == r.first /\ r.last /\ AsmConstruct(r.clips, r.length - 1)

Stored(t) == IF mem[t] = "live" THEN trac[t].clips ELSE {}

Whole(t, r, accept) ==
    /\ IsWhole(r)
    /\ MapDel(t)
    /\ wheel' = wheel \ {t}
    /\ trac' = [trac EXCEPT ![t] = r]
    /\ IF Nfq /\ accept
       THEN /\ mem' = [mem EXCEPT ![t] = "live"]
            /\ held' = held + Cardinality(r.clips \ Stored(t))
       ELSE /\ mem' = [mem EXCEPT ![t] = "freed"]
            /\ held' = held - Cardinality(Stored(t))
    /\ out' = [kind |-> "whole", clips |-> r.clips, length |-> r.length]

KeepOut(r) == [kind |-> IF r.first /\ r.last THEN "alone" ELSE "held", clips |-> {}, length |-> 0]

\* As below, and the copy of a fragment that asm_insert refuses is not freed.
KeepLosesRefused(t, r) ==
    /\ ~IsWhole(r)
    /\ map' = [map EXCEPT ![version] = @ \cup {t}]
    /\ wheel' = wheel \cup {t}
    /\ mem' = [mem EXCEPT ![t] = "live"]
    /\ trac' = [trac EXCEPT ![t] = r]
    /\ held' = held + 1
    /\ out' = KeepOut(r)


Keep(t, r) ==
    /\ ~IsWhole(r)
    /\ map' = [map EXCEPT ![version] = @ \cup {t}]
    /\ wheel' = wheel \cup {t}
    /\ mem' = [mem EXCEPT ![t] = "live"]
    /\ trac' = [trac EXCEPT ![t] = r]
    /\ held' = held + Cardinality(r.clips \ Stored(t))
    /\ out' = KeepOut(r)

Fragment(k, fr) ==
    /\ (fr.seq = 0 /\ ~fr.more) => version = 6 /\ Found(k) # {}
    /\ \E t \in Tracs :
          /\ Tracker(t, k)
          /\ LET r == Hold(IF mem[t] = "live" THEN trac[t] ELSE Empty(k), fr)
             IN  (\E accept \in BOOLEAN : Whole(t, r, accept)) \/ Keep(t, r)
    /\ UNCHANGED version

\* An IPv6 fragment header on a datagram that is not fragmented: nothing is tracked.
PseudoFragment(k) ==
    /\ version = 6
    /\ Found(k) = {}
    /\ out' = [kind |-> "none", clips |-> {}, length |-> 0]
    /\ UNCHANGED <<version, mem, trac, map, wheel, held>>

\* As below, with the tracker left in the map.
TimeoutStaysMapped(t) ==
    /\ t \in wheel
    /\ wheel' = wheel \ {t}
    /\ mem' = [mem EXCEPT ![t] = "freed"]
    /\ held' = held - Cardinality(trac[t].clips)
    /\ out' = [kind |-> "none", clips |-> {}, length |-> 0]
    /\ UNCHANGED <<version, trac, map>>

\* ipfrag_release and ip6frag_release, from the timer wheel.
Timeout(t) ==
    /\ t \in wheel
    /\ wheel' = wheel \ {t}
    /\ MapDel(t)
    /\ mem' = [mem EXCEPT ![t] = "freed"]
    /\ held' = held - Cardinality(trac[t].clips)
    /\ out' = [kind |-> "none", clips |-> {}, length |-> 0]
    /\ UNCHANGED <<version, trac>>

Next ==
    \/ \E k \in Keys, fr \in Frags : Fragment(k, fr)
    \/ \E k \in Keys : PseudoFragment(k)
    \/ \E t \in Tracs : Timeout(t)

Spec == Init /\ [][Next]_vars
-------------------------------------------------------------------------------
Clips == [seq : {fr.seq : fr \in Frags}, len : {fr.len : fr \in Frags}]

Live == {t \in Tracs : mem[t] = "live"}

\* Type invariant: trackers, their clips, and the structures that reach them.
TypeOK ==
    /\ mem \in [Tracs -> {"unused", "live", "freed"}]
    /\ \A t \in Tracs : /\ trac[t].key \in Keys
                        /\ trac[t].clips \subseteq Clips
                        /\ trac[t].length \in {0} \cup {End(fr) : fr \in Frags}
    /\ map \in [{4, 6} -> SUBSET Tracs]
    /\ version \in Versions
    /\ wheel \subseteq Tracs
    /\ out.kind \in {"none", "held", "alone", "whole"}

\* Neither the IPv4 map nor a timer reaches the memory of a tracker that was freed,
\* whichever of a verdict on the whole datagram and the timeout came first.
FreedIsUnreachable == map[4] \cup wheel \subseteq Live

\* The same of the IPv6 map: ip6frag_construct and ip6frag_release "Remove trac from
\* the map, keep it to send packets", and then free it.
FreedIsUnreachable6 == map[6] \subseteq Live


\* The fragment counters: what was allocated and not freed is what the trackers hold,
\* so no clip is freed twice or lost when a fragment is refused or a tracker expires.
HeldMatches == held = Cardinality({<<t, c>> \in Live \X Clips : c \in trac[t].clips})

Covers(clips, n) == \A b \in 0 .. (n - 1) : \E c \in clips : c.seq <= b /\ b < End(c)



===============================================================================
