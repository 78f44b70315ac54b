------------------------------ MODULE PolicyRules ------------------------------
(***************************************************************************)
(* The network rules of one workload: the agent computes an ordered list   *)
(* of IP rules (agent/policy/network.go), the data plane stores it in two  *)
(* hash tables, one of exact keys and one of lists of ranges               *)
(* (dp/dpi/dpi_policy.c), and every new session is decided by a lookup in  *)
(* those tables.  The tables do not keep the list's order: the lookup goes *)
(* to the exact keys first, and it asks up to three times for one peer,    *)
(* for its address, for the domain names it is known by and for "external".*)
(* The questions are whether the order of the list survives.               *)
(*                                                                         *)
(* Addresses are numbers: 0 is the address of the rules about external     *)
(* peers, and the codes of the domain names are addresses that no host     *)
(* has.  The workload has one address, Own.                                *)
(***************************************************************************)
EXTENDS Integers, SequencesExt

CONSTANTS
    Own,        \* the address of the workload
    Internal,   \* the addresses of the internal subnets
    IpType,     \* the special addresses: a function from addresses to types
    Internal0,  \* Internal and IpType as data-plane thread 0 last saw them: the
    IpType0,    \* control thread, whose THREAD_ID is 0 too, reads that copy
    ApplyDir,   \* the directions in which rules between workloads apply
    DefAction,  \* the action when no rule matches
    Requests,   \* the arguments with which createIPRule is called
    MaxRules,   \* a bound on the length of the list of rules
    Code,       \* the code of each domain name
    Snooped,    \* pairs of a domain name and an address seen in DNS answers
    AppUnknown, \* the highest application number: "cannot be identified"
    Flows       \* the sessions looked up

VARIABLES
    ipRules,    \* the list the agent computes
    hdl,        \* the policy handle of the data plane
    fqdn        \* the addresses recorded for each domain name

vars == <<ipRules, hdl, fqdn>>

NoHdl == [ver |-> 0]
NoKey == [app |-> -1]
AppAny == 0
NoName == "no name"
MaxOrder == 1000

-----------------------------------------------------------------------------
(* The agent's list.                                                       *)

\* The key under which createIPRule looks for a rule it has already made.
RuleKey(r) == <<r.ingress, r.peer, r.peerR, r.fqdn, r.proto, r.port, r.portR>>

\* The rule for one call: a rule that checks applications carries the action
\* in its list of applications.
IPRule(q, id) ==
    [ingress |-> q.ingress, peer |-> q.peer, peerR |-> q.peerR, fqdn |-> q.fqdn,
     proto |-> q.proto, port |-> q.port, portR |-> q.portR, id |-> id,
     action |-> IF q.checkApp THEN "check_app" ELSE q.action,
     apps |-> IF q.checkApp
              THEN <<[app |-> q.app, action |-> q.action, id |-> id]>> ELSE <<>>]

Ids == {r.id : r \in Range(ipRules)}
       \cup UNION {{a.id : a \in Range(r.apps)} : r \in Range(ipRules)}

\* createIPRule.  A call whose key has a rule adds its application to it, or
\* nothing.  The rules with id 0, between workloads of mixed modes, come last.
CreateIPRule(q) ==
    LET id    == IF q.mixed THEN 0 ELSE Max(Ids \cup {0}) + 1
        same  == {i \in DOMAIN ipRules : RuleKey(ipRules[i]) = RuleKey(q)}
        exist == ipRules[Max(same)]
    IN  /\ hdl = NoHdl
        /\ Len(ipRules) < MaxRules
        /\ ~q.mixed => \A r \in Range(ipRules) : r.id # 0
        /\ \/ /\ \/ same = {}
                 \/ same # {} /\ exist.action = "check_app" /\ id = 0
              /\ ipRules' = Append(ipRules, IPRule(q, id))
           \/ /\ same # {} /\ exist.action = "check_app" /\ id # 0
              /\ \A a \in Range(exist.apps) : a.app # q.app
              /\ ipRules' = [ipRules EXCEPT ![Max(same)].apps =
                               Append(@, [app |-> q.app, action |-> q.action, id |-> id])]
        /\ UNCHANGED <<hdl, fqdn>>

-----------------------------------------------------------------------------
(* The lookup.                                                             *)

Key(sip, dip, dport, proto, app) ==
    [sip |-> sip, dip |-> dip, dport |-> dport, proto |-> proto, app |-> app]

Desc(id, action, order, flags) ==
    [id |-> id, action |-> action, order |-> order, flags |-> flags]

\* get_range_key: the list of ranges of a direction is that of the workload's
\* own address.
RangeKey(key, dir) ==
    [proto |-> key.proto, dir |-> dir,
     ip |-> CASE dir = "ingress" -> key.dip [] dir = "egress" -> key.sip [] OTHER -> 0]

InRange(item, k) ==
    /\ k.dport \in item.l.dport .. item.h.dport
    /\ k.sip \in item.l.sip .. item.h.sip
    /\ k.dip \in item.l.dip .. item.h.dip
    /\ k.app \in item.l.app .. item.h.app

RangeList(h, rk) == IF rk \in DOMAIN h.range_policy_map THEN h.range_policy_map[rk] ELSE <<>>

Dir(ingress) == IF ingress THEN "ingress" ELSE "egress"

\* _dpi_policy_lookup_by_key: the exact key, the first range of the direction,
\* the first range without direction, the default action.
Lookup(h, key, ingress) ==
    LET ranges == RangeList(h, RangeKey(key, Dir(ingress)))
                  \o RangeList(h, RangeKey(key, "none"))
        i      == SelectInSeq(ranges, LAMBDA item : InRange(item, key))
    IN  IF key \in DOMAIN h.policy_map THEN h.policy_map[key]
        ELSE IF i # 0 THEN ranges[i].desc
        ELSE Desc(0, h.def_action, MaxOrder, {"check_ver"})

\* policy_desc_merge: of two answers the rule that comes first in the list.
Merge(d1, d2) == IF d2.id > 0 /\ d2.order < d1.order THEN d2 ELSE d1

WithPeer(key, ingress, a) ==
    IF ingress THEN [key EXCEPT !.sip = a] ELSE [key EXCEPT !.dip = a]

\* policy_match_ipv4_fqdn_code: the lookups for the names of an address.
MatchFqdn(h, names, a, key, ingress, desc) ==
    IF ~h.fqdn THEN desc
    ELSE FoldSet(LAMBDA n, d : Merge(d, Lookup(h, WithPeer(key, ingress, Code[n]), ingress)),
                 desc, {n \in DOMAIN names : a \in names[n]})

\* dpi_ip4_iptype.
TypeOf(types, a) == IF a \in DOMAIN types THEN types[a] ELSE "none"

\* dpi_policy_lookup_by_key, by a thread that takes the addresses of the set
\* "subnet4" for internal and has "types" as its special addresses.
LookupBy(subnet4, types, h, names, key, ingress) ==
    LET peer     == IF ingress THEN key.sip ELSE key.dip
        internal == peer \in subnet4
        type     == TypeOf(types, peer)
        exempt   == internal /\ Dir(ingress) \notin ApplyDir
                    /\ type \notin IF ingress THEN {"uwl"} ELSE {"host", "uwl"}
        direct   == MatchFqdn(h, names, peer, key, ingress, Lookup(h, key, ingress))
        merged   == Merge(direct, Lookup(h, WithPeer(key, ingress, 0), ingress))
        flagged(d, flag) == [d EXCEPT !.flags = @ \cup {flag}]
    IN  IF h = NoHdl
        THEN Desc(0, "open", 0, {"check_ver", IF internal THEN "internal" ELSE "external"})
        ELSE IF ~ingress /\ ~internal /\ type = "ext"
        THEN Desc(0, IF h.def_action = "deny" THEN "deny" ELSE "violate", MaxOrder,
                  {"external", "svc_extip"})
        ELSE IF exempt
        THEN Desc(0, "open", 0, {"internal"} \cup (IF ingress THEN {"tunnel", "host"} \cap {type} ELSE {}))
        ELSE IF internal THEN flagged(direct, "internal")
        ELSE flagged(merged, "external")

-----------------------------------------------------------------------------
(* The tables.                                                             *)

Added(h, ret, exist) == [hdl |-> h, ret |-> ret, exist |-> exist]
NoDesc == Desc(0, "open", 0, {})

\* dpi_range_rule_add: of two equal ranges the first is kept.
RangeRuleAdd(h, kl, kh, dir, desc) ==
    LET rk   == RangeKey(kl, dir)
        list == RangeList(h, rk)
        i    == SelectInSeq(list, LAMBDA item : item.l = kl /\ item.h = kh)
        new  == Append(list, [l |-> kl, h |-> kh, desc |-> desc])
    IN  IF i # 0 THEN Added(h, 0, list[i].desc)
        ELSE Added([h EXCEPT !.range_policy_map = (rk :> new) @@ @], 1, NoDesc)

\* A mutant: an exact rule goes into its table without a look at the ranges.
RuleAddOneUnseen(h, names, kl, kh, dir, desc) ==
    IF kh # NoKey THEN RangeRuleAdd(h, kl, kh, dir, desc)
    ELSE IF kl \in DOMAIN h.policy_map THEN Added(h, 0, h.policy_map[kl])
    ELSE Added([h EXCEPT !.policy_map = (kl :> desc) @@ @], 1, NoDesc)

\* dpi_rule_add_one: an exact rule is added only if no rule decides its key.
\* A second entry with an equal key would never be found.
RuleAddOne(h, names, kl, kh, dir, desc) ==
    LET exist == LookupBy(Internal0, IpType0, h, names, kl, dir = "ingress")
    IN  IF kh # NoKey THEN RangeRuleAdd(h, kl, kh, dir, desc)
        ELSE IF exist.id # 0 THEN Added(h, 0, exist)
        ELSE Added([h EXCEPT !.policy_map = @ @@ (kl :> desc)], 1, exist)

\* A mutant: the application's rule keeps the descriptor of the rule it is of.
AddAppRuleOfRule(h, names, kl, kh, a, dir, desc) ==
    RuleAddOne(h, names, [kl EXCEPT !.app = a.app],
               IF kh = NoKey THEN NoKey ELSE [kh EXCEPT !.app = a.app], dir, desc).hdl

\* dpi_add_app_rule: "any application" is a range, even of an exact rule.
AddAppRule(h, names, kl, kh, a, dir, desc) ==
    LET l == [kl EXCEPT !.app = a.app]
        top == IF a.app = AppAny THEN AppUnknown ELSE a.app
        u == IF kh # NoKey THEN [kh EXCEPT !.app = top]
             ELSE IF a.app = AppAny THEN [l EXCEPT !.app = top] ELSE NoKey
    IN  RuleAddOne(h, names, l, u, dir, [desc EXCEPT !.id = a.id, !.action = a.action]).hdl

\* A mutant: a rule that finds its key taken is dropped, whatever took it.
AppsToAddNone(first, r) ==
    IF first.ret = 0 /\ first.exist.id > 0 THEN <<>> ELSE r.apps

\* The application rules dpi_rule_add installs after the rule itself: an
\* existing rule that checks applications leaves the others to the new rule.
AppsToAdd(first, r) ==
    IF first.ret # 0 \/ first.exist.id = 0 THEN r.apps
    ELSE IF first.exist.action # "check_app" THEN <<>>
    ELSE IF r.action # "check_app"
    THEN <<[app |-> AppAny, action |-> r.action, id |-> r.id]>> \o r.apps
    ELSE r.apps

\* dpi_rule_add for one protocol.  The upper key of a range keeps the "any
\* application" of a rule without applications: the caller uses it again.
RuleAdd(h, names, kl, kh, r, dir, desc) ==
    LET first == RuleAddOne(h, names, kl, kh, dir, desc)
        apps  == AppsToAdd(first, r)
    IN  [hdl |-> FoldLeft(LAMBDA g, a : AddAppRule(g, names, kl, kh, a, dir, desc), first.hdl, apps),
         kh  |-> IF kh # NoKey /\ r.apps = <<>> /\ apps # <<>>
                 THEN [kh EXCEPT !.app = AppUnknown] ELSE kh]

\* The body of the loop of dpi_policy_cfg: one rule of the list, for TCP and
\* then UDP when it names no protocol.
AddRule(h, names, r) ==
    LET lo     == IF r.fqdn = NoName THEN r.peer ELSE Code[r.fqdn]
        hi     == IF r.fqdn = NoName THEN r.peerR ELSE Code[r.fqdn]
        key(a, port, proto) == IF r.ingress THEN Key(a, Own, port, proto, 0)
                                            ELSE Key(Own, a, port, proto, 0)
        order  == h.order + 1
        desc   == Desc(r.id, r.action, order, {"check_ver"})
        range  == lo # hi \/ r.port # r.portR
        protos == IF r.proto = "any" THEN <<"tcp", "udp">> ELSE <<r.proto>>
        step(s, p) ==
            RuleAdd(s.hdl, names, key(lo, r.port, p),
                    IF range THEN [key(hi, r.portR, p) EXCEPT !.app = s.kh.app] ELSE NoKey,
                    r, Dir(r.ingress), desc)
        h0     == [h EXCEPT !.order = order, !.fqdn = @ \/ r.fqdn # NoName]
    IN  FoldLeft(step, [hdl |-> h0, kh |-> [app |-> 0]], protos).hdl

\* dpi_add_default_policy: ICMP passes, in no direction and after every rule.
AddDefaultPolicy(h) ==
    RangeRuleAdd(h, Key(0, 0, 0, "icmp", 0), Key(1000, 1000, 0, "icmp", 0), "none",
                 Desc(0, "allow", MaxOrder, {})).hdl

EmptyHdl == [policy_map |-> <<>>, range_policy_map |-> <<>>, def_action |-> DefAction,
             order |-> 0, fqdn |-> FALSE, ver |-> 1]

\* config_fqdn_ipv4_mapping: the address a rule brings for its domain name.
Mapped(names, r) ==
    IF r.fqdn = NoName THEN names
    ELSE (r.fqdn :> ((IF r.fqdn \in DOMAIN names THEN names[r.fqdn] ELSE {})
                     \cup ({r.peer} \ {0}))) @@ names

\* dpi_policy_cfg for the whole list.
PolicyCfg ==
    LET step(s, r) == LET names == Mapped(s.names, r)
                      IN  [names |-> names, hdl |-> AddRule(s.hdl, names, r)]
        all == FoldLeft(step, [names |-> fqdn, hdl |-> EmptyHdl], ipRules)
    IN  /\ hdl = NoHdl
        /\ ipRules # <<>>
        /\ hdl' = AddDefaultPolicy(all.hdl)
        /\ fqdn' = all.names
        /\ UNCHANGED ipRules

\* snooped_fqdn_ipv4_mapping: a DNS answer adds an address to a known name.
Snoop(n, a) ==
    /\ n \in DOMAIN fqdn
    /\ fqdn' = [fqdn EXCEPT ![n] = @ \cup {a}]
    /\ UNCHANGED <<ipRules, hdl>>

Init == ipRules = <<>> /\ hdl = NoHdl /\ fqdn = <<>>

Next == \/ \E q \in Requests : CreateIPRule(q)
        \/ PolicyCfg
        \/ \E s \in Snooped : Snoop(s[1], s[2])

Spec == Init /\ [][Next]_vars

-----------------------------------------------------------------------------
(* What the list says.                                                     *)

\* A rule is about a flow: direction, peer, port and protocol.
Matches(r, f) ==
    /\ r.ingress = f.ingress
    /\ IF r.fqdn # NoName THEN r.fqdn \in DOMAIN fqdn /\ f.peer \in fqdn[r.fqdn]
       ELSE f.peer \in r.peer .. r.peerR \/ (f.peer \notin Internal /\ r.peer = 0)
    /\ f.port \in r.port .. r.portR
    /\ r.proto = f.proto \/ (r.proto = "any" /\ f.proto \in {"tcp", "udp"})

\* What a rule says of an application: nothing, or the first entry for it.
AppEntry(r, app) == SelectInSeq(r.apps, LAMBDA a : a.app \in {AppAny, app})
Decides(r, f, app) == Matches(r, f) /\ (r.action = "check_app" => AppEntry(r, app) # 0)
Verdict(r, app) == IF r.action = "check_app"
                   THEN <<r.apps[AppEntry(r, app)].id, r.apps[AppEntry(r, app)].action>>
                   ELSE <<r.id, r.action>>
Otherwise(f) == IF f.proto = "icmp" THEN <<0, "allow">> ELSE <<0, DefAction>>

\* The first rule of the list about a flow, and about an application of it.
FirstMatch(f) ==
    LET i == SelectInSeq(ipRules, LAMBDA r : Matches(r, f))
    IN  IF i = 0 THEN Otherwise(f) ELSE <<ipRules[i].id, ipRules[i].action>>
FirstAppMatch(f, app) ==
    LET i == SelectInSeq(ipRules, LAMBDA r : Decides(r, f, app))
    IN  IF i = 0 THEN Otherwise(f) ELSE Verdict(ipRules[i], app)

\* The answer of the data plane for a flow and an application.
Answer(f, app) ==
    LET key == IF f.ingress THEN Key(f.peer, Own, f.port, f.proto, app)
                            ELSE Key(Own, f.peer, f.port, f.proto, app)
        d   == LookupBy(Internal, IpType, hdl, fqdn, key, f.ingress)
    IN  <<d.id, d.action>>

Apps == 1 .. AppUnknown

\* The flows that the rules are for: not those between workloads in a direction
\* without rules, nor those to an external address of a service.
Subject ==
    {f \in Flows :
        IF f.peer \in Internal
        THEN \/ Dir(f.ingress) \in ApplyDir
             \/ TypeOf(IpType, f.peer) = "uwl"
             \/ ~f.ingress /\ TypeOf(IpType, f.peer) = "host"
        ELSE f.ingress \/ TypeOf(IpType, f.peer) # "ext"}

\* A rule of the list has applications exactly if it checks them, the order of
\* a stored exact rule is a position in the list, and no list of ranges holds
\* an item twice.
TypeOK ==
    /\ Len(ipRules) <= MaxRules
    /\ \A r \in Range(ipRules) : (r.action = "check_app") <=> (r.apps # <<>>)
    /\ hdl # NoHdl =>
         /\ hdl.order = Len(ipRules)
         /\ \A k \in DOMAIN hdl.policy_map : hdl.policy_map[k].order \in 1 .. hdl.order
         /\ \A rk \in DOMAIN hdl.range_policy_map :
              IsInjective(hdl.range_policy_map[rk])

\* A new session is decided (dpi_session_create, application 0) by the first
\* rule of the agent's list that is about it, although the tables are asked
\* exact keys first and up to three times for one peer.
SessionByFirstRule ==
    hdl # NoHdl => \A f \in Subject : Answer(f, 0) = FirstMatch(f)

\* Once a session that waits for its application is decided, the decision is
\* one that some rule of the list makes for that flow and that application,
\* or the default: it is never to wait again.
AppDecisionIsOfARule ==
    hdl # NoHdl => \A f \in Subject : \A app \in Apps :
        FirstMatch(f)[2] = "check_app" =>
            \/ Answer(f, app) = Otherwise(f)
            \/ \E r \in Range(ipRules) : /\ Matches(r, f)
                                         /\ \/ r.action # "check_app" /\ Answer(f, app) = <<r.id, r.action>>
                                            \/ \E a \in Range(r.apps) :
                                                 /\ a.app \in {AppAny, app}
                                                 /\ Answer(f, app) = <<a.id, a.action>>

\* Where the rules about a flow all have one and the same range, a rule that
\* checks applications leaves the applications it does not name to the rules
\* after it: the decision is that of the first rule that says something of
\* the application.
SameRangeByFirstRule ==
    hdl # NoHdl => \A f \in Subject :
        LET about == {r \in Range(ipRules) : Matches(r, f)}
        IN  /\ Cardinality({<<r.peer, r.peerR, r.fqdn, r.port, r.portR>> : r \in about}) = 1
            /\ FirstMatch(f)[2] = "check_app"
            => \A app \in Apps : Answer(f, app) = FirstAppMatch(f, app)

\* "If the exising rule is a check_app rule, it shouldn't override the new
\* rule" (dpi_policy.c:523), for rules of any ranges.
AppByFirstRule ==
    hdl # NoHdl => \A f \in Subject : FirstMatch(f)[2] = "check_app" =>
        \A app \in Apps : Answer(f, app) = FirstAppMatch(f, app)
================================================================================
