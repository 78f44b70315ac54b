----------------------------- MODULE MCPolicyRules -----------------------------
(***************************************************************************)
(* A workload at address 9, internal peers 4 and 5, external peers 6 and 7.*)
(* The domain name of code 1 resolves to 6, and DNS answers add 7.  Rules  *)
(* between workloads apply to ingress; of the addresses one is of a host   *)
(* and one is the external address of a service.                           *)
(***************************************************************************)
EXTENDS PolicyRules

Peer == [workload |-> <<4, 4, NoName>>, node |-> <<5, 5, NoName>>, group |-> <<4, 6, NoName>>,
         external |-> <<0, 0, NoName>>, host |-> <<6, 6, NoName>>, name |-> <<6, 6, "name">>]
Port == [one |-> <<"tcp", 1, 1>>, tcp |-> <<"tcp", 0, 2>>, all |-> <<"any", 0, 2>>]

Request(in, p, o, app, action, mixed) ==
    [ingress |-> in, peer |-> Peer[p][1], peerR |-> Peer[p][2], fqdn |-> Peer[p][3],
     proto |-> Port[o][1], port |-> Port[o][2], portR |-> Port[o][3],
     app |-> app, checkApp |-> app # 0, action |-> action, mixed |-> mixed]

SomeRequests ==
    {Request(TRUE, t[1], t[2], app, IF app = 0 THEN "deny" ELSE "allow", FALSE) :
        t \in ({"group", "external", "name"} \X {"one", "all"})
             \cup {<<"workload", "one">>, <<"host", "one">>, <<"group", "tcp">>},
        app \in {0, 1}}
    \cup {Request(TRUE, "workload", "all", 1, "allow", FALSE)}
    \cup {Request(FALSE, t[1], t[2], 0, "deny", FALSE) :
        t \in {<<"node", "one">>, <<"external", "all">>, <<"name", "one">>,
                <<"group", "all">>, <<"host", "one">>}}
    \cup {Request(TRUE, "workload", "all", 0, "learn", TRUE)}

SomeFlows ==
    {[ingress |-> in, peer |-> a, port |-> o, proto |-> "tcp"] :
        in \in BOOLEAN, a \in 4 .. 7, o \in {1, 2}}
    \cup {[ingress |-> TRUE, peer |-> a, port |-> 1, proto |-> "udp"] : a \in {4, 6}}
    \cup {[ingress |-> TRUE, peer |-> 4, port |-> 0, proto |-> "icmp"]}

InternalPeers == {4, 5, 9}
Special == (5 :> "host") @@ (7 :> "ext")

\* Thread 0 before its first packet: every address is internal, none special.
AllPeers == 0 .. 9
NoTypes == <<>>

Codes == [n \in {"name"} |-> 1]
DnsAnswers == {<<"name", 7>>}
================================================================================
