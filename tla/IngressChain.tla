------------------------------ MODULE IngressChain ------------------------------
(***************************************************************************)
(* What the two chains of docker_ingress.yml, which the firewall role      *)
(* loads for both address families and the Docker role and verify.yml      *)
(* compare with the active ones, let through: a forwarded packet goes      *)
(* through DOCKER-USER before any rule of Docker's own.  Docker has        *)
(* already rewritten the destination of a published port by then.          *)
(***************************************************************************)
EXTENDS Naturals, Sequences

VARIABLES
    packet,      \* the forwarded packet
    visits,      \* the rule it is at in each chain it is in, the innermost chain last
    fate         \* "none", "pass" (on to Docker's rules) or "drop"

chainVars == <<packet, visits, fate>>

Bridges == {"docker0", "br-naive"}
Interfaces == Bridges \cup {"eth0"}
States == {"NEW", "RELATED", "ESTABLISHED", "INVALID", "UNTRACKED"}
Protocols == {"tcp", "udp", "icmp"}
Ports == {80, 443, 8080}

\* `published` is the port the client connects to, `port` the container's.
Packets == [out : Interfaces, state : States, protocol : Protocols, published : Ports, port : Ports]

-----------------------------------------------------------------------------
(* The rules, by the packets they match                                    *)

Rule(outs, protocols, states, ports, target) ==
    [out |-> outs, protocol |-> protocols, state |-> states, ports |-> ports, target |-> target]
Always(target) == Rule(Interfaces, Protocols, States, Ports, target)
Opens(outs, port) == Rule(outs, {"tcp"}, {"NEW"}, {port}, "RETURN")
Drops(outs) == Rule(outs, Protocols, States, Ports, "DROP")

UserChain == << Always("NAIVE-GATEWAY-DOCKER"), Always("RETURN") >>

\* Mutated ManagedChain: the deny rules stand before the rules that open br+.
ManagedChainEarlyDrop == <<
    Rule(Interfaces, Protocols, {"RELATED", "ESTABLISHED"}, Ports, "RETURN"),
    Opens({"docker0"}, 80), Opens({"docker0"}, 443),
    Drops(Bridges),
    Opens({"br-naive"}, 80), Opens({"br-naive"}, 443),
    Always("RETURN") >>

ManagedChain == <<
    Rule(Interfaces, Protocols, {"RELATED", "ESTABLISHED"}, Ports, "RETURN"),
    Opens({"docker0"}, 80), Opens({"docker0"}, 443),
    Opens({"br-naive"}, 80), Opens({"br-naive"}, 443),
    Drops({"docker0"}), Drops({"br-naive"}),
    Always("RETURN") >>

Chain == [name \in {"DOCKER-USER", "NAIVE-GATEWAY-DOCKER"} |->
            IF name = "DOCKER-USER" THEN UserChain ELSE ManagedChain]

\* Mutated Matches: --dport in the place of --ctorigdstport.
MatchesPort(rule) ==
    /\ packet.out \in rule.out /\ packet.protocol \in rule.protocol
    /\ packet.state \in rule.state /\ packet.port \in rule.ports

Matches(rule) ==
    /\ packet.out \in rule.out /\ packet.protocol \in rule.protocol
    /\ packet.state \in rule.state /\ packet.published \in rule.ports

-----------------------------------------------------------------------------
(* The traversal                                                           *)

ChainInit ==
    /\ packet \in Packets
    /\ visits = << [chain |-> "DOCKER-USER", at |-> 1] >>
    /\ fate = "none"

Visit == visits[Len(visits)]
Current == Chain[Visit.chain][Visit.at]
Outer == SubSeq(visits, 1, Len(visits) - 1)
NextRule(call) == [call EXCEPT !.at = @ + 1]

Skip ==
    /\ fate = "none" /\ ~Matches(Current)
    /\ visits' = Append(Outer, NextRule(Visit))
    /\ UNCHANGED <<packet, fate>>

Jump ==
    /\ fate = "none" /\ Matches(Current)
    /\ Current.target \in DOMAIN Chain
    /\ visits' = Outer \o << NextRule(Visit), [chain |-> Current.target, at |-> 1] >>
    /\ UNCHANGED <<packet, fate>>

FallBack ==
    /\ fate = "none" /\ Matches(Current)
    /\ Current.target = "RETURN"
    /\ visits' = Outer
    /\ fate' = IF Len(visits) = 1 THEN "pass" ELSE "none"
    /\ UNCHANGED packet

Drop ==
    /\ fate = "none" /\ Matches(Current)
    /\ Current.target = "DROP"
    /\ fate' = "drop"
    /\ UNCHANGED <<packet, visits>>

ChainNext == Skip \/ Jump \/ FallBack \/ Drop

ChainSpec == ChainInit /\ [][ChainNext]_chainVars

-----------------------------------------------------------------------------
(* Properties                                                              *)

ToContainer == packet.out \in Bridges
Reply == packet.state \in {"RELATED", "ESTABLISHED"}
ToGateway ==
    packet.protocol = "tcp" /\ packet.state = "NEW" /\ packet.published \in {80, 443}

\* Nothing but replies and new connections to the gateway's two public ports reaches
\* a container, whichever port of its own another container publishes, and of no
\* network of Docker's (docker_ingress.yml).
OnlyGatewayReached ==
    fate = "pass" /\ ToContainer => Reply \/ ToGateway

\* The chains drop nothing else: neither the gateway's traffic on any of Docker's
\* networks nor what leaves the containers or does not concern them.
NothingElseDropped ==
    fate = "drop" => ToContainer /\ ~Reply /\ ~ToGateway
=============================================================================
