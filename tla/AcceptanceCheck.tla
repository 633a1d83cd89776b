---------------------------- MODULE AcceptanceCheck ----------------------------
(***************************************************************************)
(* check-server.sh: the verdict that lets a deploy commit, a rotation and  *)
(* a restore succeed and `make verify` pass.  It questions the gateway     *)
(* from outside, one request after the other, through a network that may   *)
(* break at each of them and with test targets that may be down, and looks *)
(* at the container only in the end.                                       *)
(***************************************************************************)
EXTENDS Naturals, Sequences

VARIABLES
    gateway,     \* what the gateway is like
    domain,      \* DOMAIN: a name of its own, or that of a test target
    up,          \* the test targets that are up
    check,       \* the next check; "passed" or "failed"
    todo,        \* the test targets that have not been tried
    used,        \* the one that the authenticated check succeeded with
    log,         \* the destinations in the container's log since the start
    broken       \* a request broke on the network (history variable)

world == <<gateway, domain, up>>
checkVars == <<world, check, todo, used, log, broken>>

NoTarget == "none"
Targets == <<"example.com", "www.cloudflare.com">>
TargetNames == {Targets[i] : i \in DOMAIN Targets}

\* `present`: there is a container; `pair`: the proxy accepts the pair of the env;
\* `anonymous`: what it does with a CONNECT that has none.
Gateways ==
    [present : BOOLEAN, site : BOOLEAN, tls : BOOLEAN, pair : BOOLEAN,
     anonymous : {"hides", "challenges", "serves"}, logs : BOOLEAN, healthy : BOOLEAN]

CheckInit ==
    /\ gateway \in Gateways
    /\ domain \in {"own", Targets[1]}
    /\ up \in SUBSET TargetNames
    /\ check = "container" /\ todo = Targets /\ used = NoTarget /\ log = {} /\ broken = FALSE

-----------------------------------------------------------------------------
(* CONNECT requests, as curl reports them: its exit status and the status  *)
(* of the CONNECT, 0 if the network broke before there was an answer       *)

Answer(rc, connect) == [rc |-> rc, connect |-> connect]
NoAnswer == Answer(28, 0)

\* The proxy does not serve the request.
Refusal == Answer(56, IF gateway.anonymous = "challenges" THEN 407 ELSE 404)

\* It does; the target may be down.
Service(target) ==
    IF target \in up THEN {Answer(0, 200)} ELSE {Answer(56, 502), Answer(28, 200)}

Answers(target, served) ==
    (IF served \/ gateway.anonymous = "serves" THEN Service(target) ELSE {Refusal})
        \cup {NoAnswer}

\* A gateway that logs destinations logs those of all requests that reach it; one that
\* stays without an answer may have done so, and may wait for a target that is down.
Connects(target, answer) ==
    /\ broken' = (broken \/ (answer = NoAnswer /\ target \in up))
    /\ log' \in (IF gateway.logs THEN {log \cup {target}} ELSE {log})
                   \cup (IF answer = NoAnswer THEN {log} ELSE {})

-----------------------------------------------------------------------------
(* The checks                                                              *)

Check(from, to, holds) ==
    /\ check = from /\ holds
    /\ check' = to
    /\ UNCHANGED <<world, todo, used, log, broken>>

Container == Check("container", "site", gateway.present)
Site == Check("site", "tls", gateway.site)
Tls == Check("tls", "proxy", gateway.tls)

\* The gateway's own name is no target.
SkipDomain ==
    /\ check = "proxy" /\ todo # <<>> /\ Head(todo) = domain
    /\ todo' = Tail(todo)
    /\ UNCHANGED <<world, check, used, log, broken>>

\* Mutated Proxy: the first target that fails ends the check.
ProxyOnce ==
    /\ check = "proxy" /\ todo # <<>> /\ Head(todo) # domain
    /\ \E answer \in Answers(Head(todo), gateway.pair) :
        /\ Connects(Head(todo), answer)
        /\ IF answer = Answer(0, 200)
           THEN used' = Head(todo) /\ check' = "probe" /\ UNCHANGED todo
           ELSE todo' = <<>> /\ UNCHANGED <<used, check>>
    /\ UNCHANGED world

\* The authenticated request, to one target after the other until one succeeds.
Proxy ==
    /\ check = "proxy" /\ todo # <<>> /\ Head(todo) # domain
    /\ \E answer \in Answers(Head(todo), gateway.pair) :
        /\ Connects(Head(todo), answer)
        /\ IF answer = Answer(0, 200)
           THEN used' = Head(todo) /\ check' = "probe" /\ UNCHANGED todo
           ELSE todo' = Tail(todo) /\ UNCHANGED <<used, check>>
    /\ UNCHANGED world

\* Mutated Rejects: whatever is not an acceptance is a rejection.
RejectsAnyhow(answer) == answer.connect \notin {200, 407}

\* An explicit rejection without a hint of a proxy; transport errors are not evidence.
Rejects(answer) ==
    /\ answer.connect # 407
    /\ answer.connect \in 300..499 /\ answer.rc \in {0, 56}

\* The same request without the pair.
Probe ==
    /\ check = "probe"
    /\ \E answer \in Answers(used, FALSE) :
        /\ Connects(used, answer)
        /\ check' = IF Rejects(answer) THEN "health" ELSE "failed"
    /\ UNCHANGED <<world, todo, used>>

Health == Check("health", "logs", gateway.healthy)

\* The log must not show the target that was used.
Logs == Check("logs", "passed", used \notin log)

\* What is not found ends the script.
Dies ==
    /\ \/ check = "container" /\ ~gateway.present
       \/ check = "site" /\ ~gateway.site
       \/ check = "tls" /\ ~gateway.tls
       \/ check = "proxy" /\ todo = <<>>
       \/ check = "health" /\ ~gateway.healthy
       \/ check = "logs" /\ used \in log
    /\ check' = "failed"
    /\ UNCHANGED <<world, todo, used, log, broken>>

\* The page, the handshake and the daemon are reached over the network, too.
Degrades ==
    /\ check \in {"container", "site", "tls", "health", "logs"}
    /\ check' = "failed" /\ broken' = TRUE
    /\ UNCHANGED <<world, todo, used, log>>

CheckNext ==
    \/ Container \/ Site \/ Tls \/ SkipDomain \/ Proxy \/ Probe \/ Health \/ Logs
    \/ Dies \/ Degrades

CheckSpec == CheckInit /\ [][CheckNext]_checkVars

-----------------------------------------------------------------------------
(* Properties                                                              *)

\* What the gateway promises to its operator and to the rest of the world.
Sound ==
    /\ gateway.present /\ gateway.site /\ gateway.tls /\ gateway.healthy
    /\ gateway.pair /\ gateway.anonymous = "hides" /\ ~gateway.logs

\* A gateway passes only if it is sound, although no single request shows it: a proxy
\* that serves everybody also serves the pair, a break looks like a rejection, and a
\* log without destinations may only mean that no request got that far
\* (check-server.sh).
PassedIsSound == check = "passed" => Sound

\* A sound gateway is not refused as long as the network holds and a test target is up
\* that is not the gateway's own name: one that is down does not fail a deploy.
SoundPasses ==
    check = "failed" /\ Sound => broken \/ up \subseteq {domain}
=============================================================================
