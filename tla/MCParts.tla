------------------------------- MODULE MCParts -------------------------------
(* The parts that share no state with each other, side by side: in every     *)
(* behaviour one of them runs, and the others stay in one initial state.     *)
EXTENDS OverlappingDeploys, SshAccess, RuntimeValues, SshdPolicy, IngressChain,
        BackupArchive, AcceptanceCheck

CONSTANTS c1, e1

MCCommits == {c1}
MCEnvs == {e1}

VARIABLE part    \* the part that runs

partVars == <<part, overVars, accessVars, valueVars, policyVars, chainVars,
              archiveVars, checkVars>>

-----------------------------------------------------------------------------
(* The initial state in which a part waits                                 *)

OverWaits ==
    /\ env = 0 /\ current = 0 /\ good = 0 /\ container = Off
    /\ recovery = NoRecord /\ snap = [d \in Deploys |-> NoRecord]
    /\ at = [d \in Deploys |-> "new"]
    /\ rescuing = {} /\ controller = 0 /\ crossed = FALSE /\ faults = 0

AccessWaits ==
    /\ machine = 1 /\ policy = [accepts |-> Users, offers |-> Methods] /\ usable = TRUE
    /\ dns = [a |-> {1}, aaaa |-> {}, vps |-> {1}, reachable |-> {1}]
    /\ boot = "root" /\ known = 0
    /\ kind = "none" /\ mode = "none" /\ skip = FALSE /\ pc = "idle"
    /\ ssh = "none" /\ err = {} /\ rc = 0

Plain == [includes |-> {}, permits |-> FALSE, legible |-> TRUE, matches |-> {}]

PolicyWaits ==
    /\ content = [f \in Files |-> Plain]
    /\ stack = <<[file |-> Main, ancestors |-> {}, todo |-> {}]>> /\ verdict = "none"

ChainWaits ==
    /\ packet = CHOOSE p \in Packets : TRUE
    /\ visits = << [chain |-> "DOCKER-USER", at |-> 1] >> /\ fate = "none"

CheckWaits ==
    /\ gateway = [present |-> TRUE, site |-> TRUE, tls |-> TRUE, pair |-> TRUE,
                  anonymous |-> "hides", logs |-> FALSE, healthy |-> TRUE]
    /\ domain = "own" /\ up = {}
    /\ check = "container" /\ todo = Targets /\ used = NoTarget /\ log = {} /\ broken = FALSE

-----------------------------------------------------------------------------

PartsInit ==
    /\ part \in {"deploys", "access", "values", "sshd", "ingress", "archive", "acceptance"}
    /\ IF part = "deploys" THEN OverInit ELSE OverWaits
    /\ IF part = "access" THEN AccessInit ELSE AccessWaits
    /\ IF part = "sshd" THEN PolicyInit ELSE PolicyWaits
    /\ IF part = "ingress" THEN ChainInit ELSE ChainWaits
    /\ IF part = "acceptance" THEN CheckInit ELSE CheckWaits
    /\ ValueInit
    /\ ArchiveInit       \* one state, with one commit and one env

PartsNext ==
    /\ part' = part
    /\ \/ part = "deploys" /\ OverNext
            /\ UNCHANGED <<accessVars, valueVars, policyVars, chainVars, archiveVars, checkVars>>
       \/ part = "access" /\ AccessNext
            /\ UNCHANGED <<overVars, valueVars, policyVars, chainVars, archiveVars, checkVars>>
       \/ part = "values" /\ ValueNext
            /\ UNCHANGED <<overVars, accessVars, policyVars, chainVars, archiveVars, checkVars>>
       \/ part = "sshd" /\ PolicyNext
            /\ UNCHANGED <<overVars, accessVars, valueVars, chainVars, archiveVars, checkVars>>
       \/ part = "ingress" /\ ChainNext
            /\ UNCHANGED <<overVars, accessVars, valueVars, policyVars, archiveVars, checkVars>>
       \/ part = "archive" /\ ArchiveNext
            /\ UNCHANGED <<overVars, accessVars, valueVars, policyVars, chainVars, checkVars>>
       \/ part = "acceptance" /\ CheckNext
            /\ UNCHANGED <<overVars, accessVars, valueVars, policyVars, chainVars, archiveVars>>

PartsSpec == PartsInit /\ [][PartsNext]_partVars
=============================================================================
