------------------------ MODULE ProvisioningInvariants ------------------------
(***************************************************************************)
(* The inductive invariant of Provisioning: what each step of a run may    *)
(* rely on, and what an interrupted run leaves behind for the next one.    *)
(***************************************************************************)
EXTENDS Provisioning

\* The steps from one of the second play to the end of a bootstrap, and those of
\* deploy.yml after its first checks.
DockerSteps == {"docker_mark", "docker_config", "docker_install", "docker_restart",
                "docker_require", "ready"}
AfterReload == {"fw_require", "reconnect", "safe"}
AfterWrite6 == AfterReload \cup {"fw_reload"}
AfterWrite4 == AfterWrite6 \cup {"fw_v6"}
AfterEnable == AfterWrite4 \cup {"fw_v4"}
AfterDeny == AfterEnable \cup {"fw_enable"}
AfterAllow == AfterDeny \cup {"fw_deny"}
AfterLimit == AfterAllow \cup {"fw_allow"}
AfterFwCheck == AfterLimit \cup {"fw_limit"}
AfterValidate == AfterFwCheck \cup {"ssh_reload", "fw_check"}
AfterProof == AfterValidate \cup {"ssh_inspect", "ssh_install", "ssh_validate", "ssh_restore"}

\* The gateway's firewall, whichever version its ingress chain is of.
Closed == ufw /\ deny /\ rules = {"ssh", "gateway"}

RunInv == IF pc = "idle" THEN run = None /\ saved = None ELSE run \in Runs

HostInv == host.bootRoot => host.rootKey /\ host.base.root

\* SSH is hardened only once the managed account was proven, and restored only to
\* what was hardened before.
AccountInv ==
    /\ pc = "authorize" => marker
    /\ pc \in AfterProof \cup DockerSteps => key /\ marker /\ account = run.password
    /\ dropin # None \/ sshd # None \/ saved # None => key /\ marker /\ account \in Passwords

SshInv ==
    /\ pc \in AfterValidate => Permits(dropin) = Denied
    /\ pc = "safe" \/ (pc \in DockerSteps \cup {"docker_check"} /\ run.kind = "provision")
       => VerifyAccess

\* Foreign firewall rules and a foreign Docker are met by no step that changes them,
\* nor by a firewall that has ingress blocks to load.
ForeignInv ==
    /\ docker = "foreign" =>
        /\ ~dockerMarker /\ pc \notin AfterFwCheck \cup DockerSteps
        /\ \A f \in Families : block[f] = None
    /\ "foreign" \in rules => pc \notin AfterFwCheck

\* UFW is enabled, and the ingress blocks are written, behind the rules for SSH.
FirewallInv ==
    /\ SshOpen
    /\ pc \in AfterLimit => "ssh" \in rules
    /\ pc \in AfterAllow => rules = {"ssh", "gateway"}
    /\ pc \in AfterDeny => deny
    /\ pc \in AfterEnable => ufw
    /\ \A f \in Families :
        /\ block[f] # None => Closed
        /\ chain[f] # None => block[f] # None

ChainInv ==
    /\ pc \in AfterWrite4 => block["v4"] = run.version
    /\ pc \in AfterWrite6 => block["v6"] = run.version
    /\ pc = "fw_enable" /\ ufw => chain = block
    /\ pc \in {"fw_v4", "fw_v6", "fw_reload"} => "ufw" \in due \/ chain = block
    /\ pc \in AfterReload => chain = block

DockerInv ==
    /\ dockerd # None \/ docker = "installed" \/ pc \in DockerSteps => Behind
    /\ pc \in DockerSteps \ {"docker_mark", "docker_config"} => daemonFile = run.version
    /\ pc \in {"docker_restart", "docker_require", "ready"} => docker = "installed"
    /\ pc = "ready" => \A f \in Families : chain[f] = run.version

\* What every reachable state of a host satisfies: from it follow NoLockout,
\* DeclaredSafe, DockerBehindPolicy and ReadyVerifies for every set of checkouts and
\* passwords and any number of faults (bootstrap.yml, deploy.yml).
HostIInv ==
    /\ TypeOK
    /\ RunInv /\ HostInv /\ AccountInv /\ SshInv
    /\ ForeignInv /\ FirewallInv /\ ChainInv /\ DockerInv
=============================================================================
