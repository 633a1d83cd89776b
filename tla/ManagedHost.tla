------------------------------ MODULE ManagedHost ------------------------------
(***************************************************************************)
(* The VPS and the roles that manage it (provisioning/roles user, ssh,     *)
(* ssh_policy, firewall, docker): the account, the SSH hardening, the UFW  *)
(* and Docker ingress rules, the Docker daemon.                            *)
(*                                                                         *)
(* Most settings exist twice: as a file, and as what the running daemon or *)
(* kernel loaded from it.  A role reloads only what its own run changed    *)
(* (`due`), so a run that dies after a write takes the reload with it.     *)
(***************************************************************************)
EXTENDS Naturals

CONSTANTS
    Versions,    \* checkouts of this repository: each has its own drop-in,
                 \* ingress rules and daemon.json
    Passwords,   \* the sudo passwords an operator may type
    Foreign,     \* a password that this project did not set
    None,        \* an absent account, file or configuration
    MaxFaults    \* bound: failed tasks, deaths and reboots of a behaviour

ASSUME NamesAssumption ==
    /\ Foreign \notin Passwords /\ None \notin Passwords \cup {Foreign} \cup Versions
ASSUME MaxFaultsAssumption == MaxFaults \in Nat

Families == {"v4", "v6"}
Policies == [root : BOOLEAN, password : BOOLEAN]
Hosts == [bootRoot : BOOLEAN, rootKey : BOOLEAN, base : Policies, overridden : BOOLEAN]

VARIABLES
    host,          \* what this project never changes: is the bootstrap user root,
                   \* does root accept the operator's key, the SSH policy without the
                   \* drop-in, and whether other files override the drop-in
    account,       \* the managed account: None, or its password
    marker,        \* user-managed-<user>: this project created the account
    key,           \* the account accepts the operator's key
    dropin,        \* the SSH hardening file
    sshd,          \* the hardening that the running sshd loaded
    rules,         \* explicit UFW rules: "ssh" (the SSH port is open), "gateway"
                   \* (80 and 443 are), "foreign" (some rule is not of this project)
    deny,          \* UFW denies incoming traffic by default
    ufw,           \* UFW is active
    block,         \* the Docker ingress block in after.rules / after6.rules
    chain,         \* the NAIVE-GATEWAY-DOCKER chain in the kernel
    docker,        \* Docker: "absent", "foreign" or "installed"
    dockerMarker,  \* docker-managed: this project manages Docker
    daemonFile,    \* daemon.json
    dockerd,       \* the daemon.json that the running daemon loaded
    pc,            \* the next step of the controller's run
    run,           \* the run's parameters
    saved,         \* ssh_previous_content: the drop-in before this run
    due,           \* what this run changed and has not reloaded yet
    faults

accountVars == <<account, marker, key>>
sshVars == <<dropin, sshd>>
firewallVars == <<rules, deny, ufw, block, chain>>
dockerVars == <<docker, dockerMarker, daemonFile, dockerd>>
hostVars == <<accountVars, sshVars, firewallVars, dockerVars>>

Steps == {"idle", "preflight", "probe", "create", "mark", "authorize", "prove",
          "ssh_inspect", "ssh_install", "ssh_validate", "ssh_reload", "ssh_restore",
          "fw_check", "fw_limit", "fw_allow", "fw_deny", "fw_enable", "fw_v4", "fw_v6",
          "fw_reload", "fw_require", "reconnect", "safe",
          "docker_check", "docker_mark", "docker_config", "docker_install",
          "docker_restart", "docker_require", "ready"}

Then(from, to) == pc = from /\ pc' = to
End == pc' = "idle" /\ run' = None /\ saved' = None /\ due' = {}
Changed(what, old) == due' = IF old = run.version THEN due ELSE due \cup {what}

-----------------------------------------------------------------------------
(* Who can log in                                                          *)

Denied == [root |-> FALSE, password |-> FALSE]

\* The effective policy of a hardening file (sshd -T).
Permits(file) == IF file = None \/ host.overridden THEN host.base ELSE Denied

SshOpen == ufw /\ deny => "ssh" \in rules

ManagedLogin == SshOpen /\ account # None /\ key
RootLogin == SshOpen /\ host.rootKey /\ Permits(sshd).root
BootLogin == IF host.bootRoot THEN RootLogin ELSE SshOpen

\* ownership.yml, and `sudo -k` with the password that was typed.
Owned == account # None /\ marker
Sudo == ManagedLogin /\ Owned /\ account = run.password

-----------------------------------------------------------------------------
(* Role user: the first play, as the bootstrap user                        *)

MayCreate == account = None \/ marker

\* Mutated CreateAccount: an existing account is adopted.
AdoptAccount ==
    /\ Then("create", "mark")
    /\ account' = IF account = None THEN run.password ELSE account
    /\ UNCHANGED <<host, marker, key, sshVars, firewallVars, dockerVars, run, saved, due, faults>>

CreateAccount ==
    /\ Then("create", "mark")
    /\ MayCreate
    /\ account' = IF account = None THEN run.password ELSE account
    /\ UNCHANGED <<host, marker, key, sshVars, firewallVars, dockerVars, run, saved, due, faults>>

MarkAccount ==
    /\ Then("mark", "authorize")
    /\ marker' = TRUE
    /\ UNCHANGED <<host, account, key, sshVars, firewallVars, dockerVars, run, saved, due, faults>>

AuthorizeKey ==
    /\ Then("authorize", "prove")
    /\ key' = TRUE
    /\ UNCHANGED <<host, account, marker, sshVars, firewallVars, dockerVars, run, saved, due, faults>>

-----------------------------------------------------------------------------
(* The second play, as the managed user: proof of sudo, then role ssh      *)

\* Mutated ProveSudo: the login is enough.
ProveLogin ==
    /\ Then("prove", "ssh_inspect")
    /\ UNCHANGED <<host, hostVars, run, saved, due, faults>>

ProveSudo ==
    /\ Then("prove", "ssh_inspect")
    /\ Sudo
    /\ UNCHANGED <<host, hostVars, run, saved, due, faults>>

SshInspect ==
    /\ Then("ssh_inspect", "ssh_install")
    /\ saved' = dropin
    /\ UNCHANGED <<host, hostVars, run, due, faults>>

SshInstall ==
    /\ Then("ssh_install", "ssh_validate")
    /\ dropin' = run.version
    /\ Changed("ssh", dropin)
    /\ UNCHANGED <<host, accountVars, sshd, firewallVars, dockerVars, run, saved, faults>>

\* ssh_policy: what sshd would do with the files for root and the managed user.
SshValidate ==
    /\ Then("ssh_validate", "ssh_reload")
    /\ Permits(dropin) = Denied
    /\ UNCHANGED <<host, hostVars, run, saved, due, faults>>

SshReload ==
    /\ Then("ssh_reload", "fw_check")
    /\ sshd' = IF "ssh" \in due THEN dropin ELSE sshd
    /\ due' = due \ {"ssh"}
    /\ UNCHANGED <<host, accountVars, dropin, firewallVars, dockerVars, run, saved, faults>>

SshRejects ==
    /\ Then("ssh_validate", "ssh_restore")
    /\ Permits(dropin) # Denied
    /\ UNCHANGED <<host, hostVars, run, saved, due, faults>>

\* The rescue section: the old bytes, or no file; never a reload.
SshRestore ==
    /\ pc = "ssh_restore"
    /\ dropin' = saved
    /\ End
    /\ UNCHANGED <<host, accountVars, sshd, firewallVars, dockerVars, faults>>

-----------------------------------------------------------------------------
(* Role firewall                                                           *)

FirewallManaged ==
    /\ docker = "absent" \/ dockerMarker
    /\ "foreign" \notin rules

FwCheck ==
    /\ Then("fw_check", "fw_limit")
    /\ FirewallManaged
    /\ UNCHANGED <<host, hostVars, run, saved, due, faults>>

\* Mutated FwLimit: SSH is allowed only together with the gateway's ports, after
\* UFW was enabled.
FwLimitLater ==
    /\ Then("fw_limit", "fw_deny")
    /\ UNCHANGED <<host, hostVars, run, saved, due, faults>>

FwLimit ==
    /\ Then("fw_limit", "fw_allow")
    /\ rules' = rules \cup {"ssh"}
    /\ UNCHANGED <<host, accountVars, sshVars, deny, ufw, block, chain, dockerVars,
                   run, saved, due, faults>>

FwAllow ==
    /\ Then("fw_allow", "fw_deny")
    /\ rules' = rules \cup {"gateway"}
    /\ UNCHANGED <<host, accountVars, sshVars, deny, ufw, block, chain, dockerVars,
                   run, saved, due, faults>>

\* `ufw default` restarts an active firewall, which loads the files again.
FwDeny ==
    /\ Then("fw_deny", "fw_enable")
    /\ deny' = TRUE
    /\ chain' = IF ufw THEN block ELSE chain
    /\ UNCHANGED <<host, accountVars, sshVars, rules, ufw, block, dockerVars,
                   run, saved, due, faults>>

\* Enabling loads the files; enabling what is active does nothing.
FwEnable ==
    /\ Then("fw_enable", "fw_v4")
    /\ ufw' = TRUE
    /\ chain' = IF ufw THEN chain ELSE block
    /\ UNCHANGED <<host, accountVars, sshVars, rules, deny, block, dockerVars,
                   run, saved, due, faults>>

\* The validated rules go into the file and notify `Reload UFW`.
FwWrite(family) ==
    /\ block' = [block EXCEPT ![family] = run.version]
    /\ Changed("ufw", block[family])
    /\ UNCHANGED <<host, accountVars, sshVars, rules, deny, ufw, chain, dockerVars,
                   run, saved, faults>>

FwWrite4 == Then("fw_v4", "fw_v6") /\ FwWrite("v4")
FwWrite6 == Then("fw_v6", "fw_reload") /\ FwWrite("v6")

\* Mutated FwReload: the handlers are not flushed before the chains are inspected.
FwReloadLater ==
    /\ Then("fw_reload", "fw_require")
    /\ UNCHANGED <<host, hostVars, run, saved, due, faults>>

\* flush_handlers.
FwReload ==
    /\ Then("fw_reload", "fw_require")
    /\ chain' = IF "ufw" \in due THEN block ELSE chain
    /\ due' = due \ {"ufw"}
    /\ UNCHANGED <<host, accountVars, sshVars, rules, deny, ufw, block, dockerVars,
                   run, saved, faults>>

\* The jump and the deny rule are in the kernel, whichever version they are of.
Behind == \A f \in Families : chain[f] # None

FwRequire ==
    /\ Then("fw_require", "reconnect")
    /\ Behind
    /\ UNCHANGED <<host, hostVars, run, saved, due, faults>>

-----------------------------------------------------------------------------
(* deploy.yml: ownership, sudo and role docker                             *)

DockerManaged == dockerMarker \/ (docker = "absent" /\ daemonFile = None)

\* Mutated DockerCheck: Docker is installed before the ingress policy is required.
DockerCheckLate ==
    /\ Then("docker_check", "docker_mark")
    /\ Sudo /\ DockerManaged
    /\ UNCHANGED <<host, hostVars, run, saved, due, faults>>

DockerCheck ==
    /\ Then("docker_check", "docker_mark")
    /\ Sudo /\ DockerManaged /\ Behind
    /\ UNCHANGED <<host, hostVars, run, saved, due, faults>>

DockerMark ==
    /\ Then("docker_mark", "docker_config")
    /\ dockerMarker' = TRUE
    /\ UNCHANGED <<host, accountVars, sshVars, firewallVars, docker, daemonFile, dockerd,
                   run, saved, due, faults>>

DockerConfig ==
    /\ Then("docker_config", "docker_install")
    /\ daemonFile' = run.version
    /\ Changed("docker", daemonFile)
    /\ UNCHANGED <<host, accountVars, sshVars, firewallVars, docker, dockerMarker, dockerd,
                   run, saved, faults>>

\* The packages start the daemon; one that runs stays as it is.
DockerInstall ==
    /\ Then("docker_install", "docker_restart")
    /\ docker' = "installed"
    /\ dockerd' = IF dockerd = None THEN daemonFile ELSE dockerd
    /\ UNCHANGED <<host, accountVars, sshVars, firewallVars, dockerMarker, daemonFile,
                   run, saved, due, faults>>

DockerRestart ==
    /\ Then("docker_restart", "docker_require")
    /\ dockerd' = IF "docker" \in due THEN daemonFile ELSE dockerd
    /\ due' = due \ {"docker"}
    /\ UNCHANGED <<host, accountVars, sshVars, firewallVars, docker, dockerMarker, daemonFile,
                   run, saved, faults>>

\* Mutated DockerRequire: any managed chain will do.
DockerRequireAny ==
    /\ Then("docker_require", "ready")
    /\ UNCHANGED <<host, hostVars, run, saved, due, faults>>

\* The chains in the kernel are exactly this version's.
DockerRequire ==
    /\ Then("docker_require", "ready")
    /\ \A f \in Families : chain[f] = run.version
    /\ UNCHANGED <<host, hostVars, run, saved, due, faults>>

-----------------------------------------------------------------------------
(* The checks of the roles that refuse to go on                            *)

Refuses ==
    \/ pc = "create" /\ ~MayCreate
    \/ pc = "prove" /\ ~Sudo
    \/ pc = "fw_check" /\ ~FirewallManaged
    \/ pc = "fw_require" /\ ~Behind
    \/ pc = "docker_check" /\ ~(Sudo /\ DockerManaged /\ Behind)
    \/ pc = "docker_require" /\ \E f \in Families : chain[f] # run.version
=============================================================================
