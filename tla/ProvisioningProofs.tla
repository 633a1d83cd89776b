-------------------------- MODULE ProvisioningProofs --------------------------
(***************************************************************************)
(* Proofs about Provisioning for every set of checkouts and passwords and  *)
(* every number of faults.                                                 *)
(***************************************************************************)
EXTENDS ProvisioningInvariants, TLAPS

USE NamesAssumption, MaxFaultsAssumption, NoRunAssumption
    DEF hostVars, accountVars, sshVars, firewallVars, dockerVars, vars, Then, End, Changed,
        Families, Policies, Hosts, Steps, Kinds, Runs, Denied,
        DockerSteps, AfterReload, AfterWrite6, AfterWrite4, AfterEnable, AfterDeny, AfterAllow,
        AfterLimit, AfterFwCheck, AfterValidate, AfterProof

LEMMA InitEstablishes ==
  ASSUME Init
  PROVE  HostIInv
<1>1. TypeOK
  <2>1. host \in Hosts /\ account \in Passwords \cup {None, Foreign} /\ key \in BOOLEAN
    BY DEF Init
  <2>2. /\ rules \subseteq {"ssh", "gateway", "foreign"} /\ deny \in BOOLEAN /\ ufw \in BOOLEAN
        /\ docker \in {"absent", "foreign"}
    BY DEF Init
  <2>3. /\ block \in [Families -> Versions \cup {None}]
        /\ chain \in [Families -> Versions \cup {None}]
    BY DEF Init
  <2>4. /\ marker = FALSE /\ dropin = None /\ sshd = None
        /\ dockerMarker = FALSE /\ daemonFile = None /\ dockerd = None
        /\ pc = "idle" /\ run = None /\ saved = None /\ due = {} /\ faults = 0
    BY DEF Init
  <2>5. pc \in Steps /\ faults \in 0..MaxFaults
    BY <2>4
  <2> QED
    BY <2>1, <2>2, <2>3, <2>4, <2>5 DEF TypeOK
<1>2. block = [f \in Families |-> None] /\ chain = block
  BY DEF Init
<1>3. FirewallInv /\ ChainInv /\ DockerInv
  BY <1>2 DEF Init, FirewallInv, ChainInv, DockerInv, SshOpen
<1>4. RunInv /\ HostInv /\ AccountInv /\ SshInv /\ ForeignInv
  BY DEF Init, RunInv, HostInv, AccountInv, SshInv, ForeignInv
<1> QED
  BY <1>1, <1>3, <1>4 DEF HostIInv

\* The controller's own steps.
LEMMA ControllerKeeps ==
  ASSUME HostIInv, Starts \/ Controller
  PROVE  HostIInv'
<1> USE DEF HostIInv, TypeOK, RunInv, HostInv, AccountInv, SshInv, ForeignInv, FirewallInv,
            ChainInv, DockerInv, SshOpen, Closed, Behind, VerifyAccess, Owned, ManagedLogin,
            RootLogin, Permits
<1>1. CASE Starts
  <2>1. run' \in Runs /\ pc' = "preflight" /\ UNCHANGED <<host, hostVars, saved, due, faults>>
    <3>1. PICK kind \in Kinds : Start(kind)
      BY <1>1 DEF Starts, StartBootstrap, StartDeploy, StartProvision
    <3> QED
      BY <3>1 DEF Start
  <2> QED
    BY <1>1, <2>1 DEF Starts, StartBootstrap, StartDeploy, StartProvision, Start
<1>2. CASE PreflightManaged
  <2>1. run \in Runs /\ run' \in Runs /\ run'.kind = run.kind
    BY <1>2 DEF PreflightManaged
  <2> QED
    BY <1>2, <2>1 DEF PreflightManaged
<1>3. CASE PreflightBootstrap
  BY <1>3 DEF PreflightBootstrap
<1>4. CASE ProbeBootstrapUser
  <2>1. run \in Runs /\ run' = [run EXCEPT !.apply = BootLogin]
    BY <1>4 DEF ProbeBootstrapUser
  <2>2. BootLogin \in BOOLEAN
    BY DEF BootLogin
  <2>3. run' \in Runs /\ run'.kind = run.kind
    BY <2>1, <2>2
  <2> QED
    BY <1>4, <2>3 DEF ProbeBootstrapUser
<1>5. CASE Reconnect
  BY <1>5 DEF Reconnect
<1>6. CASE ProvisionDeploys
  BY <1>6 DEF ProvisionDeploys
<1>7. CASE BootstrapDone
  BY <1>7 DEF BootstrapDone
<1>8. CASE DeployGoesOn
  BY <1>8 DEF DeployGoesOn
<1>9. CASE RunRefused
  BY <1>9 DEF RunRefused
<1> QED
  BY <1>1, <1>2, <1>3, <1>4, <1>5, <1>6, <1>7, <1>8, <1>9 DEF Controller

LEMMA AccountRoleKeeps ==
  ASSUME HostIInv, CreateAccount \/ MarkAccount \/ AuthorizeKey \/ ProveSudo
  PROVE  HostIInv'
<1> USE DEF HostIInv, TypeOK, RunInv, HostInv, AccountInv, SshInv, ForeignInv, FirewallInv,
            ChainInv, DockerInv, SshOpen, Closed, Behind, VerifyAccess, Owned, ManagedLogin,
            RootLogin, Permits
<1>1. CASE CreateAccount
  BY <1>1 DEF CreateAccount, MayCreate
<1>2. CASE MarkAccount
  BY <1>2 DEF MarkAccount
<1>3. CASE AuthorizeKey
  BY <1>3 DEF AuthorizeKey
<1>4. CASE ProveSudo
  BY <1>4 DEF ProveSudo, Sudo
<1> QED
  BY <1>1, <1>2, <1>3, <1>4

LEMMA SshRoleKeeps ==
  ASSUME HostIInv, \/ SshInspect \/ SshInstall \/ SshValidate \/ SshReload \/ SshRejects
                 \/ SshRestore
  PROVE  HostIInv'
<1> USE DEF HostIInv, TypeOK, RunInv, HostInv, AccountInv, SshInv, ForeignInv, FirewallInv,
            ChainInv, DockerInv, SshOpen, Closed, Behind, VerifyAccess, Owned, ManagedLogin,
            RootLogin, Permits
<1>1. CASE SshInspect
  BY <1>1 DEF SshInspect
<1>2. CASE SshInstall
  BY <1>2 DEF SshInstall
<1>3. CASE SshValidate
  BY <1>3 DEF SshValidate
<1>4. CASE SshReload
  BY <1>4 DEF SshReload
<1>5. CASE SshRejects
  BY <1>5 DEF SshRejects
<1>6. CASE SshRestore
  BY <1>6 DEF SshRestore
<1> QED
  BY <1>1, <1>2, <1>3, <1>4, <1>5, <1>6

LEMMA FirewallRoleKeeps ==
  ASSUME HostIInv, \/ FwCheck \/ FwLimit \/ FwAllow \/ FwDeny \/ FwEnable
                 \/ FwWrite4 \/ FwWrite6 \/ FwReload \/ FwRequire
  PROVE  HostIInv'
<1> USE DEF HostIInv, TypeOK, RunInv, HostInv, AccountInv, SshInv, ForeignInv, FirewallInv,
            ChainInv, DockerInv, SshOpen, Closed, Behind, VerifyAccess, Owned, ManagedLogin,
            RootLogin, Permits
<1>1. CASE FwCheck
  BY <1>1 DEF FwCheck, FirewallManaged
<1>2. CASE FwLimit
  BY <1>2 DEF FwLimit
<1>3. CASE FwAllow
  <2>1. rules' = {"ssh", "gateway"}
    BY <1>3 DEF FwAllow
  <2> QED
    BY <1>3, <2>1 DEF FwAllow
<1>4. CASE FwDeny
  BY <1>4 DEF FwDeny
<1>5. CASE FwEnable
  <2>1. rules = {"ssh", "gateway"} /\ deny /\ ufw'
    BY <1>5 DEF FwEnable
  <2>2. FirewallInv' /\ ForeignInv'
    BY <1>5, <2>1 DEF FwEnable
  <2>3. CASE ufw
    BY <1>5, <2>1, <2>2, <2>3 DEF FwEnable
  <2>4. CASE ~ufw
    BY <1>5, <2>1, <2>2, <2>4 DEF FwEnable
  <2> QED
    BY <2>3, <2>4
<1>6. CASE FwWrite4
  BY <1>6 DEF FwWrite4, FwWrite
<1>7. CASE FwWrite6
  BY <1>7 DEF FwWrite6, FwWrite
<1>8. CASE FwReload
  BY <1>8 DEF FwReload
<1>9. CASE FwRequire
  BY <1>9 DEF FwRequire
<1> QED
  BY <1>1, <1>2, <1>3, <1>4, <1>5, <1>6, <1>7, <1>8, <1>9

LEMMA DockerRoleKeeps ==
  ASSUME HostIInv, \/ DockerCheck \/ DockerMark \/ DockerConfig \/ DockerInstall \/ DockerRestart
                 \/ DockerRequire
  PROVE  HostIInv'
<1> USE DEF HostIInv, TypeOK, RunInv, HostInv, AccountInv, SshInv, ForeignInv, FirewallInv,
            ChainInv, DockerInv, SshOpen, Closed, Behind, VerifyAccess, Owned, ManagedLogin,
            RootLogin, Permits
<1>1. CASE DockerCheck
  BY <1>1 DEF DockerCheck, Sudo, DockerManaged
<1>2. CASE DockerMark
  BY <1>2 DEF DockerMark
<1>3. CASE DockerConfig
  BY <1>3 DEF DockerConfig
<1>4. CASE DockerInstall
  BY <1>4 DEF DockerInstall
<1>5. CASE DockerRestart
  BY <1>5 DEF DockerRestart
<1>6. CASE DockerRequire
  BY <1>6 DEF DockerRequire
<1> QED
  BY <1>1, <1>2, <1>3, <1>4, <1>5, <1>6

LEMMA FaultKeeps ==
  ASSUME HostIInv, SshFails \/ RunDies \/ Reboot
  PROVE  HostIInv'
<1> USE DEF HostIInv, TypeOK, RunInv, HostInv, AccountInv, SshInv, ForeignInv, FirewallInv,
            ChainInv, DockerInv, SshOpen, Closed, Behind, VerifyAccess, Owned, ManagedLogin,
            RootLogin, Permits
<1>1. CASE SshFails
  BY <1>1 DEF SshFails, Partly, Spend
<1>2. CASE RunDies
  BY <1>2 DEF RunDies, Partly, Spend
<1>3. CASE Reboot
  <2>1. TypeOK' /\ RunInv' /\ HostInv' /\ AccountInv'
    <3>1. faults' \in 0..MaxFaults
      BY <1>3 DEF Reboot, Spend
    <3>2. /\ pc' \in Steps /\ run' \in Runs \cup {None} /\ saved' \in Versions \cup {None}
          /\ due' \subseteq {"ssh", "ufw", "docker"}
      BY <1>3 DEF Reboot
    <3>3. TypeOK'
      BY <1>3, <3>1, <3>2 DEF Reboot
    <3>4. RunInv' /\ HostInv' /\ AccountInv'
      BY <1>3 DEF Reboot
    <3> QED
      BY <3>3, <3>4
  <2>2. SshInv'
    BY <1>3 DEF Reboot
  <2>3. ForeignInv' /\ FirewallInv'
    BY <1>3 DEF Reboot
  <2>4. ChainInv'
    BY <1>3 DEF Reboot
  <2>5. DockerInv'
    BY <1>3 DEF Reboot
  <2> QED
    BY <2>1, <2>2, <2>3, <2>4, <2>5
<1> QED
  BY <1>1, <1>2, <1>3

LEMMA StepKeeps ==
  ASSUME HostIInv, [Next]_vars
  PROVE  HostIInv'
<1>1. CASE Starts \/ Controller
  BY <1>1, ControllerKeeps
<1>2. CASE Roles
  BY <1>2, AccountRoleKeeps, SshRoleKeeps, FirewallRoleKeeps, DockerRoleKeeps DEF Roles
<1>3. CASE Fault
  BY <1>3, FaultKeeps DEF Fault
<1>4. CASE UNCHANGED vars
  BY <1>4 DEF HostIInv, TypeOK, RunInv, HostInv, AccountInv, SshInv, ForeignInv, FirewallInv,
              ChainInv, DockerInv, SshOpen, Closed, Behind, VerifyAccess, Owned, ManagedLogin,
              RootLogin, Permits
<1> QED
  BY <1>1, <1>2, <1>3, <1>4 DEF Next

-----------------------------------------------------------------------------
(* Theorems                                                                *)

\* Every reachable state of the host and its controller satisfies the inductive
\* invariant: the run is interrupted and repeated as often as one likes.
THEOREM HostInvariance == Spec => []HostIInv
<1> QED
  BY InitEstablishes, StepKeeps, PTL DEF Spec

\* Every variable of the host and the run keeps its type.
THEOREM HostTypes == Spec => []TypeOK
<1>1. HostIInv => TypeOK
  BY DEF HostIInv
<1> QED
  BY <1>1, HostInvariance, PTL

\* No bootstrap, deploy or provision, interrupted anywhere, locks the operator out:
\* SSH is open, and the bootstrap user or the proven managed account gets in.
THEOREM OperatorNotLockedOut == Spec => []NoLockout
<1>1. HostIInv => NoLockout
  BY DEF HostIInv, TypeOK, HostInv, AccountInv, FirewallInv, NoLockout, BootLogin, RootLogin,
         Permits
<1> QED
  BY <1>1, HostInvariance, PTL

\* A bootstrap is declared safe only on a host that has the proven account, hardened
\* SSH, the exact firewall rules and this checkout's Docker ingress chains.
THEOREM SafetyDeclaration == Spec => []DeclaredSafe
<1>1. HostIInv => DeclaredSafe
  BY DEF HostIInv, AccountInv, SshInv, FirewallInv, ChainInv, DeclaredSafe, VerifyAccess
<1> QED
  BY <1>1, HostInvariance, PTL

\* The Docker daemon of this project never runs without the ingress chains.
THEOREM DockerIngress == Spec => []DockerBehindPolicy
<1>1. HostIInv => DockerBehindPolicy
  BY DEF HostIInv, DockerInv, DockerBehindPolicy
<1> QED
  BY <1>1, HostInvariance, PTL

\* A host that reaches the gateway role passes the host checks of `make verify`.
THEOREM ReadyHostVerifies == Spec => []ReadyVerifies
<1>1. HostIInv => ReadyVerifies
  BY DEF HostIInv, SshInv, FirewallInv, DockerInv, ReadyVerifies, VerifyFirewall, VerifyDocker,
         Closed, Behind
<1> QED
  BY <1>1, HostInvariance, PTL

\* A foreign account, Docker or firewall is left alone, and no password is changed.
THEOREM ForeignUntouched == Spec => NothingAdopted
<1>1. ASSUME HostIInv, [Next]_vars PROVE [KeepsForeign]_vars
  <2> USE <1>1 DEF HostIInv, TypeOK, AccountInv, ForeignInv, FirewallInv, KeepsForeign
  <2>1. CASE Starts
    BY <2>1 DEF Starts, StartBootstrap, StartDeploy, StartProvision, Start
  <2>2. CASE Controller
    BY <2>2 DEF Controller, PreflightManaged, PreflightBootstrap, ProbeBootstrapUser, Reconnect,
                ProvisionDeploys, BootstrapDone, DeployGoesOn, RunRefused
  <2>3. CASE Roles
    <3>1. CASE CreateAccount \/ MarkAccount \/ AuthorizeKey \/ ProveSudo
      BY <3>1 DEF CreateAccount, MayCreate, MarkAccount, AuthorizeKey, ProveSudo
    <3>2. CASE SshInspect \/ SshInstall \/ SshValidate \/ SshReload \/ SshRejects \/ SshRestore
      BY <3>2 DEF SshInspect, SshInstall, SshValidate, SshReload, SshRejects, SshRestore
    <3>3. CASE \/ FwCheck \/ FwLimit \/ FwAllow \/ FwDeny \/ FwEnable \/ FwWrite4 \/ FwWrite6
               \/ FwReload \/ FwRequire
      BY <3>3 DEF FwCheck, FwLimit, FwAllow, FwDeny, FwEnable, FwWrite4, FwWrite6, FwWrite,
                  FwReload, FwRequire
    <3>4. CASE \/ DockerCheck \/ DockerMark \/ DockerConfig \/ DockerInstall \/ DockerRestart
               \/ DockerRequire
      BY <3>4 DEF DockerCheck, DockerManaged, DockerMark, DockerConfig, DockerInstall,
                  DockerRestart, DockerRequire
    <3> QED
      BY <2>3, <3>1, <3>2, <3>3, <3>4 DEF Roles
  <2>4. CASE Fault
    <3>1. CASE SshFails \/ RunDies
      BY <2>4, <3>1 DEF SshFails, RunDies, Partly
    <3>2. CASE Reboot
      <4>1. docker = "foreign" \/ "foreign" \in rules => chain' = chain
        <5>1. docker = "foreign" \/ "foreign" \in rules =>
                \A f \in Families : block[f] = None /\ chain[f] = None
          BY DEF Closed
        <5>2. chain' = block \/ chain' = chain
          BY <3>2 DEF Reboot
        <5> QED
          BY <5>1, <5>2
      <4> QED
        BY <3>2, <4>1 DEF Reboot
    <3> QED
      BY <2>4, <3>1, <3>2 DEF Fault
  <2>5. CASE UNCHANGED vars
    BY <2>5
  <2> QED
    BY <2>1, <2>2, <2>3, <2>4, <2>5 DEF Next
<1> QED
  BY <1>1, HostInvariance, PTL DEF Spec, NothingAdopted
=============================================================================
