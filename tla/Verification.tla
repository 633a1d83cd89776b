------------------------------ MODULE Verification ------------------------------
(***************************************************************************)
(* `make verify`, `make credentials` and `make provision` over the deploys *)
(* of DeployTransaction: what verify.yml and check-server.sh look at to    *)
(* find the installed gateway in order, and the credential pair that the   *)
(* controller reads from gateway.env and prints.  Neither of them looks at *)
(* deployment-recovery.  `make provision` deploys, verifies and prints in  *)
(* one session, each step only after the one before it has succeeded; the  *)
(* other commands are run by hand, whatever the state of the host.         *)
(***************************************************************************)
EXTENDS DeployTransaction

VARIABLES
    cmd,         \* the controller command: "none", "deploy", "provision", "verify"
                 \* or "credentials"
    step,        \* its next step: "none", "deploy", "verify" or "show"
    verified,    \* verify.yml has passed, and nothing has changed the host since
    shown        \* the pair just printed, None if none

verVars == <<vars, cmd, step, verified, shown>>

VerInit == Init /\ cmd = "none" /\ step = "none" /\ verified = FALSE /\ shown = None

Resting == pc = "idle" /\ cmd = "none"

-----------------------------------------------------------------------------
(* verify.yml, for the settings j and GATEWAY_REF ref (None: not a commit) *)

EnvMatches(j) ==
    /\ env # None
    /\ env.setting = j.setting
    /\ j.explicit # None => env.cred = j.explicit

\* The pointer names a managed release, whose marker names the same commit.
PointerMatches(ref) ==
    /\ current # None /\ Complete(current)
    /\ ref # None => current = ref

\* One container, of the installed image, with the installed Compose files.
ContainerMatches ==
    /\ container # None /\ container.commit = current
    /\ Stoppable(current)

\* check-server.sh: the site answers, the container is healthy, and the proxy accepts
\* the domain and the pair that gateway.env names.
ServerAccepts == container.healthy /\ container.env = env

VerifyPasses(j, ref) ==
    EnvMatches(j) /\ PointerMatches(ref) /\ ContainerMatches /\ ServerAccepts

-----------------------------------------------------------------------------
(* The controller                                                          *)

\* run_deploy, by hand or as a part of run_provision.
Deploy ==
    /\ Resting /\ StartDeploy
    /\ cmd' \in {"deploy", "provision"} /\ step' = "deploy"
    /\ verified' = FALSE /\ shown' = None

\* Mutated Ended: the exit status of ansible-playbook is not looked at.
EndedUnchecked(ok) ==
    IF cmd = "provision" THEN cmd' = cmd /\ step' = "verify" ELSE cmd' = "none" /\ step' = "none"

\* ansible-playbook exits: a command that fails ends there.
Ended(ok) ==
    IF ok /\ cmd = "provision"
    THEN cmd' = cmd /\ step' = "verify"
    ELSE cmd' = "none" /\ step' = "none"

DeployRuns ==
    /\ step = "deploy"
    /\ Call \/ CallFault \/ Recovered \/ Prepared \/ Activated \/ Failed \/ Crash
    /\ IF pc' = "idle"
       THEN Ended(pc = "commit" /\ rt = "done")
       ELSE cmd' = cmd /\ step' = step
    /\ UNCHANGED <<verified, shown>>

\* run_verify by hand, with any settings.
StartVerify ==
    /\ Resting
    /\ cmd' = "verify" /\ step' = "verify" /\ verified' = FALSE /\ shown' = None
    /\ UNCHANGED vars

VerifyPass ==
    /\ step = "verify"
    /\ \E j \in Jobs, ref \in Commits \cup {None} : VerifyPasses(j, ref)
    /\ verified' = TRUE
    /\ IF cmd = "provision" THEN step' = "show" /\ cmd' = cmd ELSE step' = "none" /\ cmd' = "none"
    /\ UNCHANGED <<vars, shown>>

\* Anything else: a check fails, the site or the host is not reached.
VerifyFail ==
    /\ step = "verify"
    /\ cmd' = "none" /\ step' = "none"
    /\ UNCHANGED <<vars, verified, shown>>

StartCredentials ==
    /\ Resting
    /\ cmd' = "credentials" /\ step' = "show" /\ shown' = None
    /\ UNCHANGED <<vars, verified>>

\* read_credentials: `cat gateway.env`, whatever runs.
Show ==
    /\ step = "show" /\ env # None
    /\ shown' = env.cred
    /\ cmd' = "none" /\ step' = "none"
    /\ UNCHANGED <<vars, verified>>

ShowFails ==
    /\ step = "show"
    /\ cmd' = "none" /\ step' = "none"
    /\ UNCHANGED <<vars, verified, shown>>

VerNext ==
    \/ Deploy \/ DeployRuns
    \/ StartVerify \/ VerifyPass \/ VerifyFail
    \/ StartCredentials \/ Show \/ ShowFails

VerSpec == VerInit /\ [][VerNext]_verVars

-----------------------------------------------------------------------------
(* Properties                                                              *)

\* `make provision` prints nothing but the pair of the accepted service, and only
\* while that service runs, however many of the deploys before it failed, died or
\* were rolled back (provisioning.py run_provision, cli.py).
ProvisionShowsAccepted ==
    [][cmd = "provision" /\ shown' # shown =>
        /\ AcceptedBar # None /\ shown' = AcceptedBar.env.cred
        /\ container = Running(AcceptedBar.commit, AcceptedBar.env)]_verVars

\* The role and the verification agree.  What a deploy reports as successful passes
\* verify.yml with the same settings, also when they ask for that very commit; and the
\* accepted service keeps passing it, whatever deploys fail, die or are rolled back
\* after its acceptance: once no transaction is unfinished, nothing is left that
\* verify.yml would object to (runtime_state.py commit and recover).
AcceptedVerifies ==
    /\ pc = "commit" /\ rt = "done" => VerifyPasses(job, None) /\ VerifyPasses(job, candidate)
    /\ ~Readable /\ AcceptedBar # None =>
           VerifyPasses([setting |-> env.setting, explicit |-> None], AcceptedBar.commit)

\* verify.yml does not look at deployment-recovery and may pass in the middle of an
\* interrupted transaction.  What it passes then is one whole service all the same, the
\* accepted one or the candidate with the env it was prepared with, wherever a deploy, a
\* rollback or a commit died (activate.yml, runtime_state.py recover and commit).
VerifiedIsWhole ==
    verified =>
        LET served == [commit |-> container.commit, env |-> container.env] IN
        \/ served = AcceptedBar
        \/ /\ Readable
           /\ served = [commit |-> recovery.meta.candidate, env |-> recovery.candidate]

\* README.md: verify checks the installed gateway.
VerifiedIsAccepted ==
    verified /\ Resting =>
        AcceptedBar # None /\ container = Running(AcceptedBar.commit, AcceptedBar.env)
=============================================================================
