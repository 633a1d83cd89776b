------------------------------- MODULE SshAccess -------------------------------
(***************************************************************************)
(* How the controller learns what the server permits (ssh.py, network.py,  *)
(* preflight.py and the probes of run_bootstrap and run_verify).  A        *)
(* command asks one question after the other, each in an OpenSSH session   *)
(* of its own that may break at any phase; all that comes back is the exit *)
(* status and what ssh printed, and the classification of that decides     *)
(* which user the playbooks log in as, whether the plays of the bootstrap  *)
(* user are left out and whether the access is declared safe.  Meanwhile   *)
(* the server may be installed anew, and the key file may become unusable. *)
(***************************************************************************)
EXTENDS Naturals

CONSTANTS
    MaxHost      \* bound: the machines that are VPS_HOST, one after the other

ASSUME MaxHostAssumption == MaxHost \in Nat \ {0}

Users == {"managed", "root", "admin"}
Passwords == {"password", "keyboard-interactive"}
Methods == Passwords \cup {"publickey"}
Kinds == {"preflight", "bootstrap", "deploy", "verify"}
Policies == [accepts : SUBSET Users, offers : {m \in SUBSET Methods : "publickey" \in m}]

VARIABLES
    machine,     \* the machine that answers, by its host key
    policy,      \* the users whose login with the operator's key it accepts, and
                 \* the authentication methods it offers
    known,       \* the host key in provisioning/known_hosts, 0 if none
    usable,      \* whether ssh can use the operator's private key file
    dns,         \* the addresses of DOMAIN and VPS_HOST, and whether the port answers
    boot,        \* VPS_BOOTSTRAP_USER
    kind,        \* the running command
    pc,          \* the question it asks
    mode,        \* what preflight found: "none", "managed", "bootstrap"
    skip,        \* the plays of the bootstrap user are left out
    ssh,         \* the phase of the session: "none", "local", "kex", "auth", "closed"
    err,         \* the kinds of messages it has printed
    rc           \* its exit status

server == <<machine, policy, usable, dns, boot>>
command == <<kind, mode, skip>>
session == <<ssh, err, rc>>
accessVars == <<server, known, command, pc, session>>

\* The question of each step: whose key login, or the methods that are offered.
Questions == {"p_managed", "p_boot", "b_boot", "c_managed", "c_root", "c_methods"}
Asked == CASE pc \in {"p_managed", "c_managed"} -> "managed"
           [] pc \in {"p_boot", "b_boot"} -> boot
           [] pc = "c_root" -> "root"
           [] OTHER -> "methods"

Records == [a : SUBSET {1, 2}, aaaa : SUBSET {6}, vps : SUBSET {1, 2}, reachable : SUBSET {1, 2}]

AccessInit ==
    /\ machine = 1 /\ policy \in Policies /\ usable \in BOOLEAN
    /\ dns \in {r \in Records : r.reachable \in {{}, r.vps} /\ 1 \in r.vps}
    /\ boot \in Users \ {"managed"}
    /\ known \in {0, 1}
    /\ kind = "none" /\ mode = "none" /\ skip = FALSE /\ pc = "idle"
    /\ ssh = "none" /\ err = {} /\ rc = 0

Ask(from, to) == pc = from /\ pc' = to /\ ssh' = "none" /\ err' = {} /\ rc' = 0

-----------------------------------------------------------------------------
(* One OpenSSH session                                                     *)

\* _local_contract_is_valid fails: ssh is not run at all.
ContractFails ==
    /\ pc \in Questions /\ ssh = "none"
    /\ ssh' = "closed" /\ rc' = 255 /\ err' = {"contract"}
    /\ UNCHANGED <<server, known, command, pc>>

\* ssh complains about a key file it cannot use, and goes on without it.
Connect ==
    /\ pc \in Questions /\ ssh = "none"
    /\ ssh' = "kex" /\ rc' = rc
    /\ err' = IF Asked # "methods" /\ ~usable THEN {"local"} ELSE {}
    /\ UNCHANGED <<server, known, command, pc>>

\* StrictHostKeyChecking=accept-new for a key probe, =yes for a methods probe.
HostKey ==
    /\ ssh = "kex"
    /\ IF known = machine \/ (known = 0 /\ Asked # "methods")
       THEN known' = machine /\ ssh' = "auth" /\ UNCHANGED <<err, rc>>
       ELSE /\ err' = err \cup {IF known = 0 THEN "unverified" ELSE "changed"}
            /\ ssh' = "closed" /\ rc' = 255 /\ known' = known
    /\ UNCHANGED <<server, command, pc>>

LoggedIn ==
    /\ ssh = "auth"
    /\ Asked \in policy.accepts /\ "local" \notin err
    /\ rc' \in {0, 1}           \* of the remote `true`, or of a login shell that refuses
    /\ ssh' = "closed" /\ err' = err
    /\ UNCHANGED <<server, known, command, pc>>

\* ssh has nothing more to offer.  A methods probe has seen what the server offers.
Denied ==
    /\ ssh = "auth"
    /\ Asked \notin policy.accepts \/ "local" \in err
    /\ ssh' = "closed" /\ rc' = 255
    /\ err' = err \cup {"denied"} \cup (IF Asked = "methods" THEN policy.offers ELSE {})
    /\ UNCHANGED <<server, known, command, pc>>

\* A refused, reset or timed-out connection, at any phase.
Disconnects ==
    /\ ssh \in {"kex", "auth"}
    /\ ssh' = "closed" /\ rc' = 255 /\ err' = err \cup {"transport"}
    /\ UNCHANGED <<server, known, command, pc>>

\* Mutated Verdict: the refusal is looked for before the local errors.
VerdictDeniedFirst ==
    CASE rc = 0 -> "ok"
      [] rc # 0 /\ err \cap {"changed", "unverified"} # {} -> "host_key_changed"
      [] "denied" \in err -> "auth_failed"
      [] OTHER -> "failed"

\* _classify_result; "failed" is CONNECTION_FAILED or LOCAL_ERROR.
Verdict ==
    CASE rc = 0 -> "ok"
      [] rc # 0 /\ err \cap {"changed", "unverified"} # {} -> "host_key_changed"
      [] err \cap {"local", "contract"} = {} /\ "denied" \in err -> "auth_failed"
      [] OTHER -> "failed"

\* Mutated PasswordMethodsDisabled: no offer counts as an offer without passwords.
PasswordMethodsUnseen == Passwords \cap err = {}

PasswordMethodsDisabled ==
    /\ Verdict = "auth_failed"
    /\ Methods \cap err # {}
    /\ Passwords \cap err = {}

-----------------------------------------------------------------------------
(* The commands                                                            *)

Start ==
    /\ Ask("idle", "network")
    /\ kind' \in Kinds /\ mode' = "none" /\ skip' = FALSE
    /\ UNCHANGED <<server, known>>

\* probe_network: the lookups, then validate_report.
NetworkIsValid ==
    /\ dns.aaaa = {}
    /\ dns.a # {} /\ dns.a \subseteq dns.vps
    /\ dns.reachable # {}

Network ==
    /\ Ask("network", "p_managed")
    /\ NetworkIsValid
    /\ UNCHANGED <<server, known, command>>

\* What follows preflight; deploy and verify refuse a host that is not managed.
AfterPreflight(m) ==
    IF kind = "bootstrap" THEN "b_boot"
    ELSE IF m = "managed" /\ kind = "verify" THEN "c_root"
    ELSE IF m = "managed" \/ kind = "preflight" THEN "idle" ELSE "stop"

ManagedHost ==
    /\ ssh = "closed" /\ Verdict = "ok"
    /\ mode' = "managed"
    /\ Ask("p_managed", AfterPreflight("managed"))
    /\ UNCHANGED <<server, known, kind, skip>>

NotManaged ==
    /\ ssh = "closed" /\ Verdict = "auth_failed"
    /\ Ask("p_managed", "p_boot")
    /\ UNCHANGED <<server, known, command>>

BootstrapHost ==
    /\ ssh = "closed" /\ Verdict = "ok"
    /\ mode' = "bootstrap"
    /\ Ask("p_boot", AfterPreflight("bootstrap"))
    /\ UNCHANGED <<server, known, kind, skip>>

AskBootstrapUser ==
    /\ ssh = "closed"
    /\ Verdict = "ok" \/ (mode = "managed" /\ Verdict = "auth_failed")
    /\ skip' = (Verdict = "auth_failed")
    /\ Ask("b_boot", "play")
    /\ UNCHANGED <<server, known, kind, mode>>

\* The playbook of a bootstrap; the probes after it find out what it has done.
Play ==
    /\ Ask("play", "c_managed")
    /\ policy' \in Policies
    /\ UNCHANGED <<machine, usable, dns, boot, known, command>>

Reconnected ==
    /\ ssh = "closed" /\ Verdict = "ok"
    /\ Ask("c_managed", "c_root")
    /\ UNCHANGED <<server, known, command>>

RootRejected ==
    /\ ssh = "closed" /\ Verdict = "auth_failed"
    /\ Ask("c_root", "c_methods")
    /\ UNCHANGED <<server, known, command>>

DeclareSafe ==
    /\ ssh = "closed" /\ PasswordMethodsDisabled
    /\ Ask("c_methods", "safe")
    /\ UNCHANGED <<server, known, command>>

\* Any other answer is an error, and the command ends; so does a lookup that finds no
\* name or gets no answer in time.
GiveUp ==
    /\ \/ pc = "network"
       \/ pc \in Questions /\ ssh = "closed"
            /\ CASE pc \in {"p_managed"} -> Verdict \notin {"ok", "auth_failed"}
                 [] pc \in {"p_boot", "c_managed"} -> Verdict # "ok"
                 [] pc = "b_boot" -> Verdict # "ok" /\ (mode # "managed" \/ Verdict # "auth_failed")
                 [] pc = "c_root" -> Verdict # "auth_failed"
                 [] OTHER -> ~PasswordMethodsDisabled
    /\ Ask(pc, "stop")
    /\ UNCHANGED <<server, known, command>>

End ==
    /\ \E step \in {"stop", "safe"} : Ask(step, "idle")
    /\ UNCHANGED <<server, known, command>>

-----------------------------------------------------------------------------
(* What changes behind the controller's back                               *)

Reinstall ==
    /\ machine < MaxHost
    /\ machine' = machine + 1 /\ policy' \in Policies
    /\ UNCHANGED <<known, usable, dns, boot, command, pc, session>>

KeyFileChanges ==
    /\ usable' = ~usable
    /\ UNCHANGED <<machine, policy, dns, boot, known, command, pc, session>>

\* The operator removes the old entry, after a comparison on the console.
ForgetHost ==
    /\ pc = "idle" /\ known \notin {0, machine}
    /\ known' = 0
    /\ UNCHANGED <<server, command, pc, session>>

AccessNext ==
    \/ ContractFails \/ Connect \/ HostKey \/ LoggedIn \/ Denied \/ Disconnects
    \/ Start \/ Network \/ ManagedHost \/ NotManaged \/ BootstrapHost
    \/ AskBootstrapUser \/ Play \/ Reconnected \/ RootRejected \/ DeclareSafe
    \/ GiveUp \/ End
    \/ Reinstall \/ KeyFileChanges \/ ForgetHost

AccessSpec == AccessInit /\ [][AccessNext]_accessVars

-----------------------------------------------------------------------------
(* Properties                                                              *)

\* The machine is still the one that the controller knows.
Same == known = machine

\* What the probes decide is what the server permits: a broken connection, a key file
\* ssh cannot use or another host never makes preflight fall back to the bootstrap
\* user (preflight.py: run_preflight), and the plays of that user are left out only if
\* he really cannot log in any more (run_bootstrap: "cannot determine a safe SSH
\* bootstrap recovery path").
ChoiceIsTrue ==
    /\ Same /\ (pc \in {"b_boot", "play"} \/ (kind = "verify" /\ mode # "none")) =>
           IF mode = "managed" THEN "managed" \in policy.accepts
           ELSE "managed" \notin policy.accepts /\ boot \in policy.accepts
    /\ Same /\ pc = "play" => (skip <=> boot \notin policy.accepts)

\* What is declared safe is safe on the machine that was asked: root's key login is
\* rejected and no password method is offered; an answer that was not seen proves
\* nothing (ssh.py: password_methods_disabled).
SafeIsTrue ==
    Same /\ pc = "safe" =>
        "root" \notin policy.accepts /\ Passwords \cap policy.offers = {}
=============================================================================
