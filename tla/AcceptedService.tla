--------------------------- MODULE AcceptedService ---------------------------
(***************************************************************************)
(* What the deployment machinery promises its operator, without saying     *)
(* how: there is at most one ACCEPTED service (a release commit together   *)
(* with the complete runtime env it was accepted with), it only ever       *)
(* changes in one indivisible step from one whole pair to another, and     *)
(* every replaced pair stays retained.  Failed candidates, rollbacks,      *)
(* crashes and retries are all stuttering steps of this specification.     *)
(***************************************************************************)

CONSTANTS
    Commits,     \* source revisions a release can be made of
    Settings,    \* the DOMAIN / ACME_EMAIL half of a runtime env
    Explicit,    \* credential pairs an operator supplies
    Generated,   \* credential pairs the deploy role generates
    None         \* absence

VARIABLES
    accepted,    \* the accepted service, None before the first acceptance
    retained     \* the services that were accepted before it

Envs == [setting : Settings, cred : Explicit \cup Generated]
Services == [commit : Commits, env : Envs]

vars == <<accepted, retained>>

Init == accepted = None /\ retained = {}

\* A candidate becomes the accepted service.  Once a service is accepted its
\* credential pair is kept, unless the operator supplied another one.
Accept(s) ==
    /\ accepted # None => s.env.cred \in Explicit \cup {accepted.env.cred}
    /\ accepted' = s
    /\ retained' = retained \cup ({accepted} \ {None})

Next == \E s \in Services : Accept(s)

Spec == Init /\ [][Next]_vars
=============================================================================
