------------------------------- MODULE SshdPolicy -------------------------------
(***************************************************************************)
(* How the ssh_policy role finds out that sshd denies root and passwords   *)
(* to everybody: sshd_policy.py walks through the configuration and the    *)
(* files it includes and refuses any Match block; then `sshd -T` tells the *)
(* effective policy for two connections only, root's and the managed       *)
(* user's from the controller's address.  The configuration is arbitrary.  *)
(***************************************************************************)
EXTENDS Naturals, Sequences

CONSTANTS
    Files,       \* the configuration files
    Main         \* /etc/ssh/sshd_config

ASSUME MainAssumption == Main \in Files

\* Connections: those that `sshd -T -C` is asked about, and all the others.
Contexts == {"asked", "elsewhere"}

VARIABLES
    content,     \* [Files -> what the file says]
    stack,       \* the calls of check_config, the innermost last
    verdict      \* "none", "walked", "passed" or "refused"

policyVars == <<content, stack, verdict>>

\* A file includes others, permits logins to everybody (or not), and may do so in a
\* Match block for some connections; it is legible unless it is a dangling link, not
\* UTF-8 or has an unbalanced quote.
Contents ==
    [includes : SUBSET Files, permits : BOOLEAN, legible : BOOLEAN,
     matches : {{}} \cup {{c} : c \in Contexts}]

\* One call of check_config.
Frame(file, ancestors) ==
    [file |-> file, ancestors |-> ancestors, todo |-> content[file].includes]
Top == stack[Len(stack)]

PolicyInit ==
    /\ content \in [Files -> Contents]
    /\ content[Main].legible
    /\ \A f \in Files \ {Main} : ~content[f].permits    \* it does not matter which one does
    /\ stack = <<[file |-> Main, ancestors |-> {}, todo |-> content[Main].includes]>>
    /\ verdict = "none"

Refuse == verdict' = "refused" /\ stack' = <<>> /\ UNCHANGED content

-----------------------------------------------------------------------------
(* check_config                                                            *)

\* Mutated Below: every file seen before counts as an ancestor.
BelowSeen(call) ==
    call.ancestors \cup {call.file} \cup (content[call.file].includes \ call.todo)

\* The ancestors of a file that the call includes.
Below(call) == call.ancestors \cup {call.file}

\* Mutated Include: files that an included file includes are not read.
IncludeOnce ==
    /\ stack # <<>>
    /\ content[Top.file].legible /\ Top.file \notin Top.ancestors
    /\ \E f \in Top.todo :
        LET call == [Top EXCEPT !.todo = @ \ {f}]
        IN  stack' = [stack EXCEPT ![Len(stack)] = call]
                        \o <<[file |-> f, ancestors |-> Below(call), todo |-> {}]>>
    /\ UNCHANGED <<content, verdict>>

Include ==
    /\ stack # <<>>
    /\ content[Top.file].legible /\ Top.file \notin Top.ancestors
    /\ \E f \in Top.todo :
        LET call == [Top EXCEPT !.todo = @ \ {f}]
        IN  stack' = [stack EXCEPT ![Len(stack)] = call] \o <<Frame(f, Below(call))>>
    /\ UNCHANGED <<content, verdict>>

\* The end of the file: no Match in it.
Return ==
    /\ stack # <<>>
    /\ content[Top.file].legible /\ Top.file \notin Top.ancestors
    /\ content[Top.file].matches = {} /\ Top.todo = {}
    /\ stack' = SubSeq(stack, 1, Len(stack) - 1)
    /\ verdict' = IF Len(stack) = 1 THEN "walked" ELSE "none"
    /\ UNCHANGED content

\* It raises: at a file that cannot be read, a cycle or a Match.
Raise ==
    /\ stack # <<>>
    /\ \/ ~content[Top.file].legible
       \/ Top.file \in Top.ancestors
       \/ content[Top.file].matches # {}
    /\ Refuse

-----------------------------------------------------------------------------
(* sshd                                                                    *)

Complete(files) == \A f \in files : content[f].includes \subseteq files

\* These files and whatever they include, at any depth.
WithIncluded(files) ==
    {f \in Files : \A all \in SUBSET Files : files \subseteq all /\ Complete(all) => f \in all}

\* What sshd reads.
Reads == WithIncluded({Main})

\* Whether a connection gets in without the operator's key, or as root.
Permits(context) ==
    \E f \in Reads : content[f].permits \/ context \in content[f].matches

\* sshd -T for the two connections, after the walk.
Effective ==
    /\ verdict = "walked"
    /\ verdict' = IF Permits("asked") THEN "refused" ELSE "passed"
    /\ UNCHANGED <<content, stack>>

PolicyNext == Include \/ Return \/ Raise \/ Effective

PolicySpec == PolicyInit /\ [][PolicyNext]_policyVars

-----------------------------------------------------------------------------
(* Properties                                                              *)

\* What the role accepts holds for every connection, although it asks about two of
\* them only: no file that sshd reads, however it is included, makes an exception for
\* another address (sshd_policy.py check_config, ssh_policy/tasks/main.yml).
HoldsForAll == verdict = "passed" => \A c \in Contexts : ~Permits(c)

\* A configuration is refused for a reason: a file that sshd reads is illegible,
\* includes itself, has a Match block or permits what must be denied; one that is
\* included twice, by different files, is no reason.
ReachedFrom(f) == WithIncluded(content[f].includes)
RefusedForReason ==
    verdict = "refused" =>
        \E f \in Reads :
            \/ ~content[f].legible \/ content[f].matches # {} \/ content[f].permits
            \/ f \in ReachedFrom(f)
=============================================================================
