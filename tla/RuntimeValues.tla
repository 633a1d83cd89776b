------------------------------ MODULE RuntimeValues ------------------------------
(***************************************************************************)
(* The values of the runtime env on their way through the program.  The    *)
(* controller validates them (config.py), the role validates them again    *)
(* (main.yml), the template writes gateway.env, and five readers take it   *)
(* apart, each in its own way: credentials.yml on the next deploy,         *)
(* `make credentials`, the restore of a backup, verify.yml, and a shell    *)
(* that sources it (common.sh), for check-server.sh and the rotation.      *)
(*                                                                         *)
(* A value is a sequence of characters, of which there is one for each     *)
(* class that a validator or a reader tells apart: "a" stands for letters  *)
(* and digits, "%" for % and +, NL for a line feed.                        *)
(***************************************************************************)
EXTENDS Naturals, SequencesExt

CONSTANTS
    MaxHostLength, MaxValueLength      \* bounds: the length of the values

ASSUME LengthAssumption == MaxHostLength \in Nat /\ MaxValueLength \in Nat

VARIABLES
    settings,    \* the settings of the running command
    file,        \* gateway.env, <<>> when there is none
    wanted       \* the settings it was written for, with the pair (history variable)

valueVars == <<settings, file, wanted>>

NL == "line feed"
NoSettings == [none |-> TRUE]

\* DOMAIN, ACME_EMAIL, NAIVE_USER and NAIVE_PASSWORD.
Keys == {"domain", "acme_email", "naive_user", "naive_password"}
Settings(d, e, u, p) == [domain |-> d, acme_email |-> e, naive_user |-> u, naive_password |-> p]
Generated == <<"a", "a">>          \* openssl rand -hex

\* The settings an .env may hold: any domain, contact or pair with proper others.
Domain == <<"a", ".", "a">>
Email == <<"a", "@", "a">>
Values(chars, length) == BoundedSeq(chars, length)
Secrets == Values({"a", "~", "=", NL}, MaxValueLength)
Inputs ==
    {Settings(d, Email, <<>>, <<>>) : d \in Values({"a", "-", ".", NL}, MaxHostLength)}
        \cup {Settings(Domain, e, <<>>, <<>>) : e \in Values({"a", "@", "%", "~", NL}, MaxHostLength)}
        \cup {Settings(Domain, Email, u, p) : u \in Secrets, p \in {<<>>, <<"a">>}}
        \cup {Settings(Domain, Email, u, p) : u \in {<<>>, <<"a">>}, p \in Secrets}

-----------------------------------------------------------------------------
(* Regular expressions                                                     *)

Only(v, chars) == v # <<>> /\ ToSet(v) \subseteq chars

\* What a pattern with a final $ may match of v, as in Ansible's `is match('^...$')`: a
\* line feed may follow.  The controller and the scripts use fullmatch.
UpToEnd(v) == {v} \cup (IF v # <<>> /\ Last(v) = NL THEN {Front(v)} ELSE {})

UrlSafe(v) == Only(v, {"a", ".", "~", "-"})
EmailPattern(v) ==
    \E i \in DOMAIN v :
        /\ v[i] = "@"
        /\ Only(SubSeq(v, 1, i - 1), {"a", ".", "%", "-"})
        /\ Only(SubSeq(v, i + 1, Len(v)), {"a", ".", "-"})
LabelPattern(v) == Only(v, {"a", "-"}) /\ v[1] = "a" /\ Last(v) = "a"
RoleDomain(v) ==
    /\ Only(v, {"a", ".", "-"}) /\ v[1] = "a"
    /\ \E i \in 2..(Len(v) - 1) : v[i] = "."
RestoreDomain(v) == Only(v, {"a", ".", "-"}) /\ Len(v) > 1 /\ v[1] = "a"
ShownDomain(v) == Only(v, {"a", ".", "-"})

-----------------------------------------------------------------------------
(* The validators                                                          *)

\* Where the pieces of v between two separators begin and end.
Spans(v, separator) ==
    {s \in (1..(Len(v) + 1)) \X (0..Len(v)) :
        /\ s[1] <= s[2] + 1
        /\ s[1] = 1 \/ v[s[1] - 1] = separator
        /\ s[2] = Len(v) \/ v[s[2] + 1] = separator
        /\ \A i \in s[1]..s[2] : v[i] # separator}

Labels(v) == {SubSeq(v, s[1], s[2]) : s \in Spans(v, ".")}

\* Mutated ValidDomain: a host name without a dot will do (require_dot=False).
ValidHost(v) == \A label \in Labels(v) : LabelPattern(label)

ValidDomain(v) ==
    /\ "." \in ToSet(v)
    /\ \A label \in Labels(v) : LabelPattern(label)

\* Mutated ConfigAccepts: match in the place of fullmatch.
ConfigMatches(s) ==
    /\ ValidDomain(s.domain)
    /\ \E v \in UpToEnd(s.acme_email) : EmailPattern(v)
    /\ \A key \in {"naive_user", "naive_password"} :
        s[key] = <<>> \/ \E v \in UpToEnd(s[key]) : UrlSafe(v)
    /\ (s.naive_user = <<>>) <=> (s.naive_password = <<>>)

\* load_settings.
ConfigAccepts(s) ==
    /\ ValidDomain(s.domain)
    /\ EmailPattern(s.acme_email)
    /\ \A key \in {"naive_user", "naive_password"} : s[key] = <<>> \/ UrlSafe(s[key])
    /\ (s.naive_user = <<>>) <=> (s.naive_password = <<>>)

Loadable == {s \in Inputs : ConfigAccepts(s)}

\* main.yml: "Require safe deployment inputs".
RoleAccepts(s) ==
    /\ \E v \in UpToEnd(s.domain) : RoleDomain(v)
    /\ \E v \in UpToEnd(s.acme_email) : EmailPattern(v)
    /\ (s.naive_user = <<>>) <=> (s.naive_password = <<>>)
    /\ \A key \in {"naive_user", "naive_password"} :
        s[key] = <<>> \/ \E v \in UpToEnd(s[key]) : UrlSafe(v)

-----------------------------------------------------------------------------
(* gateway.env                                                             *)

\* gateway.env.j2: one line for each key.
Line(key, value) == <<key, "=">> \o value
Render(s) ==
    Line("domain", s.domain) \o <<NL>> \o Line("acme_email", s.acme_email) \o <<NL>>
        \o Line("naive_user", s.naive_user) \o <<NL>>
        \o Line("naive_password", s.naive_password) \o <<NL>>

\* splitlines(): no line begins after a line feed at the end.
LineSpans(text) == {s \in Spans(text, NL) : s[1] <= Len(text)}
Lines(text) == {SubSeq(text, s[1], s[2]) : s \in LineSpans(text)}

\* Each line split at its first "=": a key, and the value after it.
Splits(line) == Len(line) > 1 /\ line[2] = "="
Parses(text) ==
    (\A line \in Lines(text) : Splits(line)) /\ {line[1] : line \in Lines(text)} = Keys
HasFour(text) == Cardinality(LineSpans(text)) = 4

Read(text) ==
    [key \in Keys |->
        LET line == CHOOSE l \in Lines(text) : l[1] = key IN SubSeq(line, 3, Len(line))]

\* credentials.yml: "Reject corrupt saved credentials".
SavedAccepted(text) ==
    /\ Parses(text)
    /\ \A key \in {"naive_user", "naive_password"} :
        \E v \in UpToEnd(Read(text)[key]) : UrlSafe(v)

\* read_credentials.
CredentialsAccepted(text) ==
    /\ Parses(text) /\ HasFour(text)
    /\ ShownDomain(Read(text).domain)
    /\ \A key \in {"naive_user", "naive_password"} : UrlSafe(Read(text)[key])

\* restore_backup, on a controller with the same DOMAIN.
RestoreAccepted(text) ==
    /\ Parses(text) /\ HasFour(text)
    /\ RestoreDomain(Read(text).domain)
    /\ EmailPattern(Read(text).acme_email)
    /\ \A key \in {"naive_user", "naive_password"} : UrlSafe(Read(text)[key])

\* verify.yml, with the settings s.
VerifyAccepted(s, text) ==
    \A key \in Keys : s[key] # <<>> => Line(key, s[key]) \in Lines(text)

\* `source`: a value that begins with a tilde is a user's home directory ("~", "~a" if
\* there is such a user) or a former working directory ("~-").
Home == <<"/", "a">>
ShellValue(v) == IF v # <<>> /\ v[1] = "~" THEN {v, Home} ELSE {v}
ShellReads(text) ==
    {s \in [Keys -> UNION {ShellValue(Read(text)[key]) : key \in Keys}] :
        \A key \in Keys : s[key] \in ShellValue(Read(text)[key])}

-----------------------------------------------------------------------------
ValueInit == settings = NoSettings /\ file = <<>> /\ wanted = NoSettings

\* load_settings; what it rejects goes no further.
Load ==
    /\ settings = NoSettings
    /\ settings' \in Loadable
    /\ UNCHANGED <<file, wanted>>

Write(s) == file' = Render(s) /\ wanted' = s

\* The role: the supplied pair, else the saved one, else a generated one; and the
\* deploy is accepted.
Persist ==
    /\ settings # NoSettings /\ RoleAccepts(settings)
    /\ file # <<>> => SavedAccepted(file)
    /\ Write(CASE settings.naive_user # <<>> -> settings
               [] settings.naive_user = <<>> /\ file # <<>> ->
                    [settings EXCEPT !.naive_user = Read(file).naive_user,
                                     !.naive_password = Read(file).naive_password]
               [] OTHER -> [settings EXCEPT !.naive_user = Generated, !.naive_password = Generated])
    /\ settings' = NoSettings

\* rotate-credentials.sh: the domain and the contact as the shell has read them.
Rotate ==
    /\ settings = NoSettings /\ file # <<>>
    /\ \E s \in ShellReads(file) :
        file' = Render([s EXCEPT !.naive_user = Generated, !.naive_password = Generated])
    /\ wanted' = [wanted EXCEPT !.naive_user = Generated, !.naive_password = Generated]
    /\ UNCHANGED settings

ValueNext == Load \/ Persist \/ Rotate

ValueSpec == ValueInit /\ [][ValueNext]_valueVars

-----------------------------------------------------------------------------
(* Properties                                                              *)

\* What the controller accepts locally is never refused on the host, by the role's own
\* validation or by its look at the env it saved before (config.py, main.yml,
\* credentials.yml).
NeverRefused ==
    settings # NoSettings => RoleAccepts(settings) /\ (file # <<>> => SavedAccepted(file))

\* Every gateway.env that deploys and rotations write, one after the other, is accepted
\* by each of its readers and holds for each of them the values that were meant.
ReadsBack ==
    file # <<>> =>
        /\ SavedAccepted(file) /\ CredentialsAccepted(file) /\ RestoreAccepted(file)
        /\ VerifyAccepted(wanted, file)
        /\ Read(file) = wanted

\* common.sh: the runtime file is generated with shell-safe values.
ShellSafe == file # <<>> => ShellReads(file) = {Read(file)}
=============================================================================
