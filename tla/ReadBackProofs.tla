----------------------------- MODULE ReadBackProofs -----------------------------
(***************************************************************************)
(* Proofs about what the program writes for itself to read later.          *)
(*                                                                         *)
(* BackupArchive: every service, any number of backups and restores of     *)
(* restored hosts, and archives that are cut short anywhere.               *)
(* RuntimeValues: values of any length in the env, and any sequence of     *)
(* deploys and rotations.                                                  *)
(***************************************************************************)
EXTENDS BackupArchive, RuntimeValues, SequenceTheorems, FiniteSetTheorems,
        WellFoundedInduction, TLAPS

-----------------------------------------------------------------------------
(* BackupArchive: what is in an archive                                    *)

Names == Tree \cup ToSet(Payload)
Revisions == Commits \cup {None}
Archives ==
    [commit : Revisions, env : Envs, members : Seq(Names), whole : BOOLEAN, printed : BOOLEAN]

ArchiveTypeInv ==
    /\ host \in [commit : Revisions, env : Envs, files : SUBSET Tree] \cup {None}
    /\ staged \subseteq ToSet(Payload) /\ archives \subseteq Archives
    /\ building \in Archives \cup {None} /\ copy \in Archives \cup {None}
    /\ image \in Revisions
    /\ bak # "idle" => host # None
    /\ bak \in {"bundle", "print"} => building \in Archives
    /\ res # "idle" => copy # None /\ bak = "idle"

\* An archive that has its end has everything: it was closed after its last member.
Filled(a) == a.whole => a.members = Members
ArchivesInv ==
    /\ \A a \in archives : Filled(a)
    /\ building # None => Filled(building)
    /\ bak = "print" => Filled(building)
    /\ bak = "bundle" => ~building.whole
    /\ copy # None => Filled(copy)

\* The image is loaded only from an archive that was read to its end.
ReadInv == res \in {"load", "start"} => copy.whole

ArchiveIInv == ArchiveTypeInv /\ ArchivesInv /\ ReadInv

-----------------------------------------------------------------------------
(* BackupArchive: its parts and steps                                      *)

LEMMA ConcatMembers ==
  ASSUME NEW S, NEW s \in Seq(S), NEW t \in Seq(S)
  PROVE  ToSet(s) \cup ToSet(t) \subseteq ToSet(s \o t)
<1>1. \A i \in DOMAIN s : i \in DOMAIN (s \o t) /\ (s \o t)[i] = s[i]
  OBVIOUS
<1>2. \A i \in DOMAIN t : Len(s) + i \in DOMAIN (s \o t) /\ (s \o t)[Len(s) + i] = t[i]
  OBVIOUS
<1> QED
  BY <1>1, <1>2 DEF ToSet

\* What the restore looks for is in every complete archive.
LEMMA MembersSuffice ==
  /\ {"env", "manifest"} \subseteq ToSet(Payload)
  /\ {"manifest", "env", "image", "caddy_data", "caddy_config", "marker", "caddy", "compose",
      "pin", "scripts"} \subseteq ToSet(Members)
<1> DEFINE All == {"caddy", "compose", "pin", "scripts", "marker", "runtime path", "manifest",
                   "env", "image", "caddy_data", "caddy_config"}
<1>1. RuntimeFiles \in Seq(All) /\ Volumes \in Seq(All)
      /\ <<"manifest", "env", "image">> \in Seq(All)
  BY DEF RuntimeFiles, Volumes
<1> HIDE DEF All
<1>2. Payload \in Seq(All)
  BY <1>1 DEF Payload
<1>3. ToSet(RuntimeFiles) \cup ToSet(Payload) \subseteq ToSet(Members)
  BY <1>1, <1>2, ConcatMembers DEF Members
<1>4. ToSet(<<"manifest", "env", "image">>) \cup ToSet(Volumes) \subseteq ToSet(Payload)
  BY <1>1, ConcatMembers DEF Payload
<1>5. /\ RuntimeFiles[1] = "caddy" /\ RuntimeFiles[2] = "compose" /\ RuntimeFiles[3] = "pin"
      /\ RuntimeFiles[4] = "scripts" /\ RuntimeFiles[5] = "marker"
      /\ {1, 2, 3, 4, 5} \subseteq DOMAIN RuntimeFiles
  BY DEF RuntimeFiles
<1>6. {"caddy", "compose", "pin", "scripts", "marker"} \subseteq ToSet(RuntimeFiles)
  BY <1>5 DEF ToSet
<1>7. {"manifest", "env", "image"} \subseteq ToSet(<<"manifest", "env", "image">>)
  BY DEF ToSet
<1>8. {"caddy_data", "caddy_config"} \subseteq ToSet(Volumes)
  BY DEF ToSet, Volumes
<1> QED
  BY <1>3, <1>4, <1>6, <1>7, <1>8

\* What the steps of a backup and a broken download make of an archive is one.
NewArchive(c, e) ==
    [commit |-> c, env |-> e, members |-> <<>>, whole |-> FALSE, printed |-> FALSE]

LEMMA ArchiveFacts ==
  /\ \A c \in Revisions, e \in Envs : NewArchive(c, e) \in Archives /\ ~NewArchive(c, e).whole
  /\ \A a \in Archives :
        /\ \A n \in Names : /\ [a EXCEPT !.members = Append(@, n)] \in Archives
                            /\ [a EXCEPT !.members = Append(@, n)].whole = a.whole
        /\ [a EXCEPT !.whole = TRUE] \in Archives
        /\ [a EXCEPT !.whole = TRUE].members = a.members
        /\ [a EXCEPT !.printed = TRUE] \in Archives
        /\ [a EXCEPT !.printed = TRUE].members = a.members
        /\ [a EXCEPT !.printed = TRUE].whole = a.whole
        /\ \A m \in Seq(Names) : /\ [a EXCEPT !.members = m, !.whole = FALSE] \in Archives
                                 /\ ~[a EXCEPT !.members = m, !.whole = FALSE].whole
<1>1. \A c \in Revisions, e \in Envs : NewArchive(c, e) \in Archives /\ ~NewArchive(c, e).whole
  BY DEF Archives, NewArchive
<1> SUFFICES ASSUME NEW a \in Archives
             PROVE  /\ \A n \in Names : /\ [a EXCEPT !.members = Append(@, n)] \in Archives
                                        /\ [a EXCEPT !.members = Append(@, n)].whole = a.whole
                    /\ [a EXCEPT !.whole = TRUE] \in Archives
                    /\ [a EXCEPT !.whole = TRUE].members = a.members
                    /\ [a EXCEPT !.printed = TRUE] \in Archives
                    /\ [a EXCEPT !.printed = TRUE].members = a.members
                    /\ [a EXCEPT !.printed = TRUE].whole = a.whole
                    /\ \A m \in Seq(Names) :
                         /\ [a EXCEPT !.members = m, !.whole = FALSE] \in Archives
                         /\ ~[a EXCEPT !.members = m, !.whole = FALSE].whole
  BY <1>1
<1>2. \A n \in Names : /\ [a EXCEPT !.members = Append(@, n)] \in Archives
                       /\ [a EXCEPT !.members = Append(@, n)].whole = a.whole
  BY DEF Archives
<1>3. [a EXCEPT !.whole = TRUE] \in Archives /\ [a EXCEPT !.whole = TRUE].members = a.members
  BY DEF Archives
<1>4. [a EXCEPT !.printed = TRUE] \in Archives
  BY DEF Archives
<1>5. /\ [a EXCEPT !.printed = TRUE].members = a.members
      /\ [a EXCEPT !.printed = TRUE].whole = a.whole
  BY DEF Archives
<1>6. \A m \in Seq(Names) : [a EXCEPT !.members = m, !.whole = FALSE] \in Archives
  BY DEF Archives
<1>7. \A m \in Seq(Names) : ~[a EXCEPT !.members = m, !.whole = FALSE].whole
  BY DEF Archives
<1> QED
  BY <1>2, <1>3, <1>4, <1>5, <1>6, <1>7

LEMMA PrefixesAreSequences ==
  ASSUME NEW S, NEW s \in Seq(S)
  PROVE  Prefixes(s) \subseteq Seq(S)
  BY DEF Prefixes

-----------------------------------------------------------------------------
(* BackupArchive: the invariant                                            *)

LEMMA ArchiveInitKeeps == ArchiveInit => ArchiveIInv
  BY ArchiveAssumption
     DEF ArchiveInit, ArchiveIInv, ArchiveTypeInv, ArchivesInv, ReadInv, Revisions

LEMMA BackupKeeps ==
  ASSUME ArchiveIInv,
         \/ StartBackup \/ Stage \/ CreateArchive \/ AddMember \/ CloseArchive \/ PrintArchive
         \/ BackupFails \/ BackupDies
  PROVE  ArchiveIInv'
<1> USE ArchiveAssumption
        DEF ArchiveIInv, ArchiveTypeInv, ArchivesInv, Filled, ReadInv, restoreVars,
            Idle, BackupEnds
<1>1. CASE StartBackup
  BY <1>1, MembersSuffice DEF StartBackup, CanBackup
<1>2. CASE Stage
  BY <1>2 DEF Stage
<1>3. CASE CreateArchive
  <2>1. host # None /\ building' = NewArchive(host.commit, host.env)
    BY <1>3 DEF CreateArchive, NewArchive
  <2>2. building' \in Archives /\ ~building'.whole
    BY <2>1, ArchiveFacts
  <2> QED
    BY <1>3, <2>1, <2>2 DEF CreateArchive
<1>4. CASE AddMember
  <2>1. PICK n \in host.files \cup staged : building' = [building EXCEPT !.members = Append(@, n)]
    BY <1>4 DEF AddMember
  <2>2. host # None /\ building \in Archives /\ n \in Names
    BY <1>4 DEF AddMember, Names
  <2>3. building' \in Archives /\ building'.whole = building.whole
    BY <2>1, <2>2, ArchiveFacts
  <2> QED
    BY <1>4, <2>3 DEF AddMember
<1>5. CASE CloseArchive
  <2>1. building' \in Archives /\ building'.members = Members
    BY <1>5, ArchiveFacts DEF CloseArchive
  <2> QED
    BY <1>5, <2>1 DEF CloseArchive
<1>6. CASE PrintArchive
  <2>1. LET a == [building EXCEPT !.printed = TRUE]
        IN  a \in Archives /\ a.members = building.members /\ a.whole = building.whole
    BY <1>6, ArchiveFacts DEF PrintArchive
  <2> QED
    BY <1>6, <2>1 DEF PrintArchive
<1>7. CASE BackupFails
  BY <1>7 DEF BackupFails
<1>8. CASE BackupDies
  BY <1>8 DEF BackupDies
<1> QED
  BY <1>1, <1>2, <1>3, <1>4, <1>5, <1>6, <1>7, <1>8

LEMMA TransferKeeps ==
  ASSUME ArchiveIInv,
         \/ Download \/ LoseHost
         \/ StartRestore \/ ReadArchive \/ LoadImage \/ StartService \/ RestoreFails
         \/ UNCHANGED archiveVars
  PROVE  ArchiveIInv'
<1> USE ArchiveAssumption
        DEF ArchiveIInv, ArchiveTypeInv, ArchivesInv, Filled, ReadInv, restoreVars,
            backupVars, Idle
<1>1. CASE Download
  <2>1. PICK a \in archives :
          copy' \in {a} \cup {[a EXCEPT !.members = m, !.whole = FALSE] : m \in Prefixes(a.members)}
    BY <1>1 DEF Download
  <2>2. a \in Archives /\ a.members \in Seq(Names)
    BY DEF Archives
  <2>3. ASSUME NEW m \in Prefixes(a.members)
        PROVE  [a EXCEPT !.members = m, !.whole = FALSE] \in Archives
               /\ ~[a EXCEPT !.members = m, !.whole = FALSE].whole
    BY <2>2, PrefixesAreSequences, ArchiveFacts
  <2>4. copy' \in Archives /\ Filled(copy)'
    BY <2>1, <2>2, <2>3
  <2> QED
    BY <1>1, <2>4, ArchiveAssumption DEF Download
<1>2. CASE LoseHost
  BY <1>2 DEF LoseHost, Revisions
<1>3. CASE StartRestore
  BY <1>3 DEF StartRestore
<1>4. CASE ReadArchive
  BY <1>4 DEF ReadArchive, ReadsToTheEnd
<1>5. CASE LoadImage
  <2>1. copy.commit \in Revisions
    BY <1>5 DEF LoadImage, Archives
  <2> QED
    BY <1>5, <2>1 DEF LoadImage
<1>6. CASE StartService
  <2>1. "runtime path" \in Tree
    <3>1. RuntimeFiles[6] = "runtime path" /\ 6 \in DOMAIN RuntimeFiles
      BY DEF RuntimeFiles
    <3> QED
      BY <3>1 DEF Tree, ToSet
  <2>2. copy.env \in Envs
    BY <1>6 DEF StartService, Archives
  <2>3. host' \in [commit : Revisions, env : Envs, files : SUBSET Tree]
    BY <1>6, <2>1, <2>2 DEF StartService
  <2> QED
    BY <1>6, <2>3 DEF StartService
<1>7. CASE RestoreFails
  BY <1>7 DEF RestoreFails
<1>8. CASE UNCHANGED archiveVars
  BY <1>8 DEF archiveVars
<1> QED
  BY <1>1, <1>2, <1>3, <1>4, <1>5, <1>6, <1>7, <1>8

\* A complete archive stays complete, and nothing is taken from one that is not.
THEOREM ArchiveInvariance == ArchiveSpec => []ArchiveIInv
<1>1. ArchiveIInv /\ [ArchiveNext]_archiveVars => ArchiveIInv'
  BY BackupKeeps, TransferKeeps DEF ArchiveNext
<1> QED
  BY ArchiveInitKeeps, <1>1, PTL DEF ArchiveSpec

\* A torn archive, wherever it was cut, changes nothing on the new host
\* (restore_runtime.py restore_backup).
THEOREM TornArchiveRefused == ArchiveSpec => []TornChangesNothing
<1>1. ArchiveIInv => TornChangesNothing
  BY DEF ArchiveIInv, ReadInv, TornChangesNothing
<1> QED
  BY ArchiveInvariance, <1>1, PTL

\* An archive whose name was printed is restorable, also that of a restored host
\* (backup_runtime.py and restore_runtime.py).
THEOREM PrintedArchiveRestorable == ArchiveSpec => []PrintedIsRestorable
<1>1. ArchiveIInv => PrintedIsRestorable
  BY MembersSuffice
     DEF ArchiveIInv, ArchivesInv, Filled, PrintedIsRestorable, ReadsToTheEnd, Validates, CanStart,
         Volumes, ToSet
<1> QED
  BY ArchiveInvariance, <1>1, PTL

-----------------------------------------------------------------------------
(* RuntimeValues: the pieces of a text                                     *)

\* A set of numbers has a least one.
LEMMA Least ==
  ASSUME NEW T \in SUBSET Nat, T # {}
  PROVE  \E n \in T : \A m \in T : n <= m
<1>1. PICK n \in T : \A m \in T : <<m, n>> \notin OpToRel(<, Nat)
  BY NatLessThanWellFounded, WFMin
<1>2. \A m \in T : ~(m < n)
  BY <1>1 DEF OpToRel
<1> QED
  BY <1>2

\* Whatever is between two separators is in a piece.
LEMMA Pieced ==
  ASSUME NEW S, NEW v \in Seq(S), NEW separator, NEW i \in 1..Len(v), v[i] # separator
  PROVE  \E b \in 1..i, e \in i..Len(v) : <<b, e>> \in Spans(v, separator)
<1> DEFINE ends == {e \in i..Len(v) : e = Len(v) \/ v[e + 1] = separator}
           starts == {k \in 0..(i - 1) : k = i - 1 \/ v[i - k - 1] = separator}
<1>1. PICK e \in ends : \A m \in ends : e <= m
  <2>1. Len(v) \in ends /\ ends \in SUBSET Nat
    OBVIOUS
  <2> QED
    BY <2>1, Least
<1>2. PICK k \in starts : \A m \in starts : k <= m
  <2>1. (i - 1) \in starts /\ starts \in SUBSET Nat
    OBVIOUS
  <2> QED
    BY <2>1, Least
<1>3. \A j \in i..e : v[j] # separator
  <2> SUFFICES ASSUME NEW j \in i..e, v[j] = separator PROVE FALSE
    OBVIOUS
  <2>1. j - 1 \in ends
    OBVIOUS
  <2>2. e \in i..Len(v) /\ e <= j - 1
    BY <1>1, <2>1
  <2> QED
    BY <2>2
<1>4. \A j \in (i - k)..i : v[j] # separator
  <2> SUFFICES ASSUME NEW j \in (i - k)..i, v[j] = separator PROVE FALSE
    OBVIOUS
  <2>1. i - j - 1 \in starts
    OBVIOUS
  <2>2. k \in 0..(i - 1) /\ k <= i - j - 1
    BY <1>2, <2>1
  <2> QED
    BY <2>2
<1> DEFINE b == i - k
<1>5. b \in 1..i /\ e \in i..Len(v) /\ (b = 1 \/ v[b - 1] = separator)
      /\ (e = Len(v) \/ v[e + 1] = separator)
  OBVIOUS
<1>6. \A j \in b..e : v[j] # separator
  BY <1>3, <1>4, <1>5
<1> HIDE DEF b
<1>7. Len(v) \in Nat /\ b <= e + 1 /\ b \in 1..(Len(v) + 1) /\ e \in 0..Len(v)
  BY <1>5
<1>8. <<b, e>> \in Spans(v, separator)
  BY <1>5, <1>6, <1>7 DEF Spans
<1> QED
  BY <1>5, <1>8

-----------------------------------------------------------------------------
(* RuntimeValues: gateway.env and its lines                                *)

\* A text of whole lines.
Whole(t) == t = <<>> \/ t[Len(t)] = NL

\* A line that is written at the end of a text of whole lines is read as one line more.
LEMMA AppendedLine ==
  ASSUME NEW C, NEW t \in Seq(C), NEW l \in Seq(C), NL \in C,
         Whole(t), \A i \in 1..Len(l) : l[i] # NL
  PROVE  /\ t \o l \o <<NL>> \in Seq(C) /\ t \o l \o <<NL>> # <<>> /\ Whole(t \o l \o <<NL>>)
         /\ \E new : /\ LineSpans(t \o l \o <<NL>>) = LineSpans(t) \cup {new}
                     /\ new \notin LineSpans(t)
         /\ Lines(t \o l \o <<NL>>) = Lines(t) \cup {l}
<1> DEFINE u == t \o l \o <<NL>>
           n == Len(t)
           m == Len(l)
           new == <<n + 1, n + m>>
<1>1. n \in Nat /\ m \in Nat /\ Len(t) = n /\ Len(l) = m
  OBVIOUS
<1>2. /\ u \in Seq(C) /\ Len(u) = n + m + 1 /\ u[n + m + 1] = NL
      /\ \A i \in 1..n : u[i] = t[i]
      /\ \A i \in 1..m : u[n + i] = l[i]
  <2>1. /\ t \o l \in Seq(C) /\ Len(t \o l) = n + m
        /\ \A i \in 1..(n + m) : (t \o l)[i] = IF i <= n THEN t[i] ELSE l[i - n]
    BY ConcatProperties
  <2> DEFINE tl == t \o l
  <2> HIDE DEF tl
  <2>2. <<NL>> \in Seq(C) /\ Len(<<NL>>) = 1 /\ <<NL>>[1] = NL
    OBVIOUS
  <2>3. /\ tl \o <<NL>> \in Seq(C) /\ Len(tl \o <<NL>>) = n + m + 1
        /\ \A i \in 1..(n + m + 1) : (tl \o <<NL>>)[i] = IF i <= n + m THEN tl[i] ELSE <<NL>>[i - (n + m)]
    BY <2>1, <2>2, ConcatProperties DEF tl
  <2>4. /\ u \in Seq(C) /\ Len(u) = n + m + 1
        /\ \A i \in 1..(n + m + 1) : u[i] = IF i <= n + m THEN tl[i] ELSE <<NL>>[i - (n + m)]
    BY <2>3 DEF tl
  <2> HIDE DEF u, n, m
  <2>5. u[n + m + 1] = NL
    BY <1>1, <2>2, <2>4
  <2>6. ASSUME NEW i \in 1..n PROVE u[i] = t[i]
    <3>1. i \in 1..(n + m) /\ i \in 1..(n + m + 1) /\ i <= n
      BY <1>1
    <3>2. tl[i] = t[i]
      BY <2>1, <3>1 DEF tl
    <3> QED
      BY <2>4, <3>1, <3>2
  <2>7. ASSUME NEW i \in 1..m PROVE u[n + i] = l[i]
    <3>1. n + i \in 1..(n + m) /\ n + i \in 1..(n + m + 1) /\ ~(n + i <= n) /\ (n + i) - n = i
      BY <1>1
    <3>2. tl[n + i] = l[i]
      BY <2>1, <3>1 DEF tl
    <3> QED
      BY <2>4, <3>1, <3>2
  <2> QED
    BY <2>4, <2>5, <2>6, <2>7
<1> HIDE DEF u
<1>3. n # 0 => t[n] = NL
  BY DEF Whole
<1> HIDE DEF n, m
<1>4. \A i \in 1..m : u[n + i] # NL
  BY <1>1, <1>2
<1>5. u # <<>> /\ Whole(u)
  BY <1>1, <1>2 DEF Whole
<1>6. new \in LineSpans(u) /\ new \notin LineSpans(t)
  <2>1. ASSUME NEW i \in (n + 1)..(n + m) PROVE u[i] # NL
    <3>1. i - n \in 1..m /\ n + (i - n) = i
      BY <1>1
    <3> QED
      BY <1>4, <3>1
  <2>2. n + 1 = 1 \/ u[n] = NL
    BY <1>1, <1>2, <1>3
  <2> QED
    BY <1>1, <1>2, <2>1, <2>2 DEF LineSpans, Spans
<1>7. ASSUME NEW s \in LineSpans(t)
      PROVE  s \in LineSpans(u) /\ s[2] < n /\ s[1] \in 1..n /\ s[2] \in Nat /\ s[1] <= s[2] + 1
  <2> DEFINE b == s[1]
             e == s[2]
  <2>1. /\ s = <<b, e>> /\ b \in 1..n /\ e \in 0..n /\ b <= e + 1
        /\ (b = 1 \/ t[b - 1] = NL) /\ (e = n \/ t[e + 1] = NL)
        /\ \A i \in b..e : t[i] # NL
    BY <1>1, <1>7 DEF LineSpans, Spans
  <2> HIDE DEF b, e
  <2>2. e < n
    BY <1>1, <1>3, <2>1
  <2>3. /\ (b = 1 \/ u[b - 1] = NL) /\ u[e + 1] = NL
        /\ \A i \in b..e : u[i] # NL
    <3>1. \A i \in b..e : i \in 1..n
      BY <1>1, <2>1, <2>2
    <3>2. b # 1 => b - 1 \in 1..n
      BY <1>1, <2>1
    <3>3. e + 1 \in 1..n /\ e # n
      BY <1>1, <2>1, <2>2
    <3> QED
      BY <1>2, <2>1, <3>1, <3>2, <3>3
  <2>4. <<b, e>> \in LineSpans(u)
    BY <1>1, <1>2, <2>1, <2>2, <2>3 DEF LineSpans, Spans
  <2> QED
    BY <2>1, <2>2, <2>4 DEF b, e
<1>8. ASSUME NEW s \in LineSpans(u) PROVE s = new \/ s \in LineSpans(t)
  <2> DEFINE b == s[1]
             e == s[2]
  <2>1. /\ s = <<b, e>> /\ b \in 1..(n + m + 1) /\ e \in 0..(n + m + 1) /\ b <= e + 1
        /\ (b = 1 \/ u[b - 1] = NL) /\ (e = n + m + 1 \/ u[e + 1] = NL)
        /\ \A i \in b..e : u[i] # NL
    BY <1>1, <1>2, <1>8 DEF LineSpans, Spans
  <2> HIDE DEF b, e
  <2>2. b <= n + 1
    <3>1. ASSUME b > n + 1 PROVE FALSE
      <4>1. b - 1 - n \in 1..m /\ u[n + (b - 1 - n)] = NL
        BY <1>1, <2>1, <3>1
      <4> QED
        BY <1>4, <4>1
    <3> QED
      BY <1>1, <2>1, <3>1
  <2>3. CASE b <= n
    <3>1. e < n
      <4>1. n # 0 /\ u[n] = NL
        BY <1>1, <1>2, <1>3, <2>1, <2>3
      <4> QED
        BY <1>1, <2>1, <2>3, <4>1
    <3>2. /\ (b = 1 \/ t[b - 1] = NL) /\ t[e + 1] = NL
          /\ \A i \in b..e : t[i] # NL
      <4>1. \A i \in b..e : i \in 1..n
        BY <1>1, <2>1, <2>3, <3>1
      <4>2. b # 1 => b - 1 \in 1..n
        BY <1>1, <2>1, <2>3
      <4>3. e + 1 \in 1..n /\ e # n + m + 1
        BY <1>1, <2>1, <2>3, <3>1
      <4> QED
        BY <1>2, <2>1, <4>1, <4>2, <4>3
    <3>3. b \in 1..(n + 1) /\ e \in 0..n /\ b <= e + 1 /\ b <= n
      BY <1>1, <2>1, <2>3, <3>1
    <3>4. <<b, e>> \in LineSpans(t)
      BY <1>1, <3>2, <3>3 DEF LineSpans, Spans
    <3> QED
      BY <2>1, <3>4
  <2>4. CASE b = n + 1
    <3>1. e # n + m + 1
      BY <1>1, <1>2, <2>1, <2>4
    <3>2. e + 1 > n + m
      <4>1. ASSUME e + 1 <= n + m PROVE FALSE
        <5>1. e + 1 - n \in 1..m /\ n + (e + 1 - n) = e + 1 /\ u[e + 1] = NL
          BY <1>1, <2>1, <2>4, <3>1, <4>1
        <5> QED
          BY <1>4, <5>1
      <4> QED
        BY <1>1, <2>1, <4>1
    <3>3. e = n + m
      BY <1>1, <2>1, <3>1, <3>2
    <3> QED
      BY <2>1, <2>4, <3>3
  <2> QED
    BY <1>1, <2>1, <2>2, <2>3, <2>4
<1>9. LineSpans(u) = LineSpans(t) \cup {new}
  BY <1>6, <1>7, <1>8
<1>10. SubSeq(u, n + 1, n + m) = l
  <2>1. \A i \in (n + 1)..(n + m) : u[i] \in C
    BY <1>1, <1>2
  <2> DEFINE r == SubSeq(u, n + 1, n + m)
  <2>2. r \in Seq(C) /\ Len(r) = m /\ \A i \in 1..m : r[i] = u[n + i]
    BY <1>1, <2>1, SubSeqProperties
  <2> HIDE DEF r
  <2>3. r \in Seq(C) /\ l \in Seq(C) /\ Len(r) = Len(l) /\ \A i \in 1..Len(r) : r[i] = l[i]
    BY <1>1, <1>2, <2>2
  <2>4. r = l
    BY <2>3, SeqEqual
  <2> QED
    BY <2>4 DEF r
<1>11. ASSUME NEW s \in LineSpans(t) PROVE SubSeq(u, s[1], s[2]) = SubSeq(t, s[1], s[2])
  <2> DEFINE b == s[1]
             e == s[2]
  <2>1. b \in 1..n /\ e \in Nat /\ b <= e + 1 /\ e < n
    BY <1>7, <1>11
  <2> HIDE DEF b, e
  <2>2. ASSUME NEW i \in b..e PROVE u[i] \in C /\ t[i] \in C /\ u[i] = t[i]
    <3>1. i \in 1..n
      BY <1>1, <2>1
    <3>2. t[i] \in C /\ u[i] = t[i]
      BY <1>2, <3>1 DEF n
    <3> QED
      BY <3>2
  <2>3. /\ SubSeq(u, b, e) \in Seq(C) /\ Len(SubSeq(u, b, e)) = e - b + 1
        /\ \A i \in 1..(e - b + 1) : SubSeq(u, b, e)[i] = u[b + i - 1]
    BY <2>1, <2>2, SubSeqProperties
  <2>4. /\ SubSeq(t, b, e) \in Seq(C) /\ Len(SubSeq(t, b, e)) = e - b + 1
        /\ \A i \in 1..(e - b + 1) : SubSeq(t, b, e)[i] = t[b + i - 1]
    BY <2>1, <2>2, SubSeqProperties
  <2>5. \A i \in 1..(e - b + 1) : u[b + i - 1] = t[b + i - 1]
    BY <2>1, <2>2
  <2>6. SubSeq(u, b, e) = SubSeq(t, b, e)
    BY <2>3, <2>4, <2>5, SeqEqual
  <2> QED
    BY <2>6 DEF b, e
<1>12. Lines(u) = Lines(t) \cup {l}
  <2>1. SubSeq(u, new[1], new[2]) = l
    BY <1>10
  <2> HIDE DEF new
  <2> QED
    BY <1>9, <1>11, <2>1 DEF Lines
<1> QED
  BY <1>2, <1>5, <1>6, <1>9, <1>12 DEF u, n, m

\* What a value, a line and a text may be made of.
Characters == {"a", "-", ".", "@", "%", "~", "=", "/", NL}
Text == Seq(Characters \cup Keys)
Value == Seq(Characters)
Unbroken(v) == \A i \in 1..Len(v) : v[i] # NL

\* A line of gateway.env is a key, "=" and the value, and no line feed.
LEMMA LineIs ==
  ASSUME NEW key \in Keys, NEW v \in Value, Unbroken(v)
  PROVE  LET l == Line(key, v)
         IN  /\ l \in Text /\ \A i \in 1..Len(l) : l[i] # NL
             /\ l[1] = key /\ Splits(l) /\ SubSeq(l, 3, Len(l)) = v
<1> DEFINE l == Line(key, v)
           n == Len(v)
           C == Characters \cup Keys
<1>1. n \in Nat /\ v \in Seq(C) /\ \A i \in 1..n : v[i] \in C
  BY DEF Value
<1>2. <<key, "=">> \in Seq(C) /\ Len(<<key, "=">>) = 2
  BY DEF Characters
<1>3. /\ l \in Seq(C) /\ Len(l) = 2 + n
      /\ \A i \in 1..(2 + n) : l[i] = IF i <= 2 THEN <<key, "=">>[i] ELSE v[i - 2]
  BY <1>1, <1>2, ConcatProperties DEF Line
<1> HIDE DEF l, n
<1>4. l[1] = key /\ l[2] = "="
  BY <1>1, <1>3
<1>5. ASSUME NEW i \in 1..n PROVE l[2 + i] = v[i]
  <2>1. 2 + i \in 1..(2 + n) /\ ~(2 + i <= 2) /\ (2 + i) - 2 = i
    BY <1>1
  <2> QED
    BY <1>3, <2>1
<1>6. ASSUME NEW i \in 1..(2 + n) PROVE l[i] # NL
  <2>1. CASE i > 2
    <3>1. i - 2 \in 1..n /\ 2 + (i - 2) = i
      BY <1>1, <2>1
    <3> QED
      BY <1>5, <3>1 DEF Unbroken, n
  <2>2. CASE ~(i > 2)
    <3>1. i = 1 \/ i = 2
      BY <1>1, <2>2
    <3> QED
      BY <1>4, <3>1 DEF Keys, NL
  <2> QED
    BY <2>1, <2>2
<1>7. SubSeq(l, 3, 2 + n) = v
  <2>1. \A i \in 3..(2 + n) : l[i] \in C
    BY <1>1, <1>3, ElementOfSeq
  <2>2. /\ SubSeq(l, 3, 2 + n) \in Seq(C) /\ Len(SubSeq(l, 3, 2 + n)) = n
        /\ \A i \in 1..n : SubSeq(l, 3, 2 + n)[i] = l[2 + i]
    BY <1>1, <2>1, SubSeqProperties
  <2> QED
    BY <1>1, <1>5, <2>2, SeqEqual DEF n
<1> QED
  BY <1>1, <1>3, <1>4, <1>6, <1>7 DEF Splits, Text, l

\* Nothing has been written yet: no line.
LEMMA NoLines == Lines(<<>>) = {} /\ LineSpans(<<>>) = {} /\ Whole(<<>>) /\ <<>> \in Text
<1>1. LineSpans(<<>>) = {}
  BY DEF LineSpans, Spans
<1> QED
  BY <1>1 DEF Lines, Whole, Text

Settled == [Keys -> Value]

\* What gateway.env.j2 writes is read as the settings it was given, whatever they are, as
\* long as no value holds a line feed.
LEMMA Rendered ==
  ASSUME NEW s \in Settled, \A key \in Keys : Unbroken(s[key])
  PROVE  /\ Render(s) # <<>> /\ HasFour(Render(s)) /\ Parses(Render(s))
         /\ \A key \in Keys : Line(key, s[key]) \in Lines(Render(s))
         /\ Read(Render(s)) = s
<1> DEFINE l1 == Line("domain", s.domain)
           l2 == Line("acme_email", s.acme_email)
           l3 == Line("naive_user", s.naive_user)
           l4 == Line("naive_password", s.naive_password)
           t1 == l1 \o <<NL>>
           t2 == t1 \o l2 \o <<NL>>
           t3 == t2 \o l3 \o <<NL>>
           t4 == t3 \o l4 \o <<NL>>
           C == Characters \cup Keys
<1>1. \A key \in Keys : LET l == Line(key, s[key])
         IN  /\ l \in Seq(C) /\ \A i \in 1..Len(l) : l[i] # NL
             /\ l[1] = key /\ Splits(l) /\ SubSeq(l, 3, Len(l)) = s[key]
  BY LineIs DEF Settled, Text
<1>2. /\ l1 \in Seq(C) /\ (\A i \in 1..Len(l1) : l1[i] # NL) /\ l1[1] = "domain"
      /\ l2 \in Seq(C) /\ (\A i \in 1..Len(l2) : l2[i] # NL) /\ l2[1] = "acme_email"
      /\ l3 \in Seq(C) /\ (\A i \in 1..Len(l3) : l3[i] # NL) /\ l3[1] = "naive_user"
      /\ l4 \in Seq(C) /\ (\A i \in 1..Len(l4) : l4[i] # NL) /\ l4[1] = "naive_password"
  BY <1>1 DEF Keys
<1>3. NL \in C /\ Render(s) = t4
  BY DEF Characters, Render
<1> HIDE DEF l1, l2, l3, l4
<1>4. /\ t1 \in Seq(C) /\ t1 # <<>> /\ Whole(t1) /\ Lines(t1) = {l1}
      /\ \E a \in LineSpans(t1) : LineSpans(t1) = {a}
  <2>1. PICK t0 \in Seq(C) :
            Whole(t0) /\ LineSpans(t0) = {} /\ Lines(t0) = {} /\ t0 \o l1 = l1
    <3>1. <<>> \o l1 = l1
      BY <1>2, ConcatEmptySeq
    <3> QED
      BY <3>1, NoLines DEF Text
  <2> DEFINE u == t0 \o l1 \o <<NL>>
  <2>2. /\ u \in Seq(C) /\ u # <<>> /\ Whole(u)
        /\ \E new : LineSpans(u) = LineSpans(t0) \cup {new} /\ new \notin LineSpans(t0)
        /\ Lines(u) = Lines(t0) \cup {l1}
    <3>1. t0 \in Seq(C) /\ Whole(t0)
      BY <2>1
    <3>2. u \in Seq(C)
      BY <1>2, <1>3, <3>1, AppendedLine
    <3>3. u # <<>>
      BY <1>2, <1>3, <3>1, AppendedLine
    <3>4. Whole(u)
      BY <1>2, <1>3, <3>1, AppendedLine
    <3>5. \E new : LineSpans(u) = LineSpans(t0) \cup {new} /\ new \notin LineSpans(t0)
      BY <1>2, <1>3, <3>1, AppendedLine
    <3>6. Lines(u) = Lines(t0) \cup {l1}
      <4> DEFINE L == l1
      <4>1. L \in Seq(C) /\ \A i \in 1..Len(L) : L[i] # NL
        BY <1>2
      <4> HIDE DEF L
      <4>2. Lines(t0 \o L \o <<NL>>) = Lines(t0) \cup {L}
        BY <1>3, <3>1, <4>1, AppendedLine, SMT
      <4> QED
        BY <4>2 DEF L
    <3> QED
      BY <3>2, <3>3, <3>4, <3>5, <3>6
  <2>3. u = t1
    BY <2>1
  <2> QED
    BY <2>1, <2>2, <2>3
<1> HIDE DEF t1
<1>5. /\ t2 \in Seq(C) /\ t2 # <<>> /\ Whole(t2) /\ Lines(t2) = {l1, l2}
      /\ \E a, b \in LineSpans(t2) : a # b /\ LineSpans(t2) = {a, b}
  <2>1. /\ t2 \in Seq(C) /\ t2 # <<>> /\ Whole(t2)
        /\ \E new : LineSpans(t2) = LineSpans(t1) \cup {new} /\ new \notin LineSpans(t1)
        /\ Lines(t2) = Lines(t1) \cup {l2}
    BY <1>2, <1>3, <1>4, AppendedLine
  <2> HIDE DEF t2
  <2> QED
    BY <1>4, <2>1
<1> HIDE DEF t2
<1>6. /\ t3 \in Seq(C) /\ t3 # <<>> /\ Whole(t3) /\ Lines(t3) = {l1, l2, l3}
      /\ \E a, b, c \in LineSpans(t3) :
            a # b /\ a # c /\ b # c /\ LineSpans(t3) = {a, b, c}
  <2>1. /\ t3 \in Seq(C) /\ t3 # <<>> /\ Whole(t3)
        /\ \E new : LineSpans(t3) = LineSpans(t2) \cup {new} /\ new \notin LineSpans(t2)
        /\ Lines(t3) = Lines(t2) \cup {l3}
    BY <1>2, <1>3, <1>5, AppendedLine
  <2> HIDE DEF t3
  <2> QED
    BY <1>5, <2>1
<1> HIDE DEF t3
<1>7. /\ t4 # <<>> /\ Lines(t4) = {l1, l2, l3, l4}
      /\ \E a, b, c, d \in LineSpans(t4) :
            /\ a # b /\ a # c /\ b # c /\ a # d /\ b # d /\ c # d
            /\ LineSpans(t4) = {a, b, c, d}
  <2>1. /\ t4 \in Seq(C) /\ t4 # <<>> /\ Whole(t4)
        /\ \E new : LineSpans(t4) = LineSpans(t3) \cup {new} /\ new \notin LineSpans(t3)
        /\ Lines(t4) = Lines(t3) \cup {l4}
    BY <1>2, <1>3, <1>6, AppendedLine
  <2> HIDE DEF t4
  <2> QED
    BY <1>6, <2>1
<1> HIDE DEF t4
<1>8. HasFour(t4)
  <2>1. PICK a, b, c, d :
            /\ a # b /\ a # c /\ b # c /\ a # d /\ b # d /\ c # d
            /\ LineSpans(t4) = {a, b, c, d}
    BY <1>7
  <2>2. IsFiniteSet({a}) /\ Cardinality({a}) = 1
    BY FS_Singleton
  <2>3. IsFiniteSet({a, b}) /\ Cardinality({a, b}) = 2
    <3>1. {a, b} = {a} \cup {b} /\ b \notin {a}
      BY <2>1
    <3> QED
      BY <2>2, <3>1, FS_AddElement
  <2>4. IsFiniteSet({a, b, c}) /\ Cardinality({a, b, c}) = 3
    <3>1. {a, b, c} = {a, b} \cup {c} /\ c \notin {a, b}
      BY <2>1
    <3> QED
      BY <2>3, <3>1, FS_AddElement
  <2>5. IsFiniteSet({a, b, c, d}) /\ Cardinality({a, b, c, d}) = 4
    <3>1. {a, b, c, d} = {a, b, c} \cup {d} /\ d \notin {a, b, c}
      BY <2>1
    <3> QED
      BY <2>4, <3>1, FS_AddElement
  <2> QED
    BY <2>1, <2>5 DEF HasFour
<1>9. Lines(t4) = {Line(key, s[key]) : key \in Keys}
  BY <1>7 DEF Keys, l1, l2, l3, l4
<1>10. Parses(t4)
  <2>1. {line[1] : line \in Lines(t4)} = Keys
    BY <1>1, <1>9
  <2> QED
    BY <1>1, <1>9, <2>1 DEF Parses
<1>11. ASSUME NEW key \in Keys PROVE Read(t4)[key] = s[key]
  <2> DEFINE line == CHOOSE l \in Lines(t4) : l[1] = key
  <2>1. Line(key, s[key]) \in Lines(t4) /\ Line(key, s[key])[1] = key
    BY <1>1, <1>9
  <2>2. line \in Lines(t4) /\ line[1] = key
    BY <2>1
  <2> HIDE DEF line
  <2>3. PICK k \in Keys : line = Line(k, s[k])
    BY <1>9, <2>2
  <2>4. k = key
    BY <1>1, <2>2, <2>3
  <2>5. SubSeq(line, 3, Len(line)) = s[key]
    BY <1>1, <2>3, <2>4
  <2> QED
    BY <2>5 DEF Read, line
<1>12. Read(t4) = s
  <2>1. Read(t4) = [key \in Keys |-> Read(t4)[key]]
    BY DEF Read
  <2>2. s = [key \in Keys |-> s[key]]
    BY DEF Settled
  <2> QED
    BY <1>11, <2>1, <2>2
<1> QED
  BY <1>3, <1>7, <1>8, <1>9, <1>10, <1>12

-----------------------------------------------------------------------------
(* RuntimeValues: the validators                                           *)

\* A label that is empty is no label.
LEMMA NotEmpty == ASSUME NEW v, LabelPattern(v) PROVE v # <<>>
BY DEF LabelPattern, Only

\* What validate_domain lets through is a domain for the role, the restore and
\* `make credentials`, and has no line feed.
LEMMA DomainIs ==
  ASSUME NEW v \in Value, ValidDomain(v)
  PROVE  /\ RoleDomain(v) /\ RestoreDomain(v) /\ ShownDomain(v)
         /\ \A i \in 1..Len(v) : v[i] \in {"a", ".", "-"}
         /\ v # <<>> /\ v[1] = "a"
<1> DEFINE n == Len(v)
<1>1. n \in Nat /\ Len(v) = n /\ DOMAIN v = 1..n /\ (\A i \in 1..n : v[i] \in Characters)
  BY DEF Value
<1> HIDE DEF n
<1>2. \A s \in Spans(v, ".") : LabelPattern(SubSeq(v, s[1], s[2]))
  BY DEF ValidDomain, Labels
<1>3. PICK d \in 1..n : v[d] = "."
  BY <1>1 DEF ValidDomain, ToSet
<1>4. ASSUME NEW b \in 1..(n + 1), NEW e \in 0..n, <<b, e>> \in Spans(v, ".")
      PROVE  /\ b <= e /\ v[b] = "a"
             /\ \A i \in b..e : v[i] \in {"a", "-"}
  <2> DEFINE l == SubSeq(v, b, e)
  <2>1. LabelPattern(l) /\ l # <<>>
    BY <1>2, <1>4, NotEmpty
  <2>2. b <= e + 1
    BY <1>4 DEF Spans
  <2>3. \A i \in b..e : v[i] \in Characters
    BY <1>1
  <2>4. /\ l \in Seq(Characters) /\ Len(l) = e - b + 1
        /\ \A i \in 1..(e - b + 1) : l[i] = v[b + i - 1]
    BY <2>2, <2>3, SubSeqProperties
  <2> HIDE DEF l
  <2>5. b <= e
    <3>1. Len(l) # 0
      BY <2>1, <2>4, EmptySeq
    <3> QED
      BY <2>2, <2>4, <3>1
  <2>6. l[1] = "a" /\ \A i \in 1..Len(l) : l[i] \in {"a", "-"}
    <3>1. \A i \in DOMAIN l : l[i] \in {"a", "-"}
      BY <2>1 DEF LabelPattern, Only, ToSet
    <3>2. DOMAIN l = 1..Len(l)
      BY <2>4
    <3> QED
      BY <2>1, <3>1, <3>2 DEF LabelPattern
  <2>7. v[b] = "a"
    BY <2>4, <2>5, <2>6
  <2>8. ASSUME NEW i \in b..e PROVE v[i] \in {"a", "-"}
    <3>1. i - b + 1 \in 1..(e - b + 1) /\ b + (i - b + 1) - 1 = i
      OBVIOUS
    <3> QED
      BY <2>4, <2>6, <3>1
  <2> QED
    BY <2>5, <2>7, <2>8
<1>5. ASSUME NEW i \in 1..n PROVE v[i] \in {"a", ".", "-"}
  <2>1. CASE v[i] = "."
    BY <2>1
  <2>2. CASE v[i] # "."
    <3>1. PICK b \in 1..i, e \in i..n : <<b, e>> \in Spans(v, ".")
      BY <1>1, <2>2, Pieced DEF Value
    <3>2. b \in 1..(n + 1) /\ e \in 0..n /\ i \in b..e
      BY <1>1
    <3> QED
      BY <1>4, <3>1, <3>2
  <2> QED
    BY <2>1, <2>2
<1>6. v[1] = "a"
  <2>1. CASE v[1] = "."
    <3>1. <<1, 0>> \in Spans(v, ".")
      BY <1>1, <1>3, <2>1 DEF Spans
    <3>2. 1 \in 1..(n + 1) /\ 0 \in 0..n
      BY <1>1
    <3> QED
      BY <1>4, <3>1, <3>2
  <2>2. CASE v[1] # "."
    <3>1. 1 \in 1..n
      BY <1>1, <1>3
    <3>2. PICK b \in 1..1, e \in 1..n : <<b, e>> \in Spans(v, ".")
      BY <1>1, <2>2, <3>1, Pieced DEF Value
    <3>3. b = 1 /\ b \in 1..(n + 1) /\ e \in 0..n
      BY <1>1
    <3> QED
      BY <1>4, <3>2, <3>3
  <2> QED
    BY <2>1, <2>2
<1>7. v[n] # "."
  <2> SUFFICES ASSUME v[n] = "." PROVE FALSE
    OBVIOUS
  <2>1. n + 1 \in 1..(n + 1) /\ n \in 0..n /\ n > 0
    BY <1>1, <1>3
  <2>2. <<n + 1, n>> \in Spans(v, ".")
    BY <1>1, <2>1 DEF Spans
  <2>3. n + 1 <= n
    BY <1>4, <2>1, <2>2
  <2> QED
    BY <1>1, <2>3
<1>8. d \in 2..(n - 1) /\ n > 1 /\ v # <<>>
  BY <1>1, <1>3, <1>6, <1>7
<1>9. Only(v, {"a", ".", "-"})
  BY <1>1, <1>5, <1>8 DEF Only, ToSet
<1> QED
  BY <1>1, <1>3, <1>5, <1>6, <1>8, <1>9 DEF RoleDomain, RestoreDomain, ShownDomain

\* An address has no line feed and does not begin with a tilde.
LEMMA EmailIs ==
  ASSUME NEW v \in Value, EmailPattern(v)
  PROVE  Unbroken(v) /\ v # <<>> /\ v[1] # "~"
<1> DEFINE n == Len(v)
<1>1. n \in Nat /\ Len(v) = n /\ DOMAIN v = 1..n /\ (\A i \in 1..n : v[i] \in Characters)
  BY DEF Value
<1> HIDE DEF n
<1>2. PICK at \in 1..n : /\ v[at] = "@"
                         /\ Only(SubSeq(v, 1, at - 1), {"a", ".", "%", "-"})
                         /\ Only(SubSeq(v, at + 1, n), {"a", ".", "-"})
  BY <1>1 DEF EmailPattern
<1>3. ASSUME NEW b \in 1..(n + 1), NEW e \in 0..n, b <= e + 1, NEW chars,
             Only(SubSeq(v, b, e), chars)
      PROVE  b <= e /\ \A i \in b..e : v[i] \in chars
  <2> DEFINE l == SubSeq(v, b, e)
  <2>1. \A i \in b..e : v[i] \in Characters
    BY <1>1
  <2>2. /\ l \in Seq(Characters) /\ Len(l) = e - b + 1
        /\ \A i \in 1..(e - b + 1) : l[i] = v[b + i - 1]
    BY <1>3, <2>1, SubSeqProperties
  <2>3. l # <<>> /\ \A i \in DOMAIN l : l[i] \in chars
    BY <1>3 DEF Only, ToSet
  <2> HIDE DEF l
  <2>4. b <= e
    <3>1. Len(l) # 0
      BY <2>2, <2>3, EmptySeq
    <3> QED
      BY <1>3, <2>2, <3>1
  <2>5. ASSUME NEW i \in b..e PROVE v[i] \in chars
    <3>1. i - b + 1 \in 1..(e - b + 1) /\ b + (i - b + 1) - 1 = i
      OBVIOUS
    <3>2. i - b + 1 \in DOMAIN l
      BY <2>2, <3>1
    <3> QED
      BY <2>2, <2>3, <3>1, <3>2
  <2> QED
    BY <2>4, <2>5
<1>4. at - 1 >= 1 /\ \A i \in 1..(at - 1) : v[i] \in {"a", ".", "%", "-"}
  <2>1. 1 \in 1..(n + 1) /\ at - 1 \in 0..n /\ 1 <= (at - 1) + 1
    BY <1>1
  <2> QED
    BY <1>2, <1>3, <2>1
<1>5. \A i \in (at + 1)..n : v[i] \in {"a", ".", "-"}
  <2>1. at + 1 \in 1..(n + 1) /\ n \in 0..n /\ at + 1 <= n + 1
    BY <1>1
  <2> QED
    BY <1>2, <1>3, <2>1
<1>6. ASSUME NEW i \in 1..n PROVE v[i] # NL
  <2>1. i \in 1..(at - 1) \/ i = at \/ i \in (at + 1)..n
    BY <1>1
  <2> QED
    BY <1>2, <1>4, <1>5, <2>1 DEF NL
<1>7. v # <<>> /\ v[1] # "~"
  <2>1. 1 \in 1..(at - 1)
    BY <1>4
  <2> QED
    BY <1>1, <1>4, <2>1
<1> QED
  BY <1>1, <1>6, <1>7 DEF Unbroken

\* What load_settings accepts has no line feed.
LEMMA AcceptedIs ==
  ASSUME NEW s \in Settled, ConfigAccepts(s)
  PROVE  /\ \A key \in Keys : Unbroken(s[key])
         /\ RoleAccepts(s)
         /\ s.domain # <<>> /\ s.domain[1] # "~" /\ s.acme_email # <<>> /\ s.acme_email[1] # "~"
<1>1. \A key \in Keys : s[key] \in Value
  BY DEF Settled
<1>2. /\ RoleDomain(s.domain) /\ s.domain # <<>> /\ s.domain[1] = "a"
      /\ \A i \in 1..Len(s.domain) : s.domain[i] \in {"a", ".", "-"}
  BY <1>1, DomainIs DEF Keys, ConfigAccepts
<1>3. Unbroken(s.acme_email) /\ s.acme_email # <<>> /\ s.acme_email[1] # "~"
  BY <1>1, EmailIs DEF Keys, ConfigAccepts
<1>4. ASSUME NEW key \in {"naive_user", "naive_password"} PROVE Unbroken(s[key])
  <2>1. s[key] \in Value /\ DOMAIN s[key] = 1..Len(s[key])
    BY <1>1, <1>4 DEF Keys, Value
  <2>2. s[key] = <<>> \/ UrlSafe(s[key])
    BY <1>4 DEF ConfigAccepts
  <2>3. CASE s[key] = <<>>
    BY <2>3 DEF Unbroken
  <2>4. CASE UrlSafe(s[key])
    BY <2>1, <2>4 DEF UrlSafe, Only, ToSet, Unbroken, NL
  <2> QED
    BY <2>2, <2>3, <2>4
<1>5. Unbroken(s.domain)
  BY <1>2 DEF Unbroken, NL
<1>6. \A v : v \in UpToEnd(v)
  BY DEF UpToEnd
<1>7. RoleAccepts(s)
  BY <1>2, <1>6 DEF RoleAccepts, ConfigAccepts
<1> QED
  BY <1>2, <1>3, <1>4, <1>5, <1>7 DEF Keys

-----------------------------------------------------------------------------
(* RuntimeValues: the invariant                                            *)

Accepted(s) == s \in Settled /\ ConfigAccepts(s)

\* The settings of the running command are accepted ones, and gateway.env is what the
\* template writes for accepted settings with a pair.
ValueIInv ==
    /\ settings = NoSettings \/ Accepted(settings)
    /\ file # <<>> => Accepted(wanted) /\ wanted.naive_user # <<>> /\ file = Render(wanted)

\* Nothing but accepted settings is loaded.
LEMMA LoadableAccepted == \A s \in Loadable : Accepted(s)
<1> SUFFICES ASSUME NEW s \in Inputs, ConfigAccepts(s) PROVE s \in Settled
  BY DEF Loadable, Accepted
<1>1. /\ <<>> \in Value /\ <<"a">> \in Value /\ Domain \in Value /\ Email \in Value
  BY DEF Value, Characters, Domain, Email
<1>2. \A d, e, u, p \in Value : Settings(d, e, u, p) \in Settled
  BY DEF Settings, Settled, Keys
<1>3. ASSUME NEW chars \in SUBSET Characters, NEW length \in Nat
      PROVE  Values(chars, length) \subseteq Value
  <2> SUFFICES ASSUME NEW v \in Values(chars, length) PROVE v \in Value
    OBVIOUS
  <2>1. PICK n \in 0..length : v \in [1..n -> chars]
    BY DEF Values, BoundedSeq, SeqOf
  <2>2. v \in [1..n -> Characters]
    BY <2>1
  <2> QED
    BY <2>2, SeqDef DEF Value
<1> QED
  <2>1. /\ {"a", "-", ".", NL} \in SUBSET Characters
        /\ {"a", "@", "%", "~", NL} \in SUBSET Characters
        /\ {"a", "~", "=", NL} \in SUBSET Characters
    BY DEF Characters
  <2> QED
    BY <1>1, <1>2, <1>3, <2>1, LengthAssumption DEF Inputs, Secrets

\* Accepted settings with a pair are read back by everyone from what is written for them.
LEMMA ReadBack ==
  ASSUME NEW s, Accepted(s), s.naive_user # <<>>
  PROVE  /\ Render(s) # <<>> /\ Read(Render(s)) = s
         /\ SavedAccepted(Render(s)) /\ CredentialsAccepted(Render(s))
         /\ RestoreAccepted(Render(s)) /\ VerifyAccepted(s, Render(s))
<1>1. /\ Render(s) # <<>> /\ HasFour(Render(s)) /\ Parses(Render(s))
      /\ \A key \in Keys : Line(key, s[key]) \in Lines(Render(s))
      /\ Read(Render(s)) = s
  BY AcceptedIs, Rendered DEF Accepted
<1>2. s.domain \in Value /\ RestoreDomain(s.domain) /\ ShownDomain(s.domain)
  BY DomainIs DEF Accepted, Settled, Keys, ConfigAccepts
<1>3. EmailPattern(s.acme_email) /\ \A key \in {"naive_user", "naive_password"} : UrlSafe(s[key])
  BY DEF Accepted, ConfigAccepts
<1>4. \A v : v \in UpToEnd(v)
  BY DEF UpToEnd
<1> QED
  BY <1>1, <1>2, <1>3, <1>4
     DEF SavedAccepted, CredentialsAccepted, RestoreAccepted, VerifyAccepted

\* Accepted settings stay accepted with another pair.
LEMMA AnotherPair ==
  ASSUME NEW s, Accepted(s),
         NEW u \in Value, NEW p \in Value, UrlSafe(u), UrlSafe(p)
  PROVE  LET t == [s EXCEPT !.naive_user = u, !.naive_password = p]
         IN  Accepted(t) /\ t.naive_user # <<>>
<1> DEFINE t == [s EXCEPT !.naive_user = u, !.naive_password = p]
<1>1. /\ t \in Settled /\ t.domain = s.domain /\ t.acme_email = s.acme_email
      /\ t.naive_user = u /\ t.naive_password = p
  BY DEF Accepted, Settled, Keys
<1>2. u # <<>> /\ p # <<>>
  BY DEF UrlSafe, Only
<1> HIDE DEF t
<1>3. Accepted(t)
  BY <1>1, <1>2 DEF Accepted, ConfigAccepts
<1> QED
  BY <1>1, <1>2, <1>3 DEF t

\* Deploys and rotations write the env for accepted settings only, and exactly as the
\* template has it.
THEOREM ValueInvariance == ValueSpec => []ValueIInv
<1>1. ValueInit => ValueIInv
  BY DEF ValueInit, ValueIInv
<1>2. ASSUME ValueIInv, [ValueNext]_valueVars PROVE ValueIInv'
  <2>1. Generated \in Value /\ UrlSafe(Generated)
    BY DEF Generated, Value, Characters, UrlSafe, Only, ToSet
  <2>2. CASE Load
    BY <1>2, <2>2, LoadableAccepted DEF Load, ValueIInv
  <2>3. CASE Persist
    <3>1. Accepted(settings) /\ settings' = NoSettings
      BY <1>2, <2>3 DEF Persist, ValueIInv
    <3>2. SUFFICES ASSUME NEW s, file' = Render(s), wanted' = s,
                        \/ settings.naive_user # <<>> /\ s = settings
                        \/ /\ file # <<>>
                           /\ s = [settings EXCEPT !.naive_user = Read(file).naive_user,
                                                   !.naive_password = Read(file).naive_password]
                        \/ s = [settings EXCEPT !.naive_user = Generated,
                                                !.naive_password = Generated]
                 PROVE  Accepted(s) /\ s.naive_user # <<>>
      BY <2>3, <3>1 DEF Persist, Write, ValueIInv
    <3>3. CASE settings.naive_user # <<>> /\ s = settings
      BY <3>1, <3>3
    <3>4. CASE /\ file # <<>>
               /\ s = [settings EXCEPT !.naive_user = Read(file).naive_user,
                                       !.naive_password = Read(file).naive_password]
      <4>1. Accepted(wanted) /\ wanted.naive_user # <<>> /\ Read(file) = wanted
        BY <1>2, <3>4, ReadBack DEF ValueIInv
      <4>2. /\ wanted.naive_user \in Value /\ wanted.naive_password \in Value
            /\ UrlSafe(wanted.naive_user) /\ UrlSafe(wanted.naive_password)
        BY <4>1 DEF Accepted, Settled, Keys, ConfigAccepts
      <4>3. s = [settings EXCEPT !.naive_user = wanted.naive_user,
                                  !.naive_password = wanted.naive_password]
        BY <3>4, <4>1
      <4> QED
        BY <3>1, <4>2, <4>3, AnotherPair
    <3>5. CASE s = [settings EXCEPT !.naive_user = Generated, !.naive_password = Generated]
      BY <2>1, <3>1, <3>5, AnotherPair
    <3> QED
      BY <3>2, <3>3, <3>4, <3>5
  <2>4. CASE Rotate
    <3>1. Accepted(wanted) /\ wanted.naive_user # <<>> /\ Read(file) = wanted
      BY <1>2, <2>4, ReadBack DEF ValueIInv, Rotate
    <3>2. PICK s \in ShellReads(file) :
              file' = Render([s EXCEPT !.naive_user = Generated, !.naive_password = Generated])
      BY <2>4 DEF Rotate
    <3>3. s.domain = wanted.domain /\ s.acme_email = wanted.acme_email
      <4>1. /\ wanted.domain # <<>> /\ wanted.domain[1] # "~"
            /\ wanted.acme_email # <<>> /\ wanted.acme_email[1] # "~"
        BY <3>1, AcceptedIs DEF Accepted
      <4>2. \A key \in Keys : s[key] \in ShellValue(wanted[key])
        BY <3>1, <3>2 DEF ShellReads
      <4> QED
        BY <4>1, <4>2 DEF ShellValue, Keys
    <3> DEFINE t == [wanted EXCEPT !.naive_user = Generated, !.naive_password = Generated]
    <3>4. file' = Render(t)
      <4>1. s \in [Keys -> UNION {ShellValue(Read(file)[key]) : key \in Keys}]
        BY <3>2 DEF ShellReads
      <4> DEFINE r == [s EXCEPT !.naive_user = Generated, !.naive_password = Generated]
      <4>2. /\ r.domain = s.domain /\ r.acme_email = s.acme_email
            /\ r.naive_user = Generated /\ r.naive_password = Generated
        BY <4>1 DEF Keys
      <4>3. /\ t.domain = wanted.domain /\ t.acme_email = wanted.acme_email
            /\ t.naive_user = Generated /\ t.naive_password = Generated
        BY <3>1 DEF Accepted, Settled, Keys
      <4>4. file' = Render(r)
        BY <3>2
      <4> HIDE DEF r, t
      <4> QED
        BY <3>3, <4>2, <4>3, <4>4 DEF Render
    <3>5. Accepted(t) /\ t.naive_user # <<>>
      BY <2>1, <3>1, AnotherPair
    <3>6. wanted' = t /\ settings' = settings
      BY <2>4 DEF Rotate
    <3> HIDE DEF t
    <3> QED
      BY <1>2, <3>4, <3>5, <3>6 DEF ValueIInv
  <2>5. CASE UNCHANGED valueVars
    BY <1>2, <2>5 DEF ValueIInv, valueVars
  <2> QED
    BY <1>2, <2>2, <2>3, <2>4, <2>5 DEF ValueNext
<1> QED
  BY <1>1, <1>2, PTL DEF ValueSpec

\* What load_settings accepts is refused neither by the role's own validation nor because
\* of the env that was saved before (config.py, main.yml, credentials.yml).
THEOREM AcceptedIsNeverRefused == ValueSpec => []NeverRefused
<1>1. ASSUME ValueIInv PROVE NeverRefused
  BY <1>1, AcceptedIs, ReadBack DEF ValueIInv, Accepted, NeverRefused
<1> QED
  BY <1>1, ValueInvariance, PTL

\* Every gateway.env is accepted by each of its readers and means to each what was meant
\* (gateway.env.j2, credentials.yml, read_credentials, restore_backup, verify.yml).
THEOREM WrittenReadsBack == ValueSpec => []ReadsBack
<1>1. ASSUME ValueIInv PROVE ReadsBack
  BY <1>1, ReadBack DEF ValueIInv, ReadsBack
<1> QED
  BY <1>1, ValueInvariance, PTL
=============================================================================
