------------------------------ MODULE BackupArchive ------------------------------
(***************************************************************************)
(* The way of an archive: `make backup` (backup_runtime.py) stages the     *)
(* env, the manifest, the image and the volumes and adds everything to a   *)
(* file that has its final name from the start, so a backup that is killed *)
(* leaves a torn archive behind that looks like a good one; the operator   *)
(* downloads it, perhaps not to its end; the host is lost; and `make       *)
(* restore` (restore_runtime.py) sets up the service on an empty one,      *)
(* which is backed up in its turn.  What a restore does to the runtime     *)
(* state step by step, and how it undoes it, is in GatewayLifecycle.       *)
(***************************************************************************)
EXTENDS Naturals, SequencesExt

CONSTANTS
    Commits,     \* source revisions
    Envs,        \* runtime envs
    None,
    MaxArchives  \* bound: the backups that are begun

ASSUME ArchiveAssumption == None \notin Commits \cup Envs /\ MaxArchives \in Nat

\* RUNTIME_FILES: Caddyfile and site; compose.yml and versions.env; deployment.yml;
\* Makefile and scripts; .release-complete; .runtime-env-path.  A release that was
\* deployed has the rest of the repository, too.
RuntimeFiles == <<"caddy", "compose", "pin", "scripts", "marker", "runtime path">>
Tree == ToSet(RuntimeFiles) \cup {"sources"}
Volumes == <<"caddy_data", "caddy_config">>
Payload == <<"manifest", "env", "image">> \o Volumes

VARIABLES
    host,        \* the service's host: its commit, env and release files, None if lost
    bak,         \* the next step of the backup
    staged,      \* what its private directory holds
    building,    \* the archive it writes, None before the file exists
    archives,    \* the files in /var/backups/naive-gateway that no backup is writing
    begun,       \* backups begun so far
    copy,        \* the archive on the controller, None if none
    res,         \* the next step of the restore
    image        \* the commit whose image is loaded on the empty host

archiveVars == <<host, bak, staged, building, archives, begun, copy, res, image>>
backupVars == <<bak, staged, building, archives, begun>>
restoreVars == <<copy, res, image>>

ArchiveInit ==
    /\ host \in [commit : Commits, env : Envs, files : {Tree}]
    /\ bak = "idle" /\ staged = {} /\ building = None /\ archives = {} /\ begun = 0
    /\ copy = None /\ res = "idle" /\ image = None

Idle == bak = "idle" /\ res = "idle"

-----------------------------------------------------------------------------
(* make backup                                                             *)

\* Mutated Members: the pinned image is not among the runtime files.
MembersUnpinned == SelectSeq(RuntimeFiles, LAMBDA f : f # "pin") \o Payload

Members == RuntimeFiles \o Payload

CanBackup == host # None /\ "marker" \in host.files

StartBackup ==
    /\ Idle /\ CanBackup /\ begun < MaxArchives
    /\ bak' = "stage" /\ staged' = {"env", "manifest"} /\ begun' = begun + 1
    /\ UNCHANGED <<host, building, archives, restoreVars>>

\* docker image save, then a throw-away container that packs each volume.
Stage ==
    /\ bak = "stage"
    /\ \E part \in ToSet(Payload) \ staged :
        /\ part \in ToSet(Volumes) => "image" \in staged
        /\ staged' = staged \cup {part}
    /\ UNCHANGED <<host, bak, building, archives, begun, restoreVars>>

\* mkstemp in the directory of the archives, with mode 0600.
CreateArchive ==
    /\ bak = "stage" /\ staged = ToSet(Payload)
    /\ bak' = "bundle"
    /\ building' = [commit |-> host.commit, env |-> host.env, members |-> <<>>,
                    whole |-> FALSE, printed |-> FALSE]
    /\ UNCHANGED <<host, staged, archives, begun, restoreVars>>

AddMember ==
    /\ bak = "bundle" /\ building.members # Members
    /\ LET member == Members[Len(building.members) + 1]
       IN  /\ member \in host.files \cup staged
           /\ building' = [building EXCEPT !.members = Append(@, member)]
    /\ UNCHANGED <<host, bak, staged, archives, begun, restoreVars>>

\* The end of the tar and of the gzip stream, with its checksum.
CloseArchive ==
    /\ bak = "bundle" /\ building.members = Members
    /\ bak' = "print"
    /\ building' = [building EXCEPT !.whole = TRUE]
    /\ UNCHANGED <<host, staged, archives, begun, restoreVars>>

BackupEnds == bak' = "idle" /\ staged' = {} /\ building' = None

PrintArchive ==
    /\ bak = "print"
    /\ archives' = archives \cup {[building EXCEPT !.printed = TRUE]}
    /\ BackupEnds
    /\ UNCHANGED <<host, begun, restoreVars>>

\* "Backup failed; no complete archive was produced": its file is unlinked.
BackupFails ==
    /\ bak \in {"stage", "bundle"}
    /\ BackupEnds
    /\ UNCHANGED <<host, archives, begun, restoreVars>>

BackupDies ==
    /\ bak # "idle"
    /\ archives' = archives \cup ({building} \ {None})
    /\ BackupEnds
    /\ UNCHANGED <<host, begun, restoreVars>>

-----------------------------------------------------------------------------
(* The operator                                                            *)

\* scp, of any file there is; the connection may break before the end.
Download ==
    /\ Idle
    /\ \E a \in archives :
        copy' \in {a} \cup {[a EXCEPT !.members = m, !.whole = FALSE] : m \in Prefixes(a.members)}
    /\ UNCHANGED <<host, backupVars, res, image>>

LoseHost ==
    /\ Idle /\ host # None /\ copy # None
    /\ host' = None /\ archives' = {} /\ image' = None
    /\ UNCHANGED <<bak, staged, building, begun, copy, res>>

-----------------------------------------------------------------------------
(* make restore, onto an empty host                                        *)

StartRestore ==
    /\ Idle /\ host = None /\ copy # None
    /\ res' = "read"
    /\ UNCHANGED <<host, backupVars, copy, image>>

\* Mutated ReadsToTheEnd: the archive is taken as a stream and its end is not awaited.
ReadsWhatThereIs == TRUE

\* getmembers() reads the whole file; a truncated one raises.
ReadsToTheEnd == copy.whole

\* What the validation opens, and compares with the manifest.
Validates ==
    {"manifest", "env", "marker"} \cup ToSet(Volumes) \subseteq ToSet(copy.members)

ReadArchive ==
    /\ res = "read"
    /\ ReadsToTheEnd /\ Validates
    /\ res' = "load"
    /\ UNCHANGED <<host, backupVars, copy, image>>

\* docker image load, and its identity is the manifest's.
LoadImage ==
    /\ res = "load"
    /\ "image" \in ToSet(copy.members)
    /\ image' = copy.commit
    /\ res' = "start"
    /\ UNCHANGED <<host, backupVars, copy>>

\* What `up` and check-server.sh need of the release.
CanStart == {"caddy", "compose", "pin", "scripts"} \subseteq ToSet(copy.members)

\* The release is copied, the runtime path written, the volumes unpacked, the service
\* started from the image that the release pins, accepted and committed.
StartService ==
    /\ res = "start"
    /\ CanStart
    /\ host' = [commit |-> image, env |-> copy.env,
                files |-> (ToSet(copy.members) \cap Tree) \cup {"runtime path"}]
    /\ res' = "idle"
    /\ UNCHANGED <<backupVars, copy, image>>

\* Any error: what was changed is undone (GatewayLifecycle), only the image stays.
RestoreFails ==
    /\ res # "idle"
    /\ res' = "idle"
    /\ UNCHANGED <<host, backupVars, copy, image>>

ArchiveNext ==
    \/ StartBackup \/ Stage \/ CreateArchive \/ AddMember \/ CloseArchive \/ PrintArchive
    \/ BackupFails \/ BackupDies
    \/ Download \/ LoseHost
    \/ StartRestore \/ ReadArchive \/ LoadImage \/ StartService \/ RestoreFails

ArchiveSpec == ArchiveInit /\ [][ArchiveNext]_archiveVars

-----------------------------------------------------------------------------
(* Properties                                                              *)

\* An archive that a killed backup or a broken download has cut short, wherever, changes
\* nothing on the new host: it is refused before its image is loaded
\* (restore_runtime.py restore_backup).
TornChangesNothing == res \in {"load", "start"} => copy.whole

\* An archive whose name was printed and that was downloaded to its end is never
\* refused: every check of the restore and the start of the service find what they need,
\* also when the host that was backed up had been restored itself.
PrintedIsRestorable ==
    copy # None /\ copy.printed /\ copy.whole =>
        /\ res = "read" => ReadsToTheEnd /\ Validates
        /\ res = "load" => "image" \in ToSet(copy.members)
        /\ res = "start" => CanStart
=============================================================================
