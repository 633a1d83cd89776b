---------------------------- MODULE PowerInvariants ----------------------------
(***************************************************************************)
(* The inductive strengthening of PowerLoss: what running processes see    *)
(* satisfies the role's own invariant, what a reboot would find is a state *)
(* of an idle host that satisfies it, too; and how far the one may be      *)
(* behind the other.                                                       *)
(***************************************************************************)
EXTENDS PowerLoss, DeployInvariants

FileStates ==
    [env : Envs \cup {None}, pending : Envs \cup {None}, current : Commits \cup {None},
     recovery : Snapshots \cup {None}, previous : Snapshots \cup {None},
     history : SUBSET Snapshots]

\* What Readable says of the snapshot a reboot would find, and what it would archive.
Whole(s) ==
    /\ s # None /\ s.meta # None
    /\ Complete(s.meta.candidate)
    /\ s.meta.previous # None => Complete(s.meta.previous) /\ s.previous # None
    /\ s.candidate # None
Lasting == durable.history \cup ({durable.previous} \ {None})

\* A commit that a rollback may go back to.
Lasts(c) == Complete(c) /\ Startable(c)

FoundInv ==
    /\ durable \in FileStates
    /\ durable.current # None => Complete(durable.current)
    /\ \A s \in Lasting : s.meta # None /\ (s.meta.previous # None => Lasts(s.meta.previous))
    /\ IF Whole(durable.recovery)
       THEN /\ (durable.recovery.meta.previous = None <=> durable.recovery.previous = None)
            /\ Stoppable(durable.recovery.meta.candidate)
            /\ durable.recovery.meta.previous # None => Startable(durable.recovery.meta.previous)
       ELSE /\ (durable.current = None <=> durable.env = None)
            /\ durable.current # None => Startable(durable.current)
            /\ container = IF durable.current = None THEN None
                           ELSE Running(durable.current, durable.env)

\* What a snapshot names stays complete, also when other files of it have gone.
Names(s) ==
    s # None /\ s.meta # None =>
        /\ Complete(s.meta.candidate)
        /\ s.meta.previous # None => Complete(s.meta.previous)
NamesInv == Names(recovery) /\ Names(durable.recovery)

\* While a transaction is open, the pair that runs is in its snapshot.
ServedInv ==
    Readable /\ container # None => container.env \in {recovery.previous, recovery.candidate}

\* begin publishes its snapshot over files that are all durable ...
StagedInv ==
    rt \in {"stage_previous", "stage_state", "publish"} =>
        /\ durable.recovery = recovery /\ durable.env = env /\ durable.current = current

\* ... and nothing is activated or restarted before the snapshot is durable, too.
Unsynced ==
    /\ durable.recovery = None
    /\ durable.env = env /\ env = recovery.previous
    /\ durable.current = current /\ current = recovery.meta.previous
    /\ container = IF current = None THEN None ELSE Running(current, env)
SyncedInv ==
    /\ Readable => durable.recovery = recovery \/ Unsynced
    /\ (Published /\ rt # "sync") \/ rt \in {"restart", "repoint"} => durable.recovery = recovery

\* Outside a transaction the power can only take its end back: a rollback, after which
\* the same service is accepted, or the last acceptance.
LagInv ==
    ~Readable =>
        IF Whole(durable.recovery)
        THEN \/ durable.recovery.previous = env /\ durable.recovery.meta.previous = current
             \/ /\ previous = durable.recovery
                /\ env = previous.candidate /\ current = previous.meta.candidate
        ELSE durable.env = env /\ durable.current = current

PowerIInv ==
    /\ CoreInv /\ FoundInv
    /\ NamesInv /\ ServedInv /\ StagedInv /\ SyncedInv /\ LagInv
=============================================================================
