----------------------------- MODULE OverlapProofs -----------------------------
(***************************************************************************)
(* Proofs about OverlappingDeploys for any number of deploys, lost         *)
(* connections and failures, in any interleaving.  What is proved of a     *)
(* behaviour holds until a recover runs beside another deploy's            *)
(* transaction; the history variable crossed tells.                        *)
(***************************************************************************)
EXTENDS OverlappingDeploys, TLAPS

Resting == {"new", "end"}

Records == [prev : Nat, cand : Nat, env : Nat, torn : BOOLEAN]

OverTypeInv ==
    /\ env \in Nat /\ current \in Nat /\ good \in Nat
    /\ container \in [commit : Nat, env : Nat]
    /\ recovery \in Records /\ (recovery = NoRecord \/ recovery.cand \in Deploys)
    /\ at \in [Deploys -> Resting \cup Remote]
    /\ snap \in [Deploys -> Records]
    /\ rescuing \subseteq Deploys /\ controller \in {0} \cup Deploys /\ faults \in Nat

\* A snapshot, whole or partly removed, is of the service accepted last.
SnapInv == recovery # NoRecord => recovery.prev = good /\ recovery.env = good

Serves == container \in {On(good, good), Off}
Settled == env = good /\ current = good /\ Serves

\* Without a snapshot that could be restored nothing else is served.
SettledInv == recovery = NoRecord \/ recovery.torn => Settled

\* Every recover, also one that works from what it read before another one finished,
\* restores the service accepted last, and what it has restored stays so.
RecoversInv == \A d \in Deploys :
    /\ at[d] \in {"restore", "up_previous", "wait_previous", "repoint"} =>
        snap[d].prev = good /\ good # 0
    /\ at[d] \in {"stop", "drop_env", "drop_current"} => good = 0
    /\ at[d] \in {"up_previous", "wait_previous", "repoint", "drop_current"} => env = good
    /\ at[d] \in {"wait_previous", "repoint", "drop_env", "drop_current"} => Serves
    /\ at[d] \in {"purge", "rmdir"} => Settled

\* How far a transaction is; a Compose call left waiting may have failed meanwhile.
ProgressInv == \A d \in Deploys :
    /\ Transacts(d) => recovery # NoRecord /\ ~recovery.torn /\ recovery.cand = d
    /\ Transacts(d) /\ at[d] # "activate" => env = d
    /\ Transacts(d) /\ at[d] \notin {"activate", "up"} => container \in {On(d, d), Off}
    /\ at[d] \in {"promote", "retain"} => snap[d].cand = d
    /\ at[d] = "retain" => current = d

\* As long as no recover runs beside a transaction.
ApartInv ==
    /\ OverTypeInv /\ ~Crossing /\ SnapInv /\ SettledInv /\ RecoversInv /\ ProgressInv

OverIInv == crossed \/ ApartInv

LEMMA DeploysAreNumbers == \A d \in Deploys : d \in Nat /\ d # 0
  BY OverlapAssumption DEF Deploys

LEMMA RecordFacts ==
  /\ NoRecord \in Records
  /\ \A r \in Records : [r EXCEPT !.torn = TRUE] \in Records
                          /\ [r EXCEPT !.torn = TRUE].cand = r.cand
  /\ \A p, c, e \in Nat : [prev |-> p, cand |-> c, env |-> e, torn |-> FALSE] \in Records
  BY DEF Records, NoRecord

USE DeploysAreNumbers
    DEF Records, Remote, RecoverSteps, Compose, Transaction, Resting, NoRecord, Off, On,
        files, process, overVars

LEMMA OperatorKeeps ==
  ASSUME ApartInv, ~Crossing', NEW d \in Deploys,
         StartDeploy(d) \/ LoseConnection(d) \/ PrepareFails(d)
  PROVE  ApartInv'
<1> USE DEF ApartInv, OverTypeInv, SnapInv, Serves, Settled, SettledInv, RecoversInv,
            ProgressInv, Crossing, Transacts, Go, Over, Fails, RecoverOver
<1>1. CASE StartDeploy(d)
  BY <1>1, SMTT(30) DEF StartDeploy
<1>2. CASE LoseConnection(d)
  BY <1>2, SMTT(30) DEF LoseConnection, Spend
<1>3. CASE PrepareFails(d)
  BY <1>3, SMTT(30) DEF PrepareFails
<1> QED
  BY <1>1, <1>2, <1>3

LEMMA RecoverKeeps ==
  ASSUME ApartInv, ~Crossing', NEW d \in Deploys,
         RecoverNothing(d) \/ ReadState(d) \/ Restore(d) \/ UpPrevious(d) \/ WaitPrevious(d) \/ Repoint(d)
  PROVE  ApartInv'
<1> USE DEF ApartInv, OverTypeInv, SnapInv, Serves, Settled, SettledInv, RecoversInv,
            ProgressInv, Crossing, Transacts, Go, Over, Fails, RecoverOver
<1>1. CASE RecoverNothing(d)
  BY <1>1, SMTT(30) DEF RecoverNothing
<1>2. CASE ReadState(d)
  BY <1>2, SMTT(30) DEF ReadState
<1>3. CASE Restore(d)
  BY <1>3, SMTT(30) DEF Restore
<1>4. CASE UpPrevious(d)
  BY <1>4, SMTT(30) DEF UpPrevious
<1>5. CASE WaitPrevious(d)
  BY <1>5, SMTT(30) DEF WaitPrevious
<1>6. CASE Repoint(d)
  BY <1>6, SMTT(30) DEF Repoint
<1> QED
  BY <1>1, <1>2, <1>3, <1>4, <1>5, <1>6

LEMMA StopKeeps ==
  ASSUME ApartInv, ~Crossing', NEW d \in Deploys,
         Stop(d) \/ DropEnv(d) \/ DropCurrent(d) \/ Purge(d) \/ PurgeEnds(d)
  PROVE  ApartInv'
<1> USE DEF ApartInv, OverTypeInv, SnapInv, Serves, Settled, SettledInv, RecoversInv,
            ProgressInv, Crossing, Transacts, Go, Over, Fails, RecoverOver
<1>1. CASE Stop(d)
  BY <1>1, SMTT(30) DEF Stop
<1>2. CASE DropEnv(d)
  BY <1>2, SMTT(30) DEF DropEnv
<1>3. CASE DropCurrent(d)
  BY <1>3, SMTT(30) DEF DropCurrent
<1>4. CASE Purge(d)
  <2>1. OverTypeInv'
    <3>1. recovery' \in Records /\ (recovery' = NoRecord \/ recovery'.cand \in Deploys)
      <4>1. \/ recovery' = recovery
            \/ /\ recovery # NoRecord /\ recovery' = [recovery EXCEPT !.torn = TRUE]
               /\ recovery'.cand = recovery.cand
        BY <1>4 DEF Purge
      <4>2. /\ recovery \in Records /\ (recovery = NoRecord \/ recovery.cand \in Deploys)
            /\ current \in Nat /\ env \in Nat
        OBVIOUS
      <4> HIDE DEF Records, NoRecord
      <4> QED
        BY <4>1, <4>2, RecordFacts
    <3>2. at' \in [Deploys -> Resting \cup Remote] /\ controller' \in {0} \cup Deploys
      BY <1>4 DEF Purge
    <3>3. snap' = snap /\ rescuing' \subseteq Deploys
      BY <1>4 DEF Purge
    <3>4. UNCHANGED <<env, current, good, container, faults>>
      BY <1>4 DEF Purge
    <3> QED
      BY <3>1, <3>2, <3>3, <3>4
  <2>2. ~Crossing'
    BY <1>4, SMTT(30) DEF Purge
  <2>3. SnapInv'
    BY <1>4, SMTT(30) DEF Purge
  <2>4. SettledInv'
    BY <1>4, SMTT(30) DEF Purge
  <2>5. RecoversInv'
    BY <1>4, SMTT(30) DEF Purge
  <2>6. ProgressInv'
    BY <1>4, SMTT(30) DEF Purge
  <2> QED
    BY <2>1, <2>2, <2>3, <2>4, <2>5, <2>6
<1>5. CASE PurgeEnds(d)
  <2>1. OverTypeInv'
    <3>1. recovery' \in Records /\ (recovery' = NoRecord \/ recovery'.cand \in Deploys)
      <4>1. recovery' \in {recovery, NoRecord}
        BY <1>5 DEF PurgeEnds
      <4>2. /\ recovery \in Records /\ (recovery = NoRecord \/ recovery.cand \in Deploys)
            /\ current \in Nat /\ env \in Nat
        OBVIOUS
      <4> HIDE DEF Records, NoRecord
      <4> QED
        BY <4>1, <4>2, RecordFacts
    <3>2. at' \in [Deploys -> Resting \cup Remote] /\ controller' \in {0} \cup Deploys
      BY <1>5 DEF PurgeEnds
    <3>3. snap' = snap /\ rescuing' \subseteq Deploys
      BY <1>5 DEF PurgeEnds
    <3>4. UNCHANGED <<env, current, good, container, faults>>
      BY <1>5 DEF PurgeEnds
    <3> QED
      BY <3>1, <3>2, <3>3, <3>4
  <2>2. ~Crossing'
    BY <1>5, SMTT(30) DEF PurgeEnds
  <2>3. SnapInv'
    BY <1>5, SMTT(30) DEF PurgeEnds
  <2>4. SettledInv'
    BY <1>5, SMTT(30) DEF PurgeEnds
  <2>5. RecoversInv'
    BY <1>5, SMTT(30) DEF PurgeEnds
  <2>6. ProgressInv'
    BY <1>5, SMTT(30) DEF PurgeEnds
  <2> QED
    BY <2>1, <2>2, <2>3, <2>4, <2>5, <2>6
<1> QED
  BY <1>1, <1>2, <1>3, <1>4, <1>5

LEMMA TransactionKeeps ==
  ASSUME ApartInv, ~Crossing', NEW d \in Deploys,
         Begin(d) \/ Activate(d) \/ Up(d) \/ Wait(d) \/ Commit(d) \/ Promote(d) \/ Retain(d)
  PROVE  ApartInv'
<1> USE DEF ApartInv, OverTypeInv, SnapInv, Serves, Settled, SettledInv, RecoversInv,
            ProgressInv, Crossing, Transacts, Go, Over, Fails, RecoverOver
<1>1. CASE Begin(d)
  <2>1. OverTypeInv'
    <3>1. recovery' \in Records /\ (recovery' = NoRecord \/ recovery'.cand \in Deploys)
      <4>1. recovery' \in {recovery, [prev |-> current, cand |-> d, env |-> env, torn |-> FALSE]}
        BY <1>1 DEF Begin, CanBegin
      <4>2. /\ recovery \in Records /\ (recovery = NoRecord \/ recovery.cand \in Deploys)
            /\ current \in Nat /\ env \in Nat
        OBVIOUS
      <4> HIDE DEF Records, NoRecord
      <4> QED
        BY <4>1, <4>2, RecordFacts
    <3>2. at' \in [Deploys -> Resting \cup Remote] /\ controller' \in {0} \cup Deploys
      BY <1>1 DEF Begin
    <3>3. snap' = snap /\ rescuing' \subseteq Deploys
      BY <1>1 DEF Begin
    <3>4. UNCHANGED <<env, current, good, container, faults>>
      BY <1>1 DEF Begin
    <3> QED
      BY <3>1, <3>2, <3>3, <3>4
  <2>2. ~Crossing'
    BY <1>1, SMTT(30) DEF Begin, CanBegin
  <2>3. SnapInv'
    BY <1>1, SMTT(30) DEF Begin, CanBegin
  <2>4. SettledInv'
    BY <1>1, SMTT(30) DEF Begin, CanBegin
  <2>5. RecoversInv'
    BY <1>1, SMTT(30) DEF Begin, CanBegin
  <2>6. ProgressInv'
    BY <1>1, SMTT(30) DEF Begin, CanBegin
  <2> QED
    BY <2>1, <2>2, <2>3, <2>4, <2>5, <2>6
<1>2. CASE Activate(d)
  BY <1>2, SMTT(30) DEF Activate
<1>3. CASE Up(d)
  BY <1>3, SMTT(30) DEF Up
<1>4. CASE Wait(d)
  BY <1>4, SMTT(30) DEF Wait
<1>5. CASE Commit(d)
  BY <1>5, SMTT(30) DEF Commit
<1>6. CASE Promote(d)
  BY <1>6, SMTT(30) DEF Promote
<1>7. CASE Retain(d)
  BY <1>7, SMTT(30) DEF Retain
<1> QED
  BY <1>1, <1>2, <1>3, <1>4, <1>5, <1>6, <1>7

LEMMA ComposeKeeps ==
  ASSUME ApartInv, ~Crossing', NEW d \in Deploys,
         ComposeFails(d)
  PROVE  ApartInv'
<1> USE DEF ApartInv, OverTypeInv, SnapInv, Serves, Settled, SettledInv, RecoversInv,
            ProgressInv, Crossing, Transacts, Go, Over, Fails, RecoverOver
<1>1. CASE ComposeFails(d)
  BY <1>1, SMTT(30) DEF ComposeFails, Compose, Spend, Hopeless
<1> QED
  BY <1>1

-----------------------------------------------------------------------------

LEMMA OverNextKeeps == ASSUME OverIInv, [OverNext]_overVars PROVE OverIInv'
<1>1. CASE OverNext /\ ~crossed'
  <2>1. ~crossed /\ ~Crossing'
    BY <1>1 DEF OverNext
  <2>2. ApartInv
    BY <2>1 DEF OverIInv
  <2>3. ApartInv'
    BY <1>1, <2>1, <2>2, OperatorKeeps, RecoverKeeps, StopKeeps, TransactionKeeps, ComposeKeeps
    DEF OverNext
  <2> QED
    BY <2>3 DEF OverIInv
<1>2. CASE crossed'
  BY <1>2 DEF OverIInv
<1>3. CASE UNCHANGED overVars
  BY <1>3 DEF OverIInv, ApartInv, OverTypeInv, SnapInv, Serves, Settled, SettledInv,
              RecoversInv, ProgressInv, Crossing, Transacts
<1> QED
  BY <1>1, <1>2, <1>3

LEMMA OverInitKeeps == OverInit => OverIInv
<1> SUFFICES ASSUME OverInit PROVE OverIInv
  OBVIOUS
<1>1. OverTypeInv
  <2>1. env \in Nat /\ current \in Nat /\ good \in Nat /\ container \in [commit : Nat, env : Nat]
    BY OverlapAssumption DEF OverInit, Before
  <2>2. recovery \in Records /\ recovery = NoRecord /\ snap \in [Deploys -> Records]
    <3> HIDE DEF Records, NoRecord
    <3> QED
      BY RecordFacts DEF OverInit
  <2>3. at \in [Deploys -> Resting \cup Remote] /\ rescuing = {} /\ controller = 0 /\ faults = 0
    BY DEF OverInit
  <2> QED
    BY <2>1, <2>2, <2>3 DEF OverTypeInv
<1>2. ~Crossing /\ SnapInv /\ SettledInv /\ RecoversInv /\ ProgressInv
  BY DEF OverInit, SnapInv, Serves, Settled, SettledInv, RecoversInv, ProgressInv,
         Crossing, Transacts
<1> QED
  BY <1>1, <1>2 DEF OverIInv, ApartInv

\* However many recovers run at once, they are of one mind, until one of them runs
\* beside a transaction (runtime_state.py recover takes no lock).
THEOREM OverInvariance == OverSpec => []OverIInv
<1>1. OverIInv /\ [OverNext]_overVars => OverIInv'
  BY OverNextKeeps
<1> QED
  BY OverInitKeeps, <1>1, PTL DEF OverSpec

\* When the commands on the host have ended without a snapshot to restore, pointer and
\* env are those of the service accepted last (runtime_state.py recover), whenever the
\* operator deploys again, unless a recover ran beside another deploy's transaction.
THEOREM OrphansServeAccepted == OverSpec => []ServesAccepted
<1>1. OverIInv => ServesAccepted
  BY DEF OverIInv, ApartInv, SettledInv, Settled, Serves, ServesAccepted
<1> QED
  BY <1>1, OverInvariance, PTL
=============================================================================
