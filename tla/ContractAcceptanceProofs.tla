---------------------- MODULE ContractAcceptanceProofs ----------------------
(***************************************************************************)
(* ContractAcceptance for every set of contents and clients and every      *)
(* bound: its types, that evidence names what its verifier was given, that *)
(* the verifier budget holds, that a terminal contract is final, and that  *)
(* a confirmation completes only a content some verifier passed.           *)
(***************************************************************************)
EXTENDS ContractAcceptance, TLAPS

ContractRows == [state : States, revision : 1 .. MaxRevision, content : Contents,
                 acceptance : AcceptanceStatus, missed : BOOLEAN]

\* The snapshot of the current revision is the row's content.
SnapshotOfRow == snapshots[contract.revision] = contract.content

\* The verifier in flight was given the acceptance of the revision it names.
VerifierBound ==
    verifier # NoVerifier =>
        /\ verifier.revision \in 1 .. contract.revision
        /\ snapshots[verifier.revision] = verifier.saw

\* A verifier about to be spawned is within budget and alone, and what it will
\* be given is a snapshot.
DispatchBound ==
    daemon.at = "dispatching" =>
        /\ verifier = NoVerifier
        /\ used < Reserved
        /\ daemon.revision \in 1 .. contract.revision
        /\ snapshots[daemon.revision] = daemon.content

\* A patch that is still current was admitted in a state that is not terminal.
PatchBound ==
    \A c \in Clients : rpc[c].op = "patch" =>
        /\ rpc[c].content \in Contents
        /\ rpc[c].revision <= contract.revision
        /\ rpc[c].revision = contract.revision => contract.state \notin Terminal

\* Some verifier succeeded.
SomePassed == \E i \in DOMAIN verdicts : verdicts[i].success

\* There is no candidate, nor a call that confirms one, before a success; and
\* an admitted confirmation that is still current has one of its own content.
CandidateBound ==
    /\ contract.acceptance = "candidate" => SomePassed
    /\ daemon.at = "holding" => SomePassed
    /\ \A c \in Clients :
        /\ rpc[c].op \in {"confirm", "confirmed"} => SomePassed
        /\ rpc[c].op \in {"confirm", "confirmed"} => rpc[c].revision <= contract.revision
        /\ rpc[c].op = "confirmed" /\ rpc[c].revision = contract.revision
                => Verified(contract.content)

IInv == /\ TypeOK
        /\ EvidenceNamesWhatWasChecked
        /\ VerifierBudget
        /\ SnapshotOfRow
        /\ VerifierBound
        /\ DispatchBound
        /\ PatchBound
        /\ CandidateBound

-----------------------------------------------------------------------------
(* Writes of the contract's row *)

\* A row that was written: one revision more, and its snapshot.
Grown == /\ contract' \in ContractRows
         /\ contract'.revision = contract.revision + 1
         /\ snapshots' = Append(snapshots, contract'.content)

\* What update_contract_state writes.
LEMMA UpdateGrows ==
    ASSUME TypeOK, NEW to \in States, NEW acceptance \in AcceptanceStatus,
           NEW missed \in BOOLEAN, Update(to, acceptance, missed)
    PROVE  /\ Grown
           /\ contract'.content = contract.content
           /\ contract'.state = to
           /\ contract'.acceptance = acceptance
           /\ Legal(contract.state, to)
<1>1. contract.revision + 1 \in 1 .. MaxRevision
  BY BoundsAssumption DEF Update, TypeOK
<1> QED
  BY <1>1 DEF Update, TypeOK, ContractRows, Grown

\* What patch_contract writes, if it writes.
LEMMA PatchGrows ==
    ASSUME TypeOK, NEW c \in Clients, CommitPatch(c), Current(c),
           rpc[c].content \in Contents
    PROVE  /\ Grown
           /\ contract'.state = contract.state
           /\ contract'.acceptance = contract.acceptance
<1>1. contract.revision < MaxRevision => contract.revision + 1 \in 1 .. MaxRevision
  BY BoundsAssumption DEF TypeOK
<1> QED
  BY <1>1 DEF CommitPatch, TypeOK, ContractRows, Grown

\* Earlier snapshots stay what they were.
LEMMA SnapshotsStay ==
    ASSUME TypeOK, Grown
    PROVE  /\ snapshots' \in Seq(Contents)
           /\ Len(snapshots') = contract'.revision
           /\ snapshots'[contract'.revision] = contract'.content
           /\ \A r \in 1 .. contract.revision : snapshots'[r] = snapshots[r]
<1>1. /\ snapshots \in Seq(Contents) /\ Len(snapshots) = contract.revision
      /\ contract.revision \in Nat /\ contract'.content \in Contents
  BY BoundsAssumption DEF TypeOK, Grown, ContractRows
<1> QED
  BY <1>1 DEF Grown

\* A write of the row by somebody who ends a call, or an action of the daemon,
\* or neither, keeps the invariant.
LEMMA GrownKeepsIInv ==
    ASSUME IInv, Grown, UNCHANGED <<verifier, used, overdue>>,
           verdicts' \in Seq(Verdicts), EvidenceNamesWhatWasChecked',
           SomePassed => SomePassed',
           requested' \in BOOLEAN,
           daemon' \in {daemon, Idle, Dead},
           rpc' \in [Clients -> Calls],
           \A c \in Clients : rpc'[c] \in {rpc[c], NoCall},
           contract'.acceptance = "candidate" => SomePassed'
    PROVE  IInv'
<1> USE DEF IInv
<1>1. /\ contract.revision \in Nat /\ contract'.revision \in Nat
      /\ contract'.revision = contract.revision + 1
  BY BoundsAssumption DEF TypeOK, Grown, ContractRows
<1>2. daemon' = daemon \/ daemon'.at \in {"idle", "dead"}
  BY DEF Idle, Dead, Decided
<1>3. TypeOK'
  <2>1. daemon' \in DaemonStates
    BY BoundsAssumption
       DEF TypeOK, DaemonStates, Idle, Dead, Decided, Revisions, AcceptanceStatus, Fingerprints
  <2> QED
    BY <2>1, SnapshotsStay DEF TypeOK, Grown, ContractRows, DaemonStates, Calls
<1>4. VerifierBudget'
  BY DEF VerifierBudget
<1>5. SnapshotOfRow'
  BY SnapshotsStay DEF SnapshotOfRow
<1>6. VerifierBound'
  BY <1>1, SnapshotsStay DEF VerifierBound
<1>7. DispatchBound'
  BY <1>1, <1>2, SnapshotsStay DEF DispatchBound
<1>8. \A c \in Clients : rpc'[c].op # "none" => rpc'[c] = rpc[c]
  BY DEF NoCall
<1>9. \A c \in Clients : rpc[c].revision <= contract.revision
            => rpc[c].revision <= contract'.revision /\ rpc[c].revision # contract'.revision
  BY <1>1 DEF TypeOK, Revisions, Calls
<1>10. PatchBound'
  BY <1>8, <1>9 DEF PatchBound
<1>11. CandidateBound'
  BY <1>2, <1>8, <1>9 DEF CandidateBound
<1> QED
  BY <1>3, <1>4, <1>5, <1>6, <1>7, <1>10, <1>11

\* Verdicts that stay keep what is known of them.
LEMMA VerdictsStay ==
    ASSUME IInv, UNCHANGED verdicts
    PROVE  /\ verdicts' \in Seq(Verdicts)
           /\ EvidenceNamesWhatWasChecked'
           /\ SomePassed => SomePassed'
  BY DEF IInv, TypeOK, EvidenceNamesWhatWasChecked, SomePassed

-----------------------------------------------------------------------------
(* Steps that leave the row alone *)

\* A move of the daemon between two transactions.
LEMMA DaemonMovesKeepIInv ==
    ASSUME IInv, daemon' \in DaemonStates,
           UNCHANGED <<contract, snapshots, verdicts, verifier, used, requested,
                       overdue, rpc>>,
           daemon'.at = "holding" => SomePassed,
           daemon'.at = "dispatching" => DispatchBound'
    PROVE  IInv'
<1> USE DEF IInv
<1>1. TypeOK'
  BY DEF TypeOK, DaemonStates
<1>2. DispatchBound'
  BY DEF DispatchBound
<1>3. CandidateBound'
  BY DEF CandidateBound, SomePassed, Verified
<1>4. EvidenceNamesWhatWasChecked' /\ VerifierBudget' /\ SnapshotOfRow'
  BY DEF EvidenceNamesWhatWasChecked, VerifierBudget, SnapshotOfRow
<1>5. VerifierBound' /\ PatchBound'
  BY DEF VerifierBound, PatchBound
<1> QED
  BY <1>1, <1>2, <1>3, <1>4, <1>5

\* The states of the daemon between a decision and its write.
LEMMA DecidedState ==
    ASSUME NEW at \in {"idle", "dead", "completing", "holding", "rejecting",
                       "expiring", "blocking", "exhausted"}
    PROVE  Decided(at) \in DaemonStates /\ Decided(at).at = at /\ Idle = Decided("idle")
  BY BoundsAssumption
     DEF Decided, Idle, DaemonStates, Revisions, AcceptanceStatus, Fingerprints

\* A snapshot of the row is a state of the daemon.
LEMMA SnapshotState ==
    ASSUME TypeOK, NEW at \in {"judging", "dispatching"}
    PROVE  Snapshot(at) \in DaemonStates /\ Snapshot(at).at = at
  BY BoundsAssumption DEF Snapshot, TypeOK, DaemonStates, Revisions, Fingerprints

\* A step of a handler that writes no table.
LEMMA CallsKeepIInv ==
    ASSUME IInv, NEW c \in Clients, NEW call \in Calls,
           rpc' = [rpc EXCEPT ![c] = call],
           UNCHANGED <<contract, snapshots, verdicts, verifier, used, overdue, daemon>>,
           requested' \in BOOLEAN,
           call.op = "patch" =>
                /\ call.content \in Contents
                /\ call.revision = contract.revision
                /\ contract.state \notin Terminal,
           call.op \in {"confirm", "confirmed"} =>
                SomePassed /\ call.revision <= contract.revision,
           call.op = "confirmed" /\ call.revision = contract.revision
                => Verified(contract.content)
    PROVE  IInv'
<1> USE DEF IInv
<1>1. TypeOK'
  BY DEF TypeOK, Calls
<1>2. \A x \in Clients : rpc'[x] = IF x = c THEN call ELSE rpc[x]
  BY DEF TypeOK
<1>3. contract.revision \in Nat
  BY BoundsAssumption DEF TypeOK
<1>4. PatchBound'
  BY <1>2, <1>3 DEF PatchBound
<1>5. CandidateBound'
  BY <1>2 DEF CandidateBound, SomePassed, Verified
<1>6. EvidenceNamesWhatWasChecked' /\ VerifierBudget' /\ SnapshotOfRow'
  BY DEF EvidenceNamesWhatWasChecked, VerifierBudget, SnapshotOfRow
<1>7. VerifierBound' /\ DispatchBound'
  BY DEF VerifierBound, DispatchBound
<1> QED
  BY <1>1, <1>4, <1>5, <1>6, <1>7

-----------------------------------------------------------------------------
(* Verdicts *)

\* A verdict whose evidence is what its verifier saw keeps what is known of
\* the verdicts.
LEMMA ReportKeeps ==
    ASSUME TypeOK, EvidenceNamesWhatWasChecked,
           NEW success \in BOOLEAN, NEW revision \in Revisions,
           NEW print \in Fingerprints, NEW saw \in Fingerprints,
           success => print = saw,
           Report(success, revision, print, saw)
    PROVE  /\ verdicts' \in Seq(Verdicts)
           /\ EvidenceNamesWhatWasChecked'
           /\ SomePassed => SomePassed'
           /\ contract' = contract /\ Verified(contract.content)
                => Verified(contract.content)'
<1> DEFINE verdict == [success |-> success, revision |-> revision,
                       print |-> IF success THEN print ELSE NoContent, saw |-> saw]
<1>1. verdict \in Verdicts
  BY DEF Verdicts, Fingerprints
<1>2. /\ verdict.success => verdict.print = verdict.saw
      /\ verdicts' = Append(verdicts, verdict)
  BY DEF Report
<1>3. verdicts \in Seq(Verdicts)
  BY DEF TypeOK
<1> HIDE DEF verdict
<1>4. /\ DOMAIN verdicts \subseteq DOMAIN verdicts'
      /\ \A i \in DOMAIN verdicts' : i \notin DOMAIN verdicts => verdicts'[i] = verdict
      /\ \A i \in DOMAIN verdicts : verdicts'[i] = verdicts[i]
      /\ verdicts' \in Seq(Verdicts)
  BY <1>1, <1>2, <1>3
<1> QED
  BY <1>2, <1>4 DEF EvidenceNamesWhatWasChecked, SomePassed, Verified

\* A step of a verifier, in flight or ending, that reports its evidence or
\* nothing, or a spawn that fails.
LEMMA VerdictsKeepIInv ==
    ASSUME IInv,
           UNCHANGED <<contract, snapshots, requested, overdue, rpc>>,
           \/ UNCHANGED <<verifier, used>> /\ daemon' \in {daemon, Idle}
           \/ /\ verifier # NoVerifier /\ daemon.at = "idle"
              /\ verifier' = NoVerifier /\ used' = used + 1 /\ daemon' = daemon,
           \/ UNCHANGED verdicts
           \/ \E success \in BOOLEAN, revision \in Revisions,
                 print \in Fingerprints, saw \in Fingerprints :
                    (success => print = saw) /\ Report(success, revision, print, saw)
    PROVE  IInv'
<1> USE DEF IInv
<1>1. /\ verdicts' \in Seq(Verdicts)
      /\ EvidenceNamesWhatWasChecked'
      /\ SomePassed => SomePassed'
      /\ Verified(contract.content) => Verified(contract.content)'
  <2>1. CASE UNCHANGED verdicts
    BY <2>1 DEF TypeOK, EvidenceNamesWhatWasChecked, SomePassed, Verified
  <2> QED
    BY <2>1, ReportKeeps
<1>2. used' \in 0 .. Reserved /\ VerifierBudget'
  BY BoundsAssumption DEF VerifierBudget, TypeOK
<1>3. verifier' \in [revision : Revisions, saw : Fingerprints]
  BY BoundsAssumption DEF TypeOK, NoVerifier, Revisions, Fingerprints
<1>4. daemon' \in DaemonStates /\ daemon' \in {daemon, Idle} /\ Idle.at = "idle"
  BY DecidedState DEF TypeOK, DaemonStates
<1>5. TypeOK'
  BY <1>1, <1>2, <1>3, <1>4 DEF TypeOK, DaemonStates
<1>6. SnapshotOfRow' /\ VerifierBound' /\ PatchBound'
  BY DEF SnapshotOfRow, VerifierBound, PatchBound
<1>7. DispatchBound'
  BY <1>4 DEF DispatchBound
<1>8. CandidateBound'
  BY <1>1, <1>4 DEF CandidateBound
<1> QED
  BY <1>1, <1>2, <1>5, <1>6, <1>7, <1>8

-----------------------------------------------------------------------------
(* The invariant *)

LEMMA InitIInv == Init => IInv
<1> SUFFICES ASSUME Init PROVE IInv
  OBVIOUS
<1> USE DEF Init
<1>1. contract.content \in Contents /\ contract.revision = 1 /\ contract.state = "drafted"
      /\ contract.acceptance = "pending"
  OBVIOUS
<1>2. snapshots \in Seq(Contents) /\ Len(snapshots) = 1 /\ snapshots[1] = contract.content
  BY <1>1
<1>3. TypeOK
  <2>1. contract \in ContractRows
    <3>1. /\ {"drafted"} \subseteq States /\ {"pending"} \subseteq AcceptanceStatus
          /\ {1} \subseteq 1 .. MaxRevision /\ {FALSE} \subseteq BOOLEAN
      BY BoundsAssumption DEF States, AcceptanceStatus
    <3> QED
      BY <3>1 DEF ContractRows
  <2>2. daemon \in DaemonStates
    BY DecidedState
  <2>3. rpc \in [Clients -> Calls]
    BY BoundsAssumption DEF Calls, NoCall, States, Revisions, Fingerprints
  <2>4. verifier \in [revision : Revisions, saw : Fingerprints]
    BY BoundsAssumption DEF NoVerifier, Revisions, Fingerprints
  <2> QED
    <3>1. /\ verdicts \in Seq(Verdicts)
          /\ used \in 0 .. Reserved
          /\ snapshots \in Seq(Contents) /\ Len(snapshots) = contract.revision
      BY <1>1, <1>2, BoundsAssumption
    <3>2. requested \in BOOLEAN /\ overdue \in BOOLEAN
      OBVIOUS
    <3> HIDE DEF Init
    <3> QED
      BY <2>1, <2>2, <2>3, <2>4, <3>1, <3>2 DEF TypeOK, ContractRows, DaemonStates, Calls
<1>4. EvidenceNamesWhatWasChecked /\ VerifierBudget
  BY BoundsAssumption DEF EvidenceNamesWhatWasChecked, VerifierBudget
<1>5. SnapshotOfRow /\ VerifierBound /\ DispatchBound /\ PatchBound /\ CandidateBound
  BY <1>1, <1>2 DEF SnapshotOfRow, VerifierBound, DispatchBound, PatchBound,
                    CandidateBound, Idle, NoCall
<1> QED
  BY <1>3, <1>4, <1>5 DEF IInv

\* Every write of the daemon.
LEMMA DaemonWritesKeepIInv ==
    ASSUME IInv, NEW at, NEW to \in States, NEW acceptance \in AcceptanceStatus,
           NEW missed \in BOOLEAN, NEW refused \in {Idle, Dead},
           DaemonWrites(at, to, acceptance, missed, refused),
           acceptance = "candidate" => SomePassed
    PROVE  IInv'
<1> USE DEF IInv
<1>1. CASE Update(to, acceptance, missed) /\ daemon' = Idle
  BY <1>1, UpdateGrows, VerdictsStay, GrownKeepsIInv DEF DaemonWrites, TypeOK, Calls
<1>2. CASE Refused(to) /\ daemon' = refused
  <2>1. daemon' \in DaemonStates /\ daemon'.at \in {"idle", "dead"}
    BY <1>2, DecidedState DEF Dead
  <2> QED
    BY <1>2, <2>1, DaemonMovesKeepIInv DEF DaemonWrites, Refused
<1> QED
  BY <1>1, <1>2 DEF DaemonWrites

\* What the writers take from the row, and the constants they write.
LEMMA RowFields ==
    ASSUME IInv
    PROVE  /\ contract.state \in States /\ contract.acceptance \in AcceptanceStatus
           /\ contract.missed \in BOOLEAN /\ overdue \in BOOLEAN /\ TRUE \in BOOLEAN
           /\ contract.acceptance = "candidate" => SomePassed
           /\ {"complete", "active", "expired", "blocked"} \subseteq States
           /\ {"passed", "failed", "candidate"} \subseteq AcceptanceStatus
           /\ Idle \in {Idle, Dead} /\ Dead \in {Idle, Dead}
<1>1. contract \in ContractRows /\ overdue \in BOOLEAN
  BY DEF IInv, TypeOK, ContractRows
<1>2. contract.acceptance = "candidate" => SomePassed
  BY DEF IInv, CandidateBound
<1>3. /\ {"complete", "active", "expired", "blocked"} \subseteq States
      /\ {"passed", "failed", "candidate"} \subseteq AcceptanceStatus
  BY DEF States, Terminal, AcceptanceStatus
<1> QED
  BY <1>1, <1>2, <1>3 DEF ContractRows

LEMMA JudgeKeepsIInv == IInv /\ JudgeNext => IInv'
<1> SUFFICES ASSUME IInv, JudgeNext PROVE IInv'
  OBVIOUS
<1>1. CASE JudgeSnapshot
  BY <1>1, SnapshotState, DaemonMovesKeepIInv DEF JudgeSnapshot, DaemonMoves, IInv
<1>2. CASE JudgeNothing
  BY <1>2, DecidedState, DaemonMovesKeepIInv DEF JudgeNothing, DaemonMoves
<1>3. CASE JudgeSuccess
  <2>1. SomePassed
    BY <1>3 DEF JudgeSuccess, Latest, SomePassed
  <2>2. PICK at \in {"completing", "holding", "rejecting"} :
            DaemonMoves("judging", Decided(at))
    BY <1>3 DEF JudgeSuccess
  <2> QED
    BY <2>1, <2>2, DecidedState, DaemonMovesKeepIInv DEF DaemonMoves
<1>4. CASE JudgeFailure
  BY <1>4, DecidedState, DaemonMovesKeepIInv DEF JudgeFailure, DaemonMoves
<1>5. CASE CommitComplete
  BY <1>5, RowFields, DaemonWritesKeepIInv DEF CommitComplete
<1>6. CASE CommitReject
  BY <1>6, RowFields, DaemonWritesKeepIInv DEF CommitReject
<1>7. CASE CommitHold
  <2>1. SomePassed
    BY <1>7 DEF IInv, CandidateBound, CommitHold, DaemonWrites
  <2> QED
    BY <1>7, <2>1, RowFields, DaemonWritesKeepIInv DEF CommitHold
<1> QED
  BY <1>1, <1>2, <1>3, <1>4, <1>5, <1>6, <1>7 DEF JudgeNext

LEMMA TickKeepsIInv == IInv /\ TickNext => IInv'
<1> SUFFICES ASSUME IInv, TickNext PROVE IInv'
  OBVIOUS
<1>1. CASE ExpireSnapshot
  BY <1>1, DecidedState, DaemonMovesKeepIInv DEF ExpireSnapshot, DaemonMoves
<1>2. CASE CommitExpire
  BY <1>2, RowFields, DaemonWritesKeepIInv DEF CommitExpire
<1>3. CASE HandToUser
  BY <1>3, DecidedState, DaemonMovesKeepIInv DEF HandToUser, DaemonMoves
<1>4. CASE CommitBlocked
  BY <1>4, RowFields, DaemonWritesKeepIInv DEF CommitBlocked
<1>5. CASE AutoApprove
  BY <1>5, RowFields, DaemonWritesKeepIInv DEF AutoApprove
<1>6. CASE Restart
  BY <1>6, DecidedState, DaemonMovesKeepIInv DEF Restart, DaemonMoves
<1>7. CASE DispatchVerifier
  <2>1. CASE BudgetLeft
    <3>1. daemon' = Snapshot("dispatching") /\ verifier' = NoVerifier /\ used' < Reserved
      BY <1>7, <2>1 DEF DispatchVerifier, DaemonMoves, BudgetLeft
    <3>2. /\ contract' = contract /\ snapshots' = snapshots
          /\ contract.revision \in 1 .. contract.revision
      BY <1>7, BoundsAssumption DEF DispatchVerifier, DaemonMoves, IInv, TypeOK
    <3>3. DispatchBound'
      BY <3>1, <3>2 DEF DispatchBound, Snapshot, IInv, SnapshotOfRow
    <3> QED
      BY <1>7, <3>1, <3>3, SnapshotState, DaemonMovesKeepIInv
         DEF DispatchVerifier, DaemonMoves, IInv
  <2>2. CASE ~BudgetLeft
    BY <1>7, <2>2, DecidedState, DaemonMovesKeepIInv DEF DispatchVerifier, DaemonMoves
  <2> QED
    BY <2>1, <2>2
<1>8. CASE CommitExhausted
  BY <1>8, RowFields, DaemonWritesKeepIInv DEF CommitExhausted
<1>9. CASE SpawnVerifier
  <2> USE DEF SpawnVerifier
  <2>1. /\ daemon.revision \in 1 .. contract.revision
        /\ snapshots[daemon.revision] = daemon.content
        /\ verifier = NoVerifier /\ used < Reserved
    BY <1>9 DEF IInv, DispatchBound
  <2>2. verifier' \in [revision : Revisions, saw : Fingerprints] /\ requested' \in BOOLEAN
    BY <1>9 DEF IInv, TypeOK, DaemonStates
  <2>3. daemon' \in DaemonStates /\ daemon'.at = "idle"
    BY <1>9, DecidedState
  <2>4. TypeOK'
    BY <1>9, <2>2, <2>3 DEF IInv, TypeOK, DaemonStates
  <2>5. VerifierBudget' /\ VerifierBound'
    BY <1>9, <2>1, BoundsAssumption DEF IInv, TypeOK, VerifierBudget, VerifierBound
  <2>6. EvidenceNamesWhatWasChecked' /\ SnapshotOfRow' /\ DispatchBound' /\ PatchBound'
    BY <1>9, <2>3
       DEF IInv, EvidenceNamesWhatWasChecked, SnapshotOfRow, DispatchBound, PatchBound
  <2>7. CandidateBound'
    BY <1>9, <2>3 DEF IInv, CandidateBound, SomePassed, Verified
  <2> QED
    BY <2>4, <2>5, <2>6, <2>7 DEF IInv
<1>10. CASE SpawnFails
  <2>1. /\ 0 \in Revisions /\ NoContent \in Fingerprints /\ daemon.content \in Fingerprints
        /\ FALSE \in BOOLEAN
    BY BoundsAssumption DEF IInv, TypeOK, Revisions, Fingerprints, DaemonStates
  <2>2. \E success \in BOOLEAN, revision \in Revisions,
            print \in Fingerprints, saw \in Fingerprints :
                (success => print = saw) /\ Report(success, revision, print, saw)
    BY <1>10, <2>1 DEF SpawnFails
  <2> QED
    BY <1>10, <2>2, VerdictsKeepIInv DEF SpawnFails
<1> QED
  BY <1>1, <1>2, <1>3, <1>4, <1>5, <1>6, <1>7, <1>8, <1>9, <1>10 DEF TickNext

LEMMA AttemptKeepsIInv == IInv /\ AttemptNext => IInv'
<1> SUFFICES ASSUME IInv, AttemptNext PROVE IInv'
  OBVIOUS
<1>1. verifier # NoVerifier =>
        /\ verifier.revision \in Revisions /\ verifier.saw \in Fingerprints
        /\ Fingerprint(verifier.revision) = verifier.saw
  BY DEF IInv, TypeOK, VerifierBound, Fingerprint
<1>2. 0 \in Revisions /\ NoContent \in Fingerprints /\ FALSE \in BOOLEAN
  BY BoundsAssumption DEF Revisions, Fingerprints
<1>3. ASSUME NEW success \in BOOLEAN, VerifierWriteBack(success) PROVE IInv'
  <2>1. /\ Report(success, 0, Fingerprint(verifier.revision), verifier.saw)
        /\ verifier # NoVerifier
    BY <1>3 DEF VerifierWriteBack
  <2>2. CASE UNCHANGED <<contract, snapshots>>
    BY <1>1, <1>2, <1>3, <2>1, <2>2, VerdictsKeepIInv DEF VerifierWriteBack
  <2>3. ASSUME NEW to \in States, NamesState(to) PROVE IInv'
    <3>1. /\ verdicts' \in Seq(Verdicts) /\ EvidenceNamesWhatWasChecked'
          /\ SomePassed => SomePassed'
      BY <1>1, <1>2, <2>1, ReportKeeps DEF IInv
    <3>2. rpc \in [Clients -> Calls] /\ requested \in BOOLEAN /\ TypeOK
      BY DEF IInv, TypeOK
    <3> QED
      BY <1>3, <2>3, <3>1, <3>2, RowFields, UpdateGrows, GrownKeepsIInv
         DEF NamesState, VerifierWriteBack
  <2> QED
    BY <1>3, <2>2, <2>3 DEF VerifierWriteBack
<1>4. ASSUME NEW success \in BOOLEAN, FinishVerifier(success) PROVE IInv'
  <2>1. /\ Report(success, verifier.revision, Fingerprint(verifier.revision), verifier.saw)
        /\ verifier # NoVerifier
    BY <1>4 DEF FinishVerifier, Settle
  <2> QED
    BY <1>1, <1>4, <2>1, VerdictsKeepIInv DEF FinishVerifier, Settle
<1>5. CASE FailVerifier
  <2>1. Report(FALSE, 0, NoContent, verifier.saw) /\ verifier # NoVerifier
    BY <1>5 DEF FailVerifier, Settle
  <2> QED
    BY <1>1, <1>2, <1>5, <2>1, VerdictsKeepIInv DEF FailVerifier, Settle
<1>6. CASE LoseVerifier
  BY <1>6, VerdictsKeepIInv DEF LoseVerifier, Settle
<1>7. ASSUME NEW to \in States, AttemptSetsState(to) PROVE IInv'
  <2>1. rpc \in [Clients -> Calls] /\ requested \in BOOLEAN /\ TypeOK
    BY DEF IInv, TypeOK, Calls
  <2> QED
    BY <1>7, <2>1, RowFields, UpdateGrows, VerdictsStay, GrownKeepsIInv
       DEF AttemptSetsState, NamesState
<1> QED
  BY <1>3, <1>4, <1>5, <1>6, <1>7 DEF AttemptNext

\* A handler that writes the row, or finds its write refused, and answers.
LEMMA AnsweredKeepsIInv ==
    ASSUME IInv, NEW c \in Clients, Answered(c), requested' \in BOOLEAN,
           \/ UNCHANGED <<contract, snapshots>>
           \/ Grown /\ (contract'.acceptance = "candidate" => SomePassed)
    PROVE  IInv'
<1>1. rpc \in [Clients -> Calls]
  BY DEF IInv, TypeOK, Calls
<1>2. NoCall \in Calls /\ NoCall.op = "none"
  BY BoundsAssumption DEF NoCall, Calls, States, Revisions, Fingerprints
<1>3. CASE UNCHANGED <<contract, snapshots>>
  BY <1>2, <1>3, CallsKeepIInv DEF Answered
<1>4. CASE Grown /\ (contract'.acceptance = "candidate" => SomePassed)
  <2>1. rpc' \in [Clients -> Calls] /\ \A x \in Clients : rpc'[x] \in {rpc[x], NoCall}
    BY <1>1, <1>2 DEF Answered
  <2> QED
    BY <1>4, <2>1, VerdictsStay, GrownKeepsIInv DEF Answered
<1> QED
  BY <1>3, <1>4

\* The calls handlers make, and what the invariant asks of each.
LEMMA CallTypes ==
    ASSUME IInv
    PROVE  /\ \A op \in {"move", "verify"}, to \in States :
                Move(op, to) \in Calls /\ Move(op, to).op = op
           /\ \A op \in {"patch", "confirm"}, content \in Fingerprints :
                /\ [NoCall EXCEPT !.op = op, !.revision = contract.revision,
                                  !.content = content] \in Calls
                /\ [NoCall EXCEPT !.op = op, !.revision = contract.revision] \in Calls
<1>1. contract.revision \in Revisions
  BY BoundsAssumption DEF IInv, TypeOK, Revisions
<1>2. NoCall \in Calls
  BY BoundsAssumption DEF NoCall, Calls, States, Revisions, Fingerprints
<1> QED
  BY <1>1, <1>2 DEF Move, NoCall, Calls

LEMMA RpcKeepsIInv == ASSUME IInv, NEW c \in Clients, RpcNext(c) PROVE IInv'
<1> USE DEF Call
<1>1. /\ {"active", "paused", "cancelled", "complete", "archived"} \subseteq States
      /\ Contents \subseteq Fingerprints
      /\ requested \in BOOLEAN
  BY DEF States, Terminal, Fingerprints, IInv, TypeOK
<1>2. contract.revision \in Nat
  BY BoundsAssumption DEF IInv, TypeOK
<1>3. ASSUME NEW op \in {"move", "verify"}, NEW to \in States, Call(c, Move(op, to))
      PROVE  IInv'
  BY <1>1, <1>3, CallTypes, CallsKeepIInv
<1>4. CASE CallApprove(c) \/ CallPause(c) \/ CallResume(c) \/ CallCancel(c)
           \/ CallArbitrate(c) \/ CallVerify(c)
  <2>1. \E op \in {"move", "verify"}, to \in States : Call(c, Move(op, to))
    BY <1>1, <1>4 DEF CallApprove, CallPause, CallResume, CallCancel, CallArbitrate,
                      CallVerify
  <2> QED
    BY <1>3, <2>1
<1>5. CASE CallPatch(c)
  <2>1. PICK content \in Contents :
            Call(c, [NoCall EXCEPT !.op = "patch", !.revision = contract.revision,
                                   !.content = content])
    BY <1>5 DEF CallPatch
  <2> DEFINE call == [NoCall EXCEPT !.op = "patch", !.revision = contract.revision,
                                    !.content = content]
  <2>2. /\ call \in Calls /\ call.op = "patch" /\ call.content = content
        /\ call.revision = contract.revision
    BY <1>1, CallTypes DEF NoCall
  <2>3. contract.state \notin Terminal /\ Call(c, call)
    BY <1>5, <2>1 DEF CallPatch
  <2> HIDE DEF call
  <2> QED
    BY <1>1, <2>2, <2>3, CallsKeepIInv
<1>6. CASE CallConfirm(c)
  <2> DEFINE call == [NoCall EXCEPT !.op = "confirm", !.revision = contract.revision]
  <2>1. /\ call \in Calls /\ call.op = "confirm" /\ call.revision = contract.revision
    BY CallTypes DEF NoCall, Fingerprints
  <2>2. SomePassed /\ Call(c, call)
    BY <1>6 DEF CallConfirm, IInv, CandidateBound
  <2> HIDE DEF call
  <2>3. call.op \notin {"patch", "confirmed"} /\ call.revision <= contract.revision
    BY <1>2, <2>1
  <2>4. /\ rpc' = [rpc EXCEPT ![c] = call]
        /\ UNCHANGED <<contract, snapshots, verdicts, verifier, used, requested, overdue, daemon>>
    BY <2>2
  <2> QED
    BY <1>1, <2>1, <2>2, <2>3, <2>4, CallsKeepIInv
<1>7. CASE CheckEvidence(c)
  <2> DEFINE passes == {i \in DOMAIN verdicts : verdicts[i].success}
             accepted == \/ passes = {}
                         \/ \E i \in passes : verdicts[i].print = contract.content
             call == IF accepted THEN [rpc[c] EXCEPT !.op = "confirmed"] ELSE NoCall
  <2>1. /\ rpc' = [rpc EXCEPT ![c] = call] /\ rpc[c].op = "confirm"
        /\ UNCHANGED <<contract, snapshots, verdicts, verifier, used, requested, overdue, daemon>>
    BY <1>7 DEF CheckEvidence
  <2>2. rpc[c] \in Calls /\ NoCall \in Calls
    BY BoundsAssumption DEF IInv, TypeOK, Calls, NoCall, States, Revisions, Fingerprints
  <2>3. /\ call \in Calls
        /\ call.op \in {"none", "confirmed"}
        /\ call.op = "confirmed" => accepted /\ call.revision = rpc[c].revision
    BY <2>2 DEF Calls, NoCall
  <2>4. SomePassed /\ rpc[c].revision <= contract.revision
    BY <2>1 DEF IInv, CandidateBound
  <2>5. accepted => Verified(contract.content)
    BY <2>4 DEF SomePassed, Verified, IInv, EvidenceNamesWhatWasChecked
  <2> HIDE DEF call, accepted
  <2> QED
    BY <1>1, <2>1, <2>3, <2>4, <2>5, CallsKeepIInv
<1>8. CASE CommitMove(c)
  <2>1. rpc[c].to \in States /\ TypeOK
    BY DEF IInv, TypeOK, Calls
  <2> QED
    BY <1>1, <1>8, <2>1, RowFields, UpdateGrows, AnsweredKeepsIInv DEF CommitMove, Refused
<1>9. CASE CommitVerify(c)
  <2>1. TypeOK
    BY DEF IInv
  <2> QED
    BY <1>1, <1>9, <2>1, RowFields, UpdateGrows, AnsweredKeepsIInv DEF CommitVerify, Refused
<1>10. CASE CommitPatch(c)
  <2>1. rpc[c].content \in Contents /\ TypeOK
    BY <1>10 DEF CommitPatch, IInv, PatchBound
  <2>2. CASE Current(c)
    BY <1>1, <1>10, <2>1, <2>2, RowFields, PatchGrows, AnsweredKeepsIInv DEF CommitPatch
  <2>3. CASE ~Current(c)
    BY <1>1, <1>10, <2>3, AnsweredKeepsIInv DEF CommitPatch
  <2> QED
    BY <2>2, <2>3
<1>11. CASE CommitConfirm(c)
  <2>1. TypeOK /\ "passed" # "candidate"
    BY DEF IInv
  <2> QED
    BY <1>1, <1>11, <2>1, RowFields, UpdateGrows, AnsweredKeepsIInv DEF CommitConfirm
<1> QED
  BY <1>4, <1>5, <1>6, <1>7, <1>8, <1>9, <1>10, <1>11 DEF RpcNext

\* Every step of every actor keeps the invariant.
LEMMA NextIInv == IInv /\ [Next]_vars => IInv'
<1> SUFFICES ASSUME IInv, [Next]_vars PROVE IInv'
  OBVIOUS
<1>1. CASE DeadlinePasses
  <2>1. UNCHANGED <<contract, snapshots, verdicts, verifier, used, requested, daemon, rpc>>
        /\ overdue' \in BOOLEAN
    BY <1>1 DEF DeadlinePasses
  <2> QED
    BY <2>1 DEF IInv, TypeOK, EvidenceNamesWhatWasChecked, VerifierBudget, SnapshotOfRow,
                VerifierBound, DispatchBound, PatchBound, CandidateBound, SomePassed, Verified
<1>2. CASE RequestVerification
  <2>1. UNCHANGED <<contract, snapshots, verdicts, verifier, used, overdue, daemon, rpc>>
        /\ requested' \in BOOLEAN
    BY <1>2 DEF RequestVerification
  <2> QED
    BY <2>1 DEF IInv, TypeOK, EvidenceNamesWhatWasChecked, VerifierBudget, SnapshotOfRow,
                VerifierBound, DispatchBound, PatchBound, CandidateBound, SomePassed, Verified
<1>3. CASE UNCHANGED vars
  BY <1>3 DEF vars, IInv, TypeOK, EvidenceNamesWhatWasChecked, VerifierBudget, SnapshotOfRow,
              VerifierBound, DispatchBound, PatchBound, CandidateBound, SomePassed, Verified
<1> QED
  BY <1>1, <1>2, <1>3, JudgeKeepsIInv, TickKeepsIInv, AttemptKeepsIInv, RpcKeepsIInv DEF Next

\* What judge, dispatcher, patch and confirmation carry from their read stays
\* backed by the table of revisions until they write.
THEOREM Invariance == Spec => []IInv
<1> QED
  BY InitIInv, NextIInv, PTL DEF Spec

-----------------------------------------------------------------------------
(* What follows *)

\* The row, its snapshots, the verdicts and everything the daemon and the
\* handlers carry between two transactions keep their types.
THEOREM TypeCorrect == Spec => []TypeOK
<1>1. IInv => TypeOK
  BY DEF IInv
<1> QED
  BY <1>1, Invariance, PTL

\* attempt_evidence_binding names the content the verifier was given, whatever
\* happened to the contract while it ran.
THEOREM EvidenceHolds == Spec => []EvidenceNamesWhatWasChecked
<1>1. IInv => EvidenceNamesWhatWasChecked
  BY DEF IInv
<1> QED
  BY <1>1, Invariance, PTL

\* _dispatch_verifier never overruns budget.verification_attempts_reserved.
THEOREM BudgetHolds == Spec => []VerifierBudget
<1>1. IInv => VerifierBudget
  BY DEF IInv
<1> QED
  BY <1>1, Invariance, PTL

\* A legal transition out of a terminal state stays in it.
LEMMA TerminalIsAbsorbing ==
    ASSUME NEW from \in Terminal, NEW to, Legal(from, to)
    PROVE  to = from
  BY DEF Legal, LegalTransitions, States, Terminal

\* update_contract_state cannot leave a terminal state.
LEMMA UpdateIsFinal ==
    ASSUME NEW to, NEW acceptance, NEW missed, TypeOK, Update(to, acceptance, missed),
           contract.state \in Terminal
    PROVE  contract'.state = contract.state /\ contract'.content = contract.content
<1>1. to = contract.state
  BY TerminalIsAbsorbing DEF Update
<1> QED
  BY <1>1 DEF Update, TypeOK

\* No writer of the row moves a terminal contract: the transition table stops
\* those that go through it, the revision CAS the patch that does not.
LEMMA NextIsFinal ==
    ASSUME IInv, Next, contract.state \in Terminal
    PROVE  contract'.state = contract.state /\ contract'.content = contract.content
<1> DEFINE Final == contract'.state = contract.state /\ contract'.content = contract.content
<1>1. TypeOK
  BY DEF IInv
<1>2. ASSUME NEW at, NEW to, NEW acceptance, NEW missed, NEW refused,
             DaemonWrites(at, to, acceptance, missed, refused)
      PROVE  Final
  BY <1>1, <1>2, UpdateIsFinal DEF DaemonWrites, Refused
<1>3. ASSUME NEW from, NEW to, DaemonMoves(from, to) PROVE Final
  BY <1>3 DEF DaemonMoves
<1>4. CASE JudgeNext
  BY <1>2, <1>3, <1>4
     DEF JudgeNext, JudgeSnapshot, JudgeNothing, JudgeSuccess, JudgeFailure,
         CommitComplete, CommitReject, CommitHold
<1>5. CASE TickNext
  BY <1>2, <1>3, <1>5
     DEF TickNext, ExpireSnapshot, CommitExpire, HandToUser, CommitBlocked, AutoApprove,
         Restart, DispatchVerifier, CommitExhausted, SpawnVerifier, SpawnFails
<1>6. CASE AttemptNext
  <2>1. ASSUME NEW to, AttemptSetsState(to) PROVE Final
    BY <1>1, <2>1, UpdateIsFinal DEF AttemptSetsState, NamesState
  <2>2. ASSUME NEW success, VerifierWriteBack(success) PROVE Final
    BY <1>1, <2>2, UpdateIsFinal DEF VerifierWriteBack, NamesState
  <2> QED
    BY <1>6, <2>1, <2>2
       DEF AttemptNext, FinishVerifier, FailVerifier, LoseVerifier, Settle
<1>7. CASE DeadlinePasses \/ RequestVerification
  BY <1>7 DEF DeadlinePasses, RequestVerification
<1>8. ASSUME NEW c \in Clients, RpcNext(c) PROVE Final
  <2>1. CASE CommitPatch(c)
    BY <2>1 DEF CommitPatch, Current, IInv, PatchBound
  <2>2. CASE CommitMove(c) \/ CommitVerify(c) \/ CommitConfirm(c)
    BY <1>1, <2>2, UpdateIsFinal DEF CommitMove, CommitVerify, CommitConfirm, Refused
  <2> QED
    BY <1>8, <2>1, <2>2
       DEF RpcNext, Call, CallApprove, CallPause, CallResume, CallCancel, CallArbitrate,
           CallPatch, CallVerify, CallConfirm, CheckEvidence
<1> QED
  BY <1>4, <1>5, <1>6, <1>7, <1>8 DEF Next

\* The stale writes of the daemon and the state-blind patch_contract never move
\* a terminal contract nor change what it was accepted for.
THEOREM TerminalStays == Spec => TerminalIsFinal
<1>1. IInv /\ [Next]_vars =>
        [contract.state \in Terminal =>
            /\ contract'.state = contract.state
            /\ contract'.content = contract.content]_vars
  BY NextIsFinal
<1> QED
  BY <1>1, Invariance, PTL DEF Spec, TerminalIsFinal

\* What user_confirm completes is a content that some verifier passed: the
\* evidence check and the revision CAS together close the window between them.
THEOREM ConfirmationHolds == Spec => ConfirmedContentWasVerified
<1>1. IInv => [\A c \in Clients : CommitConfirm(c) /\ contract' # contract
                    => Verified(contract.content)]_vars
  <2> SUFFICES ASSUME IInv, NEW c \in Clients, CommitConfirm(c), contract' # contract
               PROVE  Verified(contract.content)
    OBVIOUS
  <2>1. rpc[c].op = "confirmed" /\ rpc[c].revision = contract.revision
    BY DEF CommitConfirm, Current
  <2> QED
    BY <2>1 DEF IInv, CandidateBound
<1> QED
  BY <1>1, Invariance, PTL DEF ConfirmedContentWasVerified
=============================================================================
