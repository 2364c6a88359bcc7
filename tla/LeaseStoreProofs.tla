-------------------------- MODULE LeaseStoreProofs --------------------------
(***************************************************************************)
(* LeaseStore for every set of attempts, schedulers and requests: its type *)
(* invariant, that a renewal changes the row of its own grant only, and    *)
(* that the store implements WriteAuthority.                               *)
(***************************************************************************)
EXTENDS LeaseStore, TLAPS

\* The holder of the row is the attempt granted last. Both results rest on
\* it; with it goes that a row exists only after a grant.
RowOfLatestGrant ==
    lease # NoLease => /\ lease.holder \in Attempts
                       /\ term[lease.holder] = terms

IInv == /\ TypeOK
        /\ RowOfLatestGrant
        /\ lease # NoLease => terms > 0

\* The record that a claim writes is a lease and never the absence of one.
LEMMA RowIsLease ==
    ASSUME NEW a \in Attempts, NEW gen \in Nat \ {0}, NEW now \in Nat, NEW t \in Timeouts
    PROVE  /\ Row(a, gen, now, t) \in Leases
           /\ Row(a, gen, now, t) # NoLease
           /\ Row(a, gen, now, t).holder = a
<1>1. t \in Nat /\ a # NoAttempt
  BY TimeoutsAssumption, NoAttemptAssumption
<1>2. Row(a, gen, now, t).holder # NoLease.holder
  BY <1>1 DEF Row, NoLease
<1> QED
  BY <1>1, <1>2 DEF Row, Leases

\* A renewal leaves a row a row, and its holder the holder.
LEMMA RenewedIsLease ==
    ASSUME lease \in Leases, lease # NoLease, NEW now \in Nat, NEW t \in Timeouts
    PROVE  /\ Renewed(lease, now, t) \in Leases
           /\ Renewed(lease, now, t) # NoLease
           /\ Renewed(lease, now, t).holder = lease.holder
<1>1. t \in Nat
  BY TimeoutsAssumption
<1>2. lease \in [holder : Attempts, gen : Nat \ {0}, heartbeat : Nat, timeout : Nat]
  BY DEF Leases
<1>3. /\ Renewed(lease, now, t) \in [holder : Attempts, gen : Nat \ {0}, heartbeat : Nat, timeout : Nat]
      /\ Renewed(lease, now, t).holder = lease.holder /\ Renewed(lease, now, t).gen = lease.gen
  BY <1>1, <1>2 DEF Renewed
<1> QED
  BY <1>2, <1>3 DEF Leases, NoLease

\* Only the missing row has generation 0.
LEMMA LeaseGeneration ==
    ASSUME lease \in Leases
    PROVE  lease.gen \in Nat /\ (lease # NoLease => lease.gen \in Nat \ {0})
  BY DEF Leases, NoLease

\* An attempt that passes the holder test holds an existing row.
LEMMA HolderHasRow ==
    ASSUME NEW a \in Attempts, lease.holder = a
    PROVE  lease # NoLease
  BY NoAttemptAssumption DEF NoLease

\* A successful claim installs a fresh row of the latest grant.
LEMMA InstallKeepsIInv ==
    ASSUME IInv,
           NEW d \in Schedulers, NEW a \in Attempts, NEW t \in Timeouts,
           Install(d, a, t)
    PROVE  IInv' /\ lease' # NoLease
<1> USE DEF IInv, Install
<1>1. scheduler[d].gen + 1 \in Nat \ {0} /\ scheduler[d].now \in Nat
  BY DEF TypeOK, SchedulerStates
<1>2. lease' \in Leases /\ lease' # NoLease /\ lease'.holder = a
  BY <1>1, RowIsLease
<1>3. terms' \in Nat /\ terms' > 0 /\ term' \in [Attempts -> Nat] /\ term'[a] = terms'
  BY DEF TypeOK
<1>4. TypeOK'
  BY <1>2, <1>3 DEF TypeOK, Idle, SchedulerStates
<1>5. RowOfLatestGrant'
  BY <1>2, <1>3 DEF RowOfLatestGrant
<1> QED
  BY <1>2, <1>3, <1>4, <1>5

LEMMA InitIInv == Init => IInv
  BY MaxClockAssumption
     DEF Init, IInv, TypeOK, RowOfLatestGrant, NoLease, Leases, Idle,
         SchedulerStates, NotRenewing

\* Every step of every actor keeps the invariant.
LEMMA NextIInv == IInv /\ [Next]_vars => IInv'
<1> SUFFICES ASSUME IInv, [Next]_vars PROVE IInv'
  OBVIOUS
<1> USE DEF IInv, history
<1>1. CASE Advance
  <2>1. clock' \in 0 .. MaxClock
    BY <1>1, MaxClockAssumption DEF Advance, TypeOK
  <2> QED
    BY <1>1, <2>1 DEF Advance, TypeOK, RowOfLatestGrant
<1>2. ASSUME NEW d \in Schedulers, DecideExecutor(d) \/ DecideVerifier(d)
      PROVE  IInv'
  <2>1. clock \in Nat
    BY MaxClockAssumption DEF TypeOK
  <2>2. scheduler' \in [Schedulers -> SchedulerStates]
    BY <1>2, <2>1 DEF DecideExecutor, DecideVerifier, TypeOK, SchedulerStates
  <2> QED
    BY <1>2, <2>2 DEF DecideExecutor, DecideVerifier, TypeOK, RowOfLatestGrant
<1>3. ASSUME NEW d \in Schedulers, ReadGeneration(d) PROVE IInv'
  <2>1. scheduler' \in [Schedulers -> SchedulerStates]
    <3>1. lease.gen \in Nat /\ scheduler[d].now \in Nat
      BY LeaseGeneration DEF TypeOK, SchedulerStates
    <3> QED
      BY <1>3, <3>1 DEF ReadGeneration, TypeOK, SchedulerStates
  <2> QED
    BY <1>3, <2>1 DEF ReadGeneration, TypeOK, RowOfLatestGrant
<1>4. ASSUME NEW d \in Schedulers, Abandon(d) \/ ClaimRefused(d) PROVE IInv'
  <2>1. scheduler' \in [Schedulers -> SchedulerStates]
    BY <1>4 DEF Abandon, ClaimRefused, TypeOK, SchedulerStates, Idle
  <2> QED
    BY <1>4, <2>1 DEF Abandon, ClaimRefused, TypeOK, RowOfLatestGrant
<1>5. ASSUME NEW d \in Schedulers, NEW a \in Attempts, NEW t \in Timeouts,
             AcquireLease(d, a, t) \/ ReclaimLease(d, a, t)
      PROVE  IInv'
  BY <1>5, InstallKeepsIInv DEF AcquireLease, ReclaimLease
<1>6. ASSUME NEW a \in Attempts, TellToken(a) PROVE IInv'
  BY <1>6, LeaseGeneration DEF TellToken, TypeOK, RowOfLatestGrant
<1>7. ASSUME NEW a \in Attempts, NEW t \in Timeouts, RunnerRenew(a, t) PROVE IInv'
  <2>1. clock \in Nat /\ lease # NoLease
    BY <1>7, MaxClockAssumption, HolderHasRow DEF RunnerRenew, TypeOK
  <2>2. lease' \in Leases /\ lease'.holder = a /\ lease.holder = a
    BY <1>7, <2>1, RenewedIsLease DEF RunnerRenew, TypeOK
  <2> QED
    BY <1>7, <2>2, HolderHasRow DEF RunnerRenew, TypeOK, RowOfLatestGrant
<1>8. ASSUME NEW a \in Attempts, ReleaseLease(a) PROVE IInv'
  <2>1. NoLease \in Leases
    BY DEF NoLease, Leases
  <2> QED
    BY <1>8, <2>1 DEF ReleaseLease, TypeOK, RowOfLatestGrant
<1>9. ASSUME NEW a \in Attempts, SettleKeepingLease(a) PROVE IInv'
  BY <1>9 DEF SettleKeepingLease, TypeOK, RowOfLatestGrant
<1>10. ASSUME NEW a \in Attempts, RenewRead(a) PROVE IInv'
  <2>1. clock \in Nat /\ lease.gen \in Nat
    BY MaxClockAssumption, LeaseGeneration DEF TypeOK
  <2> QED
    BY <1>10, <2>1 DEF RenewRead, TypeOK, RowOfLatestGrant
<1>11. ASSUME NEW a \in Attempts, NEW t \in Timeouts, RenewLease(a, t) PROVE IInv'
  <2>1. renewing' \in [Attempts -> [gen : Nat, now : Nat]]
    BY <1>11 DEF RenewLease, TypeOK, NotRenewing
  <2>2. CASE lease' = lease
    BY <1>11, <2>1, <2>2 DEF RenewLease, TypeOK, RowOfLatestGrant
  <2>3. CASE lease' # lease
    <3>1. /\ lease.holder = a
          /\ lease' = Renewed(lease, renewing[a].now, t)
      BY <1>11, <2>3 DEF RenewLease, Holds
    <3>2. lease # NoLease /\ renewing[a].now \in Nat
      BY <3>1, HolderHasRow DEF TypeOK
    <3>3. lease' \in Leases /\ lease'.holder = a
      BY <3>1, <3>2, RenewedIsLease DEF TypeOK
    <3> QED
      BY <1>11, <2>1, <3>1, <3>3, HolderHasRow
         DEF RenewLease, TypeOK, RowOfLatestGrant
  <2> QED
    BY <2>2, <2>3
<1>12. ASSUME NEW a \in Attempts, NEW r \in Requests, SendWriteBack(a, r) PROVE IInv'
  BY <1>12 DEF SendWriteBack, TypeOK, RowOfLatestGrant
<1>13. ASSUME NEW m \in sent, WriteBack(m) PROVE IInv'
  <2>1. m.attempt \in Attempts /\ m.request \in Requests
    BY DEF TypeOK
  <2> QED
    BY <1>13, <2>1 DEF WriteBack, TypeOK, RowOfLatestGrant
<1>14. CASE UNCHANGED vars
  BY <1>14 DEF vars, TypeOK, RowOfLatestGrant
<1> QED
  BY <1>1, <1>2, <1>3, <1>4, <1>5, <1>6, <1>7, <1>8, <1>9, <1>10, <1>11,
     <1>12, <1>13, <1>14 DEF Next, ScheduleNext, RunnerNext, AttemptNext

\* The inductive invariant holds in every reachable state.
THEOREM Invariance == Spec => []IInv
  BY InitIInv, NextIInv, PTL DEF Spec

\* Every variable of the lease store keeps its type.
THEOREM TypeCorrect == Spec => []TypeOK
  BY Invariance, PTL DEF IInv

-----------------------------------------------------------------------------

LEMMA InitRefines == Init => Authority!Init
  BY DEF Init, Authority!Init

\* Claims are grants, releases are revocations, accepted write-backs are
\* writes of the term in force, and everything else is invisible.
LEMMA NextRefines == IInv /\ [Next]_vars => [Authority!Next]_(Authority!vars)
<1> SUFFICES ASSUME IInv, [Next]_vars PROVE [Authority!Next]_(Authority!vars)
  OBVIOUS
<1> DEFINE Invisible == UNCHANGED <<terms, writer>> /\ (lease # NoLease <=> lease' # NoLease)
<1>1. Invisible => [Authority!Next]_(Authority!vars)
  BY DEF Authority!vars
<1>2. ASSUME NEW d \in Schedulers, NEW a \in Attempts, NEW t \in Timeouts,
             AcquireLease(d, a, t) \/ ReclaimLease(d, a, t)
      PROVE  Authority!Grant
  <2>1. Install(d, a, t)
    BY <1>2 DEF AcquireLease, ReclaimLease
  <2> QED
    BY <2>1, InstallKeepsIInv DEF Install, Authority!Grant
<1>3. ASSUME NEW a \in Attempts, ReleaseLease(a) PROVE Authority!Revoke
  BY <1>3 DEF ReleaseLease, IInv, TypeOK, Authority!Revoke, history
<1>4. ASSUME NEW m \in sent, WriteBack(m) PROVE Authority!Write
  <2>1. m.attempt \in Attempts /\ lease.holder = m.attempt
    BY <1>4 DEF WriteBack, Holds, IInv, TypeOK
  <2>2. lease # NoLease
    BY <2>1, HolderHasRow
  <2>3. term[m.attempt] = terms /\ terms # 0
    BY <2>1, <2>2 DEF IInv, TypeOK, RowOfLatestGrant
  <2> QED
    BY <1>4, <2>2, <2>3 DEF WriteBack, Authority!Write
<1>5. ASSUME NEW a \in Attempts, NEW t \in Timeouts,
             RunnerRenew(a, t) \/ RenewLease(a, t)
      PROVE  Invisible
  <2>1. clock \in Nat /\ renewing[a].now \in Nat
    BY MaxClockAssumption DEF IInv, TypeOK
  <2>2. lease.holder = a => \A now \in Nat : Renewed(lease, now, t) # NoLease
    BY RenewedIsLease, HolderHasRow DEF IInv, TypeOK
  <2> QED
    BY <1>5, <2>1, <2>2, HolderHasRow DEF RunnerRenew, RenewLease, Holds, history
<1>6. ASSUME NEW a \in Attempts,
             \/ TellToken(a) \/ SettleKeepingLease(a) \/ RenewRead(a)
             \/ \E r \in Requests : SendWriteBack(a, r)
      PROVE  Invisible
  BY <1>6 DEF TellToken, SettleKeepingLease, RenewRead, SendWriteBack, history
<1>7. ASSUME NEW d \in Schedulers,
             \/ DecideExecutor(d) \/ DecideVerifier(d) \/ ReadGeneration(d)
             \/ Abandon(d) \/ ClaimRefused(d)
      PROVE  Invisible
  BY <1>7 DEF DecideExecutor, DecideVerifier, ReadGeneration, Abandon,
              ClaimRefused, history
<1>8. CASE Advance \/ UNCHANGED vars
  BY <1>1, <1>8 DEF Advance, vars, history
<1> QED
  BY <1>1, <1>2, <1>3, <1>4, <1>5, <1>6, <1>7, <1>8
     DEF Next, ScheduleNext, RunnerNext, AttemptNext, Authority!Next

\* The lease store implements write authority: whatever the interleaving of
\* claims, renewals, releases and redelivered write-backs, each accepted
\* write-back comes from the latest grant while its row exists.
THEOREM ImplementsWriteAuthority == Spec => WriteAuthoritySpec
<1>1. Init => Authority!Init
  BY InitRefines
<1>2. IInv /\ [Next]_vars => [Authority!Next]_(Authority!vars)
  BY NextRefines
<1> QED
  BY <1>1, <1>2, Invariance, PTL DEF Spec, WriteAuthoritySpec, Authority!Spec
-----------------------------------------------------------------------------

\* Nobody but the RPC thread ends a renewal.
LEMMA OnlyRenewing ==
    ASSUME [Next]_vars, NEW a \in Attempts,
           TypeOK, renewing'[a] # renewing[a], renewing'[a] = NotRenewing
    PROVE  \E t \in Timeouts : RenewLease(a, t)
<1>1. renewing' # renewing
  OBVIOUS
<1>2. ASSUME NEW d \in Schedulers, ScheduleNext(d) PROVE FALSE
  BY <1>1, <1>2 DEF ScheduleNext, DecideExecutor, DecideVerifier, ReadGeneration, Abandon,
                    ClaimRefused, AcquireLease, ReclaimLease, Install
<1>3. ASSUME NEW b \in Attempts, RunnerNext(b) PROVE FALSE
  BY <1>1, <1>3 DEF RunnerNext, TellToken, ReleaseLease, SettleKeepingLease, RunnerRenew
<1>4. ASSUME NEW b \in Attempts, AttemptNext(b)
      PROVE  \E t \in Timeouts : RenewLease(a, t)
  <2>1. CASE RenewRead(b)
    <3>1. b = a
      BY <2>1 DEF RenewRead, TypeOK
    <3>2. lease # NoLease /\ lease.gen # 0
      BY <2>1, HolderHasRow, LeaseGeneration DEF RenewRead, TypeOK
    <3>3. renewing'[a].gen = lease.gen
      BY <2>1, <3>1 DEF RenewRead, TypeOK
    <3> QED
      BY <3>2, <3>3 DEF NotRenewing
  <2>2. ASSUME NEW t \in Timeouts, RenewLease(b, t)
        PROVE  \E u \in Timeouts : RenewLease(a, u)
    <3>1. b = a
      BY <2>2 DEF RenewLease, TypeOK
    <3> QED
      BY <2>2, <3>1
  <2>3. ~ \E r \in Requests : SendWriteBack(b, r)
    BY <1>1 DEF SendWriteBack
  <2> QED
    BY <1>4, <2>1, <2>2, <2>3 DEF AttemptNext
<1>5. ~ Advance /\ ~ (\E m \in sent : WriteBack(m)) /\ ~ UNCHANGED vars
  BY <1>1 DEF Advance, WriteBack, vars
<1> QED
  BY <1>2, <1>3, <1>4, <1>5 DEF Next

\* A renewal changes the row of the grant it was asked for or no row:
\* renew_lease compares holder and generation again, and a holder that still
\* has the row is the latest one granted.
THEOREM RenewalsAreFenced == Spec => RenewalIsOfItsGrant
<1>1. ASSUME IInv, [Next]_vars, NEW a \in Attempts,
             renewing[a] # NotRenewing, renewing'[a] = NotRenewing, lease' # lease
      PROVE  term[a] = terms
  <2>1. PICK t \in Timeouts : RenewLease(a, t)
    BY <1>1, OnlyRenewing DEF IInv
  <2>2. lease.holder = a
    BY <1>1, <2>1 DEF RenewLease, Holds
  <2> QED
    BY <1>1, <2>2, HolderHasRow DEF IInv, RowOfLatestGrant
<1>2. IInv /\ [Next]_vars =>
        [\A a \in Attempts :
            renewing[a] # NotRenewing /\ renewing'[a] = NotRenewing /\ lease' # lease
                => term[a] = terms]_vars
  BY <1>1
<1> QED
  BY <1>2, Invariance, PTL DEF Spec, RenewalIsOfItsGrant
=============================================================================
