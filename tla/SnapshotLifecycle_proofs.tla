---------------------- MODULE SnapshotLifecycle_proofs ----------------------
(***************************************************************************)
(* The steps of the agent preserve the invariant; the safety of            *)
(* snapshots, for every number of snapshots, volumes, requests, lives and  *)
(* faults.                                                                 *)
(***************************************************************************)
EXTENDS SnapshotSteps_proofs

\* A leaf that names no prover is for SMT, in two tries.
USE SMTT(30), SMTT(60)

-----------------------------------------------------------------------------
\* Steps of the agent, of the garbage collector and of the volume's worker.

\* A step that writes at most the resource of s and changes the agent's state
\* only for s.
OnlyOf(s) ==
    /\ UNCHANGED <<vols, thick, creates, deletes>>
    /\ \/ snaps' = snaps
       \/ \E x \in SnapVersion : Written(s, x) /\ Extends(snaps[s], x)
    /\ \A t \in Snapshots :
          t # s => pos'[t] = pos[t] /\ sync'[t] = sync[t] /\ KeepsLVs(t)

\* Such a step preserves the invariant if it does so for s.
LEMMA StepOfOne ==
    ASSUME SnapInv, NEW s \in Snapshots, OnlyOf(s), AgentTypeOK', SnapOK(s)'
    PROVE  SnapInv'
<1>1. /\ snaps' \in [Snapshots -> Seq(SnapVersion)]
      /\ Grows(snaps[s], snaps'[s])
      /\ \A t \in Snapshots : t # s => snaps'[t] = snaps[t]
  <2>1. CASE snaps' = snaps
    BY <2>1 DEF SnapInv, SnapTypeOK, Grows
  <2>2. ASSUME NEW x \in SnapVersion, Written(s, x), Extends(snaps[s], x)
        PROVE  /\ snaps' \in [Snapshots -> Seq(SnapVersion)]
               /\ Grows(snaps[s], snaps'[s])
               /\ \A t \in Snapshots : t # s => snaps'[t] = snaps[t]
    BY <2>2, WrittenFacts DEF Grows
  <2>3. QED
    BY <2>1, <2>2, ZenonT(30) DEF OnlyOf
<1>2. \A t \in Snapshots : t # s => OtherWrites(t)
  BY <1>1, ZenonT(30) DEF OtherWrites
<1>3. \A t \in Snapshots : SnapOK(t)'
  BY <1>2, SnapStable, ZenonT(30) DEF OnlyOf
<1>4. \A t \in Snapshots : Grows(snaps[t], snaps'[t])
  BY <1>1, ZenonT(30) DEF Grows
<1>5. \A d \in DeleteCalls : DeleteOK(d)'
  BY <1>4, DeleteStable, ZenonT(30) DEF OnlyOf
<1>6. ControllerTypeOK'
  BY <1>1, ZenonT(30) DEF SnapInv, SnapTypeOK, ControllerTypeOK, OnlyOf
<1>7. QED
  BY <1>3, <1>5, <1>6, InvFromParts, ZenonT(30)

\* Logical volumes of one snapshot made or removed leave another one's alone.
LEMMA OtherLVs ==
    ASSUME NEW s \in Snapshots, NEW t \in Snapshots, t # s, WorksOnLV(s),
           faults \subseteq faults'
    PROVE  KeepsLVs(t)
<1>1. HasLV(t)' => HasLV(t)
  BY DEF HasLV, WorksOnLV
<1>2. \A w \in Volumes : LVOf(t, w) => LVOf(t, w)'
  BY DEF LVOf, WorksOnLV
<1>3. \A snap \in SnapVersion : LVMade(t, snap) => LVMade(t, snap)'
  BY DEF LVMade, WorksOnLV
<1>4. QED
  BY <1>1, <1>2, <1>3 DEF KeepsLVs

\* The steps of the informer and of the workqueue preserve the invariant.
LEMMA HandleStep ==
    ASSUME SnapInv, NEW s \in Snapshots, Handle(s)
    PROVE  SnapInv'
<1>1. /\ snaps' = snaps /\ UNCHANGED <<vols, thick, creates, deletes>>
      /\ origins' = origins /\ snapLVs' = snapLVs
  <2>1. origins' = origins /\ snapLVs' = snapLVs
    BY ZenonT(30)
       DEF Handle, Deliver, Relist, Resync, AddAfterDelay, StartSync, Enqueue
  <2>2. QED
    BY <2>1 DEF Handle, controllerVars
<1>2. AgentTypeOK /\ snaps[s] \in Seq(SnapVersion)
  BY ZenonT(30) DEF SnapInv, SnapTypeOK, AgentTypeOK
<1>3. faults \subseteq faults' /\ faults' \in SUBSET FaultKinds
  <2>1. faults' = faults \/ Fault("relist")
    BY ZenonT(30)
       DEF Handle, Deliver, Relist, Resync, AddAfterDelay, StartSync, Enqueue
  <2>2. QED
    BY <1>2, <2>1 DEF Fault, AgentTypeOK
<1>4. \A t \in Snapshots : KeepsLVs(t)
  BY <1>1, <1>3, LVsUnchanged
<1>5. queue' \in SUBSET Snapshots /\ delayed' \in SUBSET Snapshots
  BY <1>2, ZenonT(30)
     DEF Handle, Deliver, Relist, Resync, AddAfterDelay, StartSync, Enqueue,
         AgentTypeOK
<1>6. ASSUME NEW p \in 1..Len(snaps[s]), pos[s] < p,
             pos' = [pos EXCEPT ![s] = p], sync' = sync
      PROVE  SnapInv'
  <2>1. /\ pos' \in [Snapshots -> Nat] /\ pos'[s] = p
        /\ \A t \in Snapshots : t # s => pos'[t] = pos[t]
    BY <1>2, <1>6 DEF AgentTypeOK
  <2>2. AgentTypeOK'
    BY <1>1, <1>2, <1>3, <1>5, <1>6, <2>1, ZenonT(30) DEF AgentTypeOK
  <2>3. CacheMove(s, p)
    BY <1>1, <1>4, <1>6, <2>1, ZenonT(30) DEF CacheMove
  <2>4. SnapOK(s)'
    BY <2>3, CacheMoves, ZenonT(30)
  <2>5. OnlyOf(s)
    BY <1>1, <1>4, <1>6, <2>1, ZenonT(30) DEF OnlyOf
  <2>6. QED
    BY <2>2, <2>4, <2>5, StepOfOne, ZenonT(30)
<1>7. ASSUME pos' = pos, sync' \in [Snapshots -> SnapSync], WorkerOK(s)',
             Busy(s)' => \/ Busy(s) /\ sync'[s].rv = sync[s].rv
                         \/ pos[s] >= 1 /\ sync'[s].rv = pos[s],
             \A t \in Snapshots : t # s => sync'[t] = sync[t]
      PROVE  SnapInv'
  <2>1. AgentTypeOK'
    BY <1>1, <1>2, <1>3, <1>5, <1>7, ZenonT(30) DEF AgentTypeOK
  <2>2. "lvs" \in faults => "lvs" \in faults'
    BY <1>3
  <2>3. WorkerMove(s)
    BY <1>1, <1>7, <2>2, ZenonT(30) DEF WorkerMove, WorksOnLV
  <2>4. SnapOK(s)'
    BY <1>7, <2>3, WorkerMoves, ZenonT(30)
  <2>5. OnlyOf(s)
    BY <1>1, <1>4, <1>7, ZenonT(30) DEF OnlyOf
  <2>6. QED
    BY <2>1, <2>4, <2>5, StepOfOne, ZenonT(30)
<1>8. ASSUME pos' = pos, sync' = sync
      PROVE  SnapInv'
  <2>1. Grows(snaps[s], snaps'[s]) /\ pos'[s] \in Nat /\ pos[s] <= pos'[s]
    BY <1>1, <1>2, <1>8 DEF Grows, AgentTypeOK
  <2>2. WorkerOK(s)'
    BY <1>4, <1>8, <2>1, WorkerStable
  <2>3. Busy(s)' => Busy(s)
    BY <1>8 DEF Busy
  <2>4. QED
    BY <1>2, <1>7, <1>8, <2>2, <2>3 DEF AgentTypeOK
<1>9. CASE Deliver(s)
  <2>1. /\ pos[s] + 1 \in 1..Len(snaps[s]) /\ pos[s] < pos[s] + 1
        /\ pos' = [pos EXCEPT ![s] = pos[s] + 1] /\ sync' = sync
    <3>1. pos[s] \in Nat /\ pos[s] < Len(snaps[s])
      BY <1>2, <1>9 DEF Deliver, AgentTypeOK
    <3>2. Len(snaps[s]) \in Nat
      BY <1>2
    <3>3. /\ pos' = [pos EXCEPT ![s] = @ + 1] /\ sync' = sync
      BY <1>9, ZenonT(30) DEF Deliver
    <3>4. QED
      BY <3>1, <3>2, <3>3
  <2>2. QED
    BY <1>6, <2>1, ZenonT(30)
<1>10. CASE Relist(s)
  <2>1. /\ Len(snaps[s]) \in 1..Len(snaps[s]) /\ pos[s] < Len(snaps[s])
        /\ pos' = [pos EXCEPT ![s] = Len(snaps[s])] /\ sync' = sync
    BY <1>2, <1>10 DEF Relist, AgentTypeOK
  <2>2. QED
    BY <1>6, <2>1, ZenonT(30)
<1>11. CASE Resync(s) \/ AddAfterDelay(s)
  <2>1. pos' = pos /\ sync' = sync
    BY <1>11 DEF Resync, AddAfterDelay, Enqueue
  <2>2. QED
    BY <1>8, <2>1, ZenonT(30)
<1>12. CASE StartSync(s)
  <2>1. pos' = pos
    BY <1>12 DEF StartSync
  <2>2. CASE sync' = sync
    BY <1>8, <2>1, <2>2
  <2>3. CASE sync' # sync
    <3>1. /\ InCache(s) /\ FirstStep(Cached(s)) # "idle"
          /\ sync' = [sync EXCEPT ![s] =
                         [pc |-> FirstStep(Cached(s)), rv |-> pos[s]]]
      BY <1>12, <2>3 DEF StartSync
    <3>2. FirstStep(Cached(s)) \in {"destroy", "create"}
      BY <3>1 DEF FirstStep
    <3> DEFINE f == FirstStep(Cached(s))
    <3>3. [pc |-> f, rv |-> pos[s]] \in SnapSync
      BY <1>2, <3>2 DEF AgentTypeOK, SnapSync
    <3>4. /\ sync' \in [Snapshots -> SnapSync]
          /\ sync'[s].pc = FirstStep(Cached(s))
          /\ sync'[s].rv = pos[s]
          /\ \A t \in Snapshots : t # s => sync'[t] = sync[t]
      BY <1>2, <3>1, <3>3 DEF AgentTypeOK
    <3>5. /\ pos[s] >= 1 /\ pos[s] \in 1..pos'[s]
          /\ ~ Cached(s).gone
          /\ Copy(s)' = Cached(s)
      BY <1>1, <1>2, <2>1, <3>1, <3>4 DEF InCache, Copy, Cached, AgentTypeOK
    <3>6. IF sync'[s].pc \in {"destroy", "unfinalize"}
          THEN Cached(s).del
          ELSE Cached(s).state = "Pending" /\ ~ Cached(s).del
      BY <3>1, <3>4 DEF FirstStep
    <3>7. WorkerOK(s)'
      <4>1. sync'[s].pc # "ready" /\ sync'[s].pc # "unfinalize"
        BY <3>2, <3>4
      <4>2. QED
        BY <3>4, <3>5, <3>6, <4>1, ZenonT(30) DEF WorkerOK
    <3>8. QED
      BY <1>7, <2>1, <3>4, <3>5, <3>7
  <2>4. QED
    BY <2>2, <2>3
<1>13. QED
  BY <1>9, <1>10, <1>11, <1>12 DEF Handle

\* A worker that is done is idle, and no other worker is touched.
LEMMA FinishFacts ==
    ASSUME SnapInv, NEW s \in Snapshots, Finish(s)
    PROVE  /\ sync' \in [Snapshots -> SnapSync]
           /\ ~ Busy(s)'
           /\ WorkerOK(s)'
           /\ \A t \in Snapshots : t # s => sync'[t] = sync[t]
<1>1. sync \in [Snapshots -> SnapSync] /\ Idle \in SnapSync
  BY DEF SnapInv, SnapTypeOK, Idle, SnapSync
<1>2. /\ sync' \in [Snapshots -> SnapSync]
      /\ sync'[s] = Idle
      /\ \A t \in Snapshots : t # s => sync'[t] = sync[t]
  BY <1>1 DEF Finish
<1>3. ~ Busy(s)'
  BY <1>2 DEF Busy, Idle
<1>4. QED
  BY <1>2, <1>3, ZenonT(30) DEF WorkerOK

\* A worker that goes on keeps its copy, and no other worker is touched.
LEMMA ProceedFacts ==
    ASSUME SnapInv, NEW s \in Snapshots,
           NEW pc \in {"ready", "unfinalize"}, Proceed(s, pc)
    PROVE  /\ sync' \in [Snapshots -> SnapSync]
           /\ sync'[s].pc = pc
           /\ sync'[s].rv = sync[s].rv
           /\ \A t \in Snapshots : t # s => sync'[t] = sync[t]
<1>1. sync \in [Snapshots -> SnapSync] /\ sync[s] \in SnapSync
  BY DEF SnapInv, SnapTypeOK
<1>2. /\ [sync[s] EXCEPT !.pc = pc] \in SnapSync
      /\ [sync[s] EXCEPT !.pc = pc].pc = pc
      /\ [sync[s] EXCEPT !.pc = pc].rv = sync[s].rv
  BY <1>1 DEF SnapSync
<1>3. sync' = [sync EXCEPT ![s] = [sync[s] EXCEPT !.pc = pc]]
  BY DEF Proceed
<1> DEFINE r == [sync[s] EXCEPT !.pc = pc]
<1>4. sync' = [sync EXCEPT ![s] = r] /\ r \in SnapSync
      /\ r.pc = pc /\ r.rv = sync[s].rv
  BY <1>2, <1>3
<1> HIDE DEF r
<1>5. QED
  BY <1>1, <1>4

\* What every step of a worker leaves alone.
WorkFrame ==
    /\ UNCHANGED <<pos, queue, origins>>
    /\ UNCHANGED <<vols, thick, creates, deletes>>
    /\ faults \subseteq faults'
    /\ faults' \in SUBSET FaultKinds

\* A worker that gives up leaves the snapshot as it is.
LEMMA GivesUp ==
    ASSUME SnapInv, NEW s \in Snapshots, WorkFrame, Requeue(s),
           snaps' = snaps, snapLVs' = snapLVs
    PROVE  SnapInv'
<1>1. /\ sync' \in [Snapshots -> SnapSync] /\ ~ Busy(s)' /\ WorkerOK(s)'
      /\ \A t \in Snapshots : t # s => sync'[t] = sync[t]
  BY FinishFacts, ZenonT(30) DEF Requeue
<1>2. delayed' \in SUBSET Snapshots
  BY DEF Requeue, SnapInv, SnapTypeOK
<1>3. AgentTypeOK'
  BY <1>1, <1>2, ZenonT(30) DEF WorkFrame, SnapInv, SnapTypeOK, AgentTypeOK
<1>4. /\ \A t \in Snapshots : pos'[t] = pos[t] /\ KeepsLVs(t)
      /\ UNCHANGED <<vols, thick, creates, deletes>>
      /\ "lvs" \in faults => "lvs" \in faults'
      /\ UNCHANGED <<origins, snapLVs>>
  BY LVsUnchanged DEF WorkFrame
<1>5. WorkerMove(s)
  BY <1>1, <1>4, ZenonT(30) DEF WorkerMove, WorksOnLV
<1>6. SnapOK(s)'
  BY <1>1, <1>5, WorkerMoves, ZenonT(30)
<1>7. OnlyOf(s)
  BY <1>1, <1>4, ZenonT(30) DEF OnlyOf
<1>8. QED
  BY <1>3, <1>6, <1>7, StepOfOne, ZenonT(30)

\* A worker has made or removed the logical volume, and goes on to pc.
WorkedOn(s, pc) ==
    /\ WorkFrame
    /\ WorksOnLV(s)
    /\ Proceed(s, pc)
    /\ UNCHANGED <<snaps, delayed>>
    /\ pc = "ready" => /\ Copy(s).state = "Pending" /\ ~ Copy(s).del
                       /\ LVMade(s, Copy(s))' /\ LVOf(s, Copy(s).vol)'
    /\ pc = "unfinalize" => /\ Copy(s).del
                            /\ ~ HasLV(s)' \/ "lvs" \in faults'

\* Such a step of CreateLV or DestroyLV preserves the invariant.
LEMMA GoesOn ==
    ASSUME SnapInv, NEW s \in Snapshots, Busy(s),
           NEW pc \in {"ready", "unfinalize"}, WorkedOn(s, pc)
    PROVE  SnapInv'
<1>0. /\ WorkFrame /\ WorksOnLV(s)
      /\ snaps' = snaps /\ delayed' = delayed
  BY ZenonT(30) DEF WorkedOn
<1>1. /\ sync' \in [Snapshots -> SnapSync] /\ sync'[s].pc = pc
      /\ sync'[s].rv = sync[s].rv
      /\ \A t \in Snapshots : t # s => sync'[t] = sync[t]
  BY ProceedFacts, ZenonT(30) DEF WorkedOn
<1>2. /\ sync[s].rv \in 1..pos[s] /\ Copy(s) \in SnapVersion
  BY CopyFacts, ZenonT(30)
<1>3. Copy(s).vol \in Volumes /\ Copy(s).thick \in BOOLEAN
  BY <1>2, ZenonT(30) DEF SnapVersion
<1>4. snapLVs' \in SUBSET (Snapshots \X Volumes \X BOOLEAN)
  BY <1>0, <1>3 DEF SnapInv, SnapTypeOK, WorksOnLV
<1>5. AgentTypeOK'
  BY <1>0, <1>1, <1>4, ZenonT(30)
     DEF WorkFrame, SnapInv, SnapTypeOK, AgentTypeOK
<1>6. /\ Copy(s)' = Copy(s) /\ ~ Copy(s).gone
  <2>1. WorkerOK(s)
    BY SnapFacts, ZenonT(30) DEF SnapOK
  <2>2. QED
    BY <1>0, <1>1, <2>1, ZenonT(30) DEF WorkerOK, Copy
<1>7. WorkerOK(s)'
  BY <1>1, <1>2, <1>6, ZenonT(30) DEF WorkerOK, WorkedOn, WorkFrame
<1>8. /\ pos' = pos /\ UNCHANGED <<vols, thick, creates, deletes>>
      /\ "lvs" \in faults => "lvs" \in faults'
      /\ faults \subseteq faults'
  BY <1>0 DEF WorkFrame
<1>9. SnapOK(s)'
  <2>1. WorkerMove(s)
    BY <1>0, <1>1, <1>8, ZenonT(30) DEF WorkerMove
  <2>2. QED
    BY <1>7, <2>1, WorkerMoves, ZenonT(30)
<1>10. OnlyOf(s)
  <2>1. \A t \in Snapshots : t # s => KeepsLVs(t)
    BY <1>0, <1>8, OtherLVs, ZenonT(30)
  <2>2. QED
    BY <1>0, <1>1, <1>8, <2>1, ZenonT(30) DEF OnlyOf
<1>11. QED
  BY <1>5, <1>9, <1>10, StepOfOne, ZenonT(30)

\* The version x is what a worker writes that is about to.
IsWork(s, x) ==
    \/ IsReady(snaps[s], x) /\ sync[s].pc = "ready"
    \/ IsRemoved(snaps[s], x) /\ sync[s].pc = "unfinalize"

\* A worker has written its copy, which was the last version, as x.
WroteCopy(s, x) ==
    /\ WorkFrame
    /\ Finish(s)
    /\ delayed' \in SUBSET Snapshots
    /\ snapLVs' = snapLVs
    /\ sync[s].rv = Len(snaps[s])
    /\ Written(s, x)
    /\ IsWork(s, x)

\* Such a step of UpdateSnapInfo or RemoveSnapFinalizer preserves the
\* invariant.
LEMMA Wrote ==
    ASSUME SnapInv, NEW s \in Snapshots, Busy(s), NEW x \in SnapVersion,
           WroteCopy(s, x)
    PROVE  SnapInv'
<1>0. /\ WorkFrame /\ IsWork(s, x) /\ Written(s, x)
      /\ delayed' \in SUBSET Snapshots /\ snapLVs' = snapLVs
  BY ZenonT(30) DEF WroteCopy
<1>1. /\ sync' \in [Snapshots -> SnapSync] /\ ~ Busy(s)'
      /\ \A t \in Snapshots : t # s => sync'[t] = sync[t]
  BY FinishFacts, ZenonT(30) DEF WroteCopy
<1>2. /\ pos' = pos /\ UNCHANGED <<vols, thick, creates, deletes>>
      /\ \A t \in Snapshots : KeepsLVs(t)
  BY <1>0, LVsUnchanged DEF WorkFrame
<1>3. Writes(s, x)
  BY <1>0, <1>1, <1>2, WrittenFacts, ZenonT(30) DEF Writes, WroteCopy
<1>4. SnapOK(s)'
  BY <1>0, <1>2, <1>3, ReadyWritten, RemovalWritten, ZenonT(30) DEF IsWork
<1>5. AgentTypeOK'
  BY <1>0, <1>1, ZenonT(30) DEF WorkFrame, SnapInv, SnapTypeOK, AgentTypeOK
<1>6. OnlyOf(s)
  BY <1>0, <1>1, <1>2, ZenonT(30) DEF OnlyOf, Extends, IsWork
<1>7. QED
  BY <1>4, <1>5, <1>6, StepOfOne, ZenonT(30)

\* A worker's update, by what it writes when its copy is the last version.
LEMMA UpdateStep ==
    ASSUME SnapInv, NEW s \in Snapshots, Busy(s), NEW snap, Update(s, snap),
           UNCHANGED <<pos, queue, origins, snapLVs>>,
           UNCHANGED <<vols, thick, creates, deletes>>,
           sync[s].rv = Len(snaps[s]) =>
              \E x \in SnapVersion :
                 /\ SnapUpdated(snaps[s], snap) = Append(snaps[s], x)
                 /\ IsWork(s, x)
    PROVE  SnapInv'
<1>1. faults \in SUBSET FaultKinds /\ delayed \in SUBSET Snapshots
  BY DEF SnapInv, SnapTypeOK
<1>2. WorkFrame
  BY <1>1 DEF Update, Fault, WorkFrame
<1>3. CASE snaps' = snaps /\ Requeue(s)
  BY <1>2, <1>3, GivesUp, ZenonT(30)
<1>4. CASE /\ sync[s].rv = Len(snaps[s])
           /\ snaps' = [snaps EXCEPT ![s] = SnapUpdated(@, snap)]
           /\ Finish(s)
           /\ delayed' \in SUBSET Snapshots
  <2>1. PICK x \in SnapVersion :
           /\ SnapUpdated(snaps[s], snap) = Append(snaps[s], x)
           /\ IsWork(s, x)
    BY <1>4, ZenonT(30)
  <2>2. Written(s, x)
    BY <1>4, <2>1 DEF Written
  <2>3. QED
    BY <1>2, <1>4, <2>1, <2>2, Wrote, ZenonT(30) DEF WroteCopy
<1>5. Requeue(s) => Finish(s) /\ delayed' \in SUBSET Snapshots
  BY <1>1 DEF Requeue
<1>6. QED
  BY <1>1, <1>3, <1>4, <1>5, ZenonT(30) DEF Update

\* What UpdateSnapInfo writes, with a copy that is the last version.
LEMMA SnapInfoWrite ==
    ASSUME SnapInv, NEW s \in Snapshots, sync[s].pc = "ready",
           sync[s].rv = Len(snaps[s])
    PROVE  \E x \in SnapVersion :
              /\ SnapUpdated(snaps[s], WithSnapInfo(Copy(s))) = Append(snaps[s], x)
              /\ IsReady(snaps[s], x)
<1>1. /\ Busy(s) /\ WorkerOK(s) /\ HistoryOK(snaps[s])
      /\ snaps[s] \in Seq(SnapVersion)
  BY SnapFacts DEF SnapOK, Busy
<1>2. SnapExists(snaps[s]) /\ Copy(s) = Latest(snaps[s])
  BY <1>1, CurrentCopy
<1>3. Copy(s).state = "Pending" /\ ~ Copy(s).del
  BY <1>1 DEF WorkerOK
<1>4. QED
  BY <1>1, <1>2, <1>3, SnapInfoExtends, ZenonT(30)

\* What RemoveSnapFinalizer writes, with a copy that is the last version.
LEMMA UnfinalizeWrite ==
    ASSUME SnapInv, NEW s \in Snapshots, sync[s].pc = "unfinalize",
           sync[s].rv = Len(snaps[s])
    PROVE  \E x \in SnapVersion :
              /\ SnapUpdated(snaps[s], WithoutSnapFinalizer(Copy(s)))
                    = Append(snaps[s], x)
              /\ IsRemoved(snaps[s], x)
<1>1. /\ Busy(s) /\ WorkerOK(s) /\ HistoryOK(snaps[s])
      /\ snaps[s] \in Seq(SnapVersion)
  BY SnapFacts DEF SnapOK, Busy
<1>2. SnapExists(snaps[s]) /\ Copy(s) = Latest(snaps[s])
  BY <1>1, CurrentCopy
<1>3. Copy(s).del
  BY <1>1 DEF WorkerOK
<1>4. QED
  BY <1>1, <1>2, <1>3, UnfinalizedExtends, ZenonT(30)

\* The steps of the workers preserve the invariant.
LEMMA WorkStep ==
    ASSUME SnapInv, NEW s \in Snapshots, Work(s)
    PROVE  SnapInv'
<1>1. /\ UNCHANGED <<pos, queue, origins>>
      /\ UNCHANGED <<vols, thick, creates, deletes>>
  BY DEF Work, SyncSnap
<1>2. /\ WorkerOK(s) /\ HistoryOK(snaps[s]) /\ snaps[s] \in Seq(SnapVersion)
      /\ faults \in SUBSET FaultKinds
      /\ snapLVs \in SUBSET (Snapshots \X Volumes \X BOOLEAN)
  BY SnapFacts, ZenonT(30) DEF SnapOK, SnapInv, SnapTypeOK
<1>3. CASE CreateLV(s)
  <2>1. Busy(s) /\ snaps' = snaps /\ WorkFrame
    BY <1>1, <1>2, <1>3 DEF CreateLV, Busy, Fault, WorkFrame
  <2>2. CASE Requeue(s) /\ UNCHANGED snapLVs
    BY <2>1, <2>2, GivesUp
  <2>3. CASE /\ ~ HasLV(s)
             /\ snapLVs' = snapLVs \cup {<<s, Copy(s).vol, Copy(s).thick>>}
             /\ Proceed(s, "ready")
             /\ UNCHANGED <<delayed, faults>>
    <3>1. Copy(s).state = "Pending" /\ ~ Copy(s).del
      BY <1>2, <1>3, <2>1, ZenonT(30) DEF WorkerOK, CreateLV
    <3>2. \E y \in {"ready", "unfinalize"} : y = "ready"
      OBVIOUS
    <3>3. sync'[s].rv = sync[s].rv
      BY <2>3, <3>2, ProceedFacts
    <3>4. Copy(s)' = Copy(s)
      BY <2>1, <3>3 DEF Copy
    <3>5. LVMade(s, Copy(s))'
      BY <2>3, <3>4 DEF LVMade
    <3>6. LVOf(s, Copy(s).vol)'
      BY <2>3, <3>4 DEF LVOf, HasLV
    <3>7. QED
      <4>1. WorkedOn(s, "ready")
        BY <2>1, <2>3, <3>1, <3>5, <3>6, ZenonT(30)
           DEF WorkedOn, WorksOnLV, WorkFrame
      <4>2. QED
        BY <2>1, <3>2, <4>1, GoesOn, ZenonT(30)
  <2>4. QED
    BY <1>3, <2>2, <2>3 DEF CreateLV
<1>4. CASE UpdateSnapInfo(s)
  <2>1. /\ Busy(s) /\ sync[s].pc = "ready" /\ Update(s, WithSnapInfo(Copy(s)))
        /\ snapLVs' = snapLVs
    BY <1>4 DEF UpdateSnapInfo, Busy
  <2>2. QED
    BY <1>1, <2>1, SnapInfoWrite, UpdateStep, ZenonT(30) DEF IsWork
<1>5. CASE DestroyLV(s)
  <2>1. Busy(s) /\ snaps' = snaps /\ WorkFrame
    BY <1>1, <1>2, <1>5 DEF DestroyLV, Busy, Fault, WorkFrame
  <2>2. CASE Requeue(s) /\ UNCHANGED snapLVs
    BY <2>1, <2>2, GivesUp
  <2>3. CASE /\ Proceed(s, "unfinalize")
             /\ UNCHANGED delayed
             /\ \/ snapLVs' = {lv \in snapLVs : lv[1] # s}
                \/ UNCHANGED snapLVs /\ "lvs" \in faults'
    <3>1. Copy(s).del
      BY <1>2, <1>5, <2>1 DEF WorkerOK, DestroyLV
    <3>2. \E y \in {"ready", "unfinalize"} : y = "unfinalize"
      OBVIOUS
    <3>3. ~ HasLV(s)' \/ "lvs" \in faults'
      BY <2>3 DEF HasLV
    <3>4. QED
      <4>1. WorkedOn(s, "unfinalize")
        BY <2>1, <2>3, <3>1, <3>3, ZenonT(30)
           DEF WorkedOn, WorksOnLV, WorkFrame
      <4>2. QED
        BY <2>1, <3>2, <4>1, GoesOn, ZenonT(30)
  <2>4. Fault("lvs") => "lvs" \in faults'
    BY DEF Fault
  <2>5. QED
    BY <1>5, <2>2, <2>3, <2>4 DEF DestroyLV
<1>6. CASE RemoveSnapFinalizer(s)
  <2>1. /\ Busy(s) /\ sync[s].pc = "unfinalize"
        /\ Update(s, WithoutSnapFinalizer(Copy(s)))
        /\ snapLVs' = snapLVs
    BY <1>6 DEF RemoveSnapFinalizer, Busy
  <2>2. QED
    BY <1>1, <2>1, UnfinalizeWrite, UpdateStep, ZenonT(30) DEF IsWork
<1>7. QED
  BY <1>3, <1>4, <1>5, <1>6 DEF Work, SyncSnap

\* The garbage collector removes only snapshots that have no finalizer, so
\* none that are Ready.
LEMMA CollectStep ==
    ASSUME SnapInv, NEW s \in Snapshots, Collect(s)
    PROVE  SnapInv'
<1>1. /\ SnapExists(snaps[s]) /\ Latest(snaps[s]).del /\ ~ Latest(snaps[s]).fin
      /\ snaps' = [snaps EXCEPT ![s] =
                      Append(snaps[s], [Latest(snaps[s]) EXCEPT !.gone = TRUE])]
      /\ UNCHANGED <<vols, thick, creates, deletes>>
      /\ UNCHANGED <<pos, sync, origins, snapLVs, faults, queue, delayed>>
  BY DEF Collect, GarbageCollect, agentVars
<1>2. HistoryOK(snaps[s]) /\ snaps[s] \in Seq(SnapVersion)
  BY SnapFacts, ZenonT(30) DEF SnapOK
<1>3. PICK x \in SnapVersion :
         /\ Append(snaps[s], [Latest(snaps[s]) EXCEPT !.gone = TRUE])
               = Append(snaps[s], x)
         /\ IsRemoved(snaps[s], x)
         /\ x.state # "Ready"
  BY <1>1, <1>2, CollectedExtends, ZenonT(30)
<1>4. Written(s, x)
  BY <1>1, <1>3, ZenonT(30) DEF Written
<1>5. \A t \in Snapshots : KeepsLVs(t)
  BY <1>1, LVsUnchanged
<1>6. OtherWrites(s)
  BY <1>3, <1>4, WrittenFacts, ZenonT(30) DEF OtherWrites
<1>7. SnapOK(s)'
  BY <1>1, <1>5, <1>6, SnapStable
<1>8. AgentTypeOK'
  BY <1>1 DEF SnapInv, SnapTypeOK, AgentTypeOK
<1>9. OnlyOf(s)
  BY <1>1, <1>3, <1>4, <1>5, ZenonT(30) DEF OnlyOf, Extends
<1>10. QED
  BY <1>7, <1>8, <1>9, StepOfOne, ZenonT(30)

\* A step that leaves the requests and the resources of snapshots alone
\* preserves the invariant if it does so for every snapshot.
LEMMA StepOfAll ==
    ASSUME SnapInv, AgentTypeOK', \A s \in Snapshots : SnapOK(s)',
           snaps' = snaps, vols' \in [Volumes -> Phases],
           UNCHANGED <<thick, creates, deletes>>
    PROVE  SnapInv'
<1>1. \A d \in DeleteCalls : DeleteOK(d)'
  BY DEF SnapInv, DeleteOK
<1>2. ControllerTypeOK'
  BY DEF SnapInv, SnapTypeOK, ControllerTypeOK
<1>3. QED
  BY <1>1, <1>2, InvFromParts

\* An agent that comes up again has listed the last versions and knows of no
\* work in progress.
LEMMA CrashStep ==
    ASSUME SnapInv, Crash, UNCHANGED controllerVars
    PROVE  SnapInv'
<1>1. /\ snaps' = snaps /\ UNCHANGED <<vols, thick, creates, deletes>>
      /\ UNCHANGED <<origins, snapLVs>>
      /\ pos' = [s \in Snapshots |-> Len(snaps[s])]
      /\ sync' = [s \in Snapshots |-> Idle]
      /\ delayed' = {}
  BY DEF Crash, controllerVars
<1>2. snaps \in [Snapshots -> Seq(SnapVersion)] /\ vols \in [Volumes -> Phases]
      /\ faults \in SUBSET FaultKinds
  BY DEF SnapInv, SnapTypeOK
<1>3. faults \subseteq faults' /\ faults' \in SUBSET FaultKinds
  BY <1>2 DEF Crash, Fault
<1>4. queue' \in SUBSET Snapshots
  BY DEF Crash
<1>5. AgentTypeOK'
  <2>1. pos' \in [Snapshots -> Nat] /\ sync' \in [Snapshots -> SnapSync]
    BY <1>1, <1>2 DEF Idle, SnapSync
  <2>2. QED
    BY <1>1, <1>3, <1>4, <2>1, ZenonT(30) DEF SnapInv, SnapTypeOK, AgentTypeOK
<1>6. ASSUME NEW s \in Snapshots PROVE SnapOK(s)'
  <2>1. /\ Len(snaps[s]) \in Nat /\ pos'[s] = Len(snaps[s]) /\ ~ Busy(s)'
        /\ SnapOK(s) /\ snaps[s] \in Seq(SnapVersion)
    BY <1>1, SnapFacts DEF Busy, Idle
  <2>2. /\ HistoryOK(snaps[s])' /\ WorkerOK(s)'
        /\ Cached(s)' = Latest(snaps[s]) /\ Latest(snaps[s])' = Latest(snaps[s])
    BY <1>1, <2>1, ZenonT(30)
       DEF SnapOK, HistoryOK, WellFormed, WorkerOK, Cached, Latest
  <2>3. ReadyOK(s)'
    <3>1. ReadyOK(s)
      BY <2>1 DEF SnapOK
    <3>2. /\ LVOf(s, Latest(snaps[s]).vol)' <=> LVOf(s, Latest(snaps[s]).vol)
          /\ LVMade(s, Latest(snaps[s]))' <=> LVMade(s, Latest(snaps[s]))
      BY <1>1, <2>2 DEF LVOf, LVMade
    <3>3. QED
      <4>1. /\ Len(snaps[s]) > 0 => pos'[s] >= 1
            /\ Len(snaps[s])' = Len(snaps[s])
        BY <1>1, <2>1
      <4>2. QED
        BY <2>1, <2>2, <3>1, <3>2, <4>1, ZenonT(30) DEF ReadyOK
  <2>4. RemovedOK(s)'
    <3>1. RemovedOK(s)
      BY <2>1 DEF SnapOK
    <3>2. Len(snaps[s]) > 0 /\ Latest(snaps[s]).gone => Latest(snaps[s]).del
      BY <2>1, LatestOK DEF SnapOK, WellFormed
    <3>3. ~ HasLV(s) \/ "lvs" \in faults => ~ HasLV(s)' \/ "lvs" \in faults'
      BY <1>1, <1>3 DEF HasLV
    <3>4. QED
      BY <1>1, <2>1, <2>2, <3>1, <3>2, <3>3, ZenonT(30) DEF RemovedOK
  <2>5. QED
    BY <1>1, <2>1, <2>2, <2>3, <2>4 DEF SnapOK
<1>7. QED
  BY <1>1, <1>2, <1>5, <1>6, StepOfAll

\* The removal of a volume's logical volume takes thick snapshots with it and
\* leaves the thin ones.
LEMMA DestroyVolumeStep ==
    ASSUME SnapInv, NEW v \in Volumes, DestroyVolume(v),
           UNCHANGED controllerVars
    PROVE  SnapInv'
<1>1. /\ snaps' = snaps /\ UNCHANGED <<vols, thick, creates, deletes>>
      /\ UNCHANGED <<pos, queue, delayed, sync, faults>>
      /\ origins' = origins \ {v}
      /\ snapLVs' = {lv \in snapLVs : ~ (lv[2] = v /\ lv[3])}
  BY DEF DestroyVolume, controllerVars
<1>2. AgentTypeOK' /\ vols' \in [Volumes -> Phases]
  BY <1>1 DEF SnapInv, SnapTypeOK, AgentTypeOK
<1>3. ASSUME NEW s \in Snapshots PROVE KeepsLVs(s)
  <2>1. HasLV(s)' => HasLV(s)
    BY <1>1 DEF HasLV
  <2>2. \A w \in Volumes : LVOf(s, w) => LVOf(s, w)'
    BY <1>1 DEF LVOf
  <2>3. ASSUME NEW snap \in SnapVersion, LVMade(s, snap)
        PROVE  LVMade(s, snap)'
    <3>1. snap.vol \in Volumes /\ snap.thick \in BOOLEAN
      BY DEF SnapVersion
    <3>2. CASE snap.thick /\ snap.vol \notin origins
      BY <1>1, <3>2 DEF LVMade
    <3>3. CASE snap.thick /\ snap.vol = v
      BY <1>1, <3>3 DEF LVMade
    <3>4. CASE /\ <<s, snap.vol, snap.thick>> \in snapLVs
               /\ ~ (snap.vol = v /\ snap.thick)
      BY <1>1, <3>4 DEF LVMade
    <3>5. QED
      BY <2>3, <3>2, <3>3, <3>4 DEF LVMade
  <2>4. QED
    BY <1>1, <2>1, <2>2, <2>3 DEF KeepsLVs
<1>4. \A s \in Snapshots : SnapOK(s)'
  <2>1. ASSUME NEW s \in Snapshots PROVE SnapOK(s)'
    <3>1. OtherWrites(s)
      BY <1>1 DEF OtherWrites
    <3>2. QED
      BY <1>1, <1>3, <3>1, SnapStable
  <2>2. QED
    BY <2>1
<1>5. QED
  BY <1>1, <1>2, <1>4, StepOfAll

\* RemoveVolFinalizer of the volume touches no snapshot.
LEMMA RemoveVolumeStep ==
    ASSUME SnapInv, NEW v \in Volumes, RemoveVolume(v), UNCHANGED agentVars
    PROVE  SnapInv'
<1>1. vols' \in [Volumes -> Phases]
  BY DEF RemoveVolume, SnapInv, SnapTypeOK, Phases
<1>2. /\ UNCHANGED <<snaps, thick, creates, deletes>>
      /\ UNCHANGED <<pos, queue, delayed, sync, origins, snapLVs, faults>>
  BY DEF RemoveVolume, agentVars
<1>3. AgentTypeOK'
  BY <1>2 DEF SnapInv, SnapTypeOK, AgentTypeOK
<1>4. ASSUME NEW s \in Snapshots PROVE SnapOK(s)'
  <2>1. KeepsLVs(s) /\ OtherWrites(s)
    BY <1>2, LVsUnchanged DEF OtherWrites
  <2>2. QED
    BY <1>2, <2>1, SnapStable
<1>5. QED
  BY <1>1, <1>2, <1>3, <1>4, StepOfAll

-----------------------------------------------------------------------------
\* The theorems.

\* Nothing has happened: no snapshot, no request, no logical volume of one.
LEMMA InitOK ==
    ASSUME Init
    PROVE  SnapInv
<1>1. /\ snaps = [s \in Snapshots |-> <<>>]
      /\ vols = [v \in Volumes |-> "ready"]
      /\ thick \in BOOLEAN
      /\ creates = [c \in CreateCalls |-> NoRequest]
      /\ deletes = [d \in DeleteCalls |-> NoRequest]
  BY DEF Init, ControllerInit
<1>2. /\ pos = [s \in Snapshots |-> 0]
      /\ queue = {} /\ delayed = {}
      /\ sync = [s \in Snapshots |-> Idle]
      /\ origins = LocalVolumes /\ snapLVs = {} /\ faults = {}
  BY DEF Init, AgentInit
<1>3. SnapTypeOK
  <2>1. /\ snaps \in [Snapshots -> Seq(SnapVersion)]
        /\ vols \in [Volumes -> Phases]
        /\ creates \in [CreateCalls -> CreateCall \cup {NoRequest}]
        /\ deletes \in [DeleteCalls -> DeleteCall \cup {NoRequest}]
    BY <1>1 DEF Phases
  <2>2. /\ pos \in [Snapshots -> Nat]
        /\ sync \in [Snapshots -> SnapSync]
    BY <1>2 DEF Idle, SnapSync
  <2>3. QED
    BY <1>1, <1>2, <2>1, <2>2, LocalAssumption DEF SnapTypeOK
<1>4. ASSUME NEW s \in Snapshots
      PROVE  SnapOK(s)
  <2>1. Len(snaps[s]) = 0 /\ pos[s] = 0 /\ ~ Busy(s)
    BY <1>1, <1>2 DEF Busy, Idle
  <2>2. HistoryOK(snaps[s])
    BY <2>1 DEF HistoryOK
  <2>3. WorkerOK(s)
    BY <2>1 DEF WorkerOK
  <2>4. ReadyOK(s) /\ RemovedOK(s)
    BY <2>1 DEF ReadyOK, RemovedOK
  <2>5. QED
    BY <2>1, <2>2, <2>3, <2>4 DEF SnapOK
<1>5. \A d \in DeleteCalls : DeleteOK(d)
  <2>1. \A d \in DeleteCalls : deletes[d].pc = "none"
    BY <1>1 DEF NoRequest
  <2>2. QED
    BY <2>1, ZenonT(30) DEF DeleteOK
<1>6. QED
  BY <1>3, <1>4, <1>5, ZenonT(30) DEF SnapInv, SnapOK

\* Every step preserves the invariant.
LEMMA StepOK ==
    ASSUME SnapInv, [Next]_vars
    PROVE  SnapInv'
<1>1. ASSUME NEW v \in LocalVolumes,
             DestroyVolume(v) /\ UNCHANGED controllerVars
      PROVE  SnapInv'
  BY <1>1, DestroyVolumeStep, LocalAssumption
<1>2. ASSUME NEW v \in LocalVolumes, RemoveVolume(v) /\ UNCHANGED agentVars
      PROVE  SnapInv'
  BY <1>2, RemoveVolumeStep, LocalAssumption
<1>3. CASE UNCHANGED vars
  <2>1. /\ snaps' = snaps /\ UNCHANGED <<vols, thick, creates, deletes>>
        /\ UNCHANGED <<pos, queue, delayed, sync, origins, snapLVs, faults>>
    BY <1>3 DEF vars
  <2>2. AgentTypeOK' /\ vols' \in [Volumes -> Phases]
    BY <2>1 DEF SnapInv, SnapTypeOK, AgentTypeOK
  <2>3. ASSUME NEW s \in Snapshots PROVE SnapOK(s)'
    <3>1. KeepsLVs(s) /\ OtherWrites(s)
      BY <2>1, LVsUnchanged DEF OtherWrites
    <3>2. QED
      BY <2>1, <3>1, SnapStable
  <2>4. QED
    BY <2>1, <2>2, <2>3, StepOfAll
<1>4. QED
  BY <1>1, <1>2, <1>3, ControllerStep, HandleStep, WorkStep, CrashStep,
     CollectStep, ZenonT(30) DEF Next

\* The invariant holds for all sets of snapshots, volumes and requests, any
\* number of workers, lives and faults.
THEOREM SnapInvariance == Spec => []SnapInv
<1>1. Init => SnapInv
  BY InitOK
<1>2. SnapInv /\ [Next]_vars => SnapInv'
  BY StepOK
<1>3. QED
  BY <1>1, <1>2, PTL DEF Spec

\* Every variable has its type.
THEOREM SnapTypeCorrect == Spec => []SnapTypeOK
<1>1. SnapInv => SnapTypeOK
  BY DEF SnapInv
<1>2. QED
  BY <1>1, SnapInvariance, PTL

\* A Ready snapshot that nobody is deleting has its logical volume, made from
\* the volume of its label, or the volume has been deleted under it.
THEOREM ReadySnapKeepsLV == Spec => []ReadySnapHasLV
<1>1. SnapInv => ReadySnapHasLV
  <2>1. SnapInv => \A s \in Snapshots : ReadyOK(s)
    BY ZenonT(30) DEF SnapInv
  <2>2. QED
    BY <2>1, ZenonT(30) DEF ReadySnapHasLV, ReadyOK, SnapExists, LVMade
<1>2. QED
  BY <1>1, SnapInvariance, PTL

\* The resource of a snapshot that was Ready goes only after its logical
\* volume, unless an lvs failed.
THEOREM RemovedSnapLeavesNoLV == Spec => []RemovedSnapHasNoLV
<1>1. SnapInv => RemovedSnapHasNoLV
  <2>1. SnapInv => \A s \in Snapshots : RemovedOK(s)
    BY ZenonT(30) DEF SnapInv
  <2>2. QED
    BY <2>1, ZenonT(30) DEF RemovedSnapHasNoLV, RemovedOK
<1>2. QED
  BY <1>1, SnapInvariance, PTL

\* A DeleteVolume that marks its volume found no snapshot when it arrived,
\* and none that existed then can have come to be one of this volume.
THEOREM DeletesSpareSnapshots == Spec => DeleteSparesSnapshots
<1> DEFINE Spares(d) ==
       deletes[d].pc = "delete" =>
          ~ \E lv \in snapLVs :
               /\ lv[2] = deletes[d].vol
               /\ SnapExists(snaps[lv[1]])
               /\ Latest(snaps[lv[1]]).state = "Ready"
               /\ Latest(snaps[lv[1]]).uid < deletes[d].before[lv[1]]
<1>1. ASSUME SnapInv, NEW d \in DeleteCalls PROVE Spares(d)
  <2>1. SUFFICES ASSUME deletes[d].pc = "delete",
                        NEW lv \in snapLVs,
                        lv[2] = deletes[d].vol,
                        SnapExists(snaps[lv[1]]),
                        Latest(snaps[lv[1]]).state = "Ready",
                        Latest(snaps[lv[1]]).uid < deletes[d].before[lv[1]]
                 PROVE  FALSE
    BY ZenonT(30)
  <2>2. lv[1] \in Snapshots
    BY <1>1 DEF SnapInv, SnapTypeOK
  <2>3. PICK s \in Snapshots : s = lv[1]
    BY <2>2
  <2>4. DeleteOK(d) /\ ReadyOK(s)
    BY <1>1 DEF SnapInv
  <2>5. Latest(snaps[s]).vol # deletes[d].vol
    BY <2>1, <2>3, <2>4, ZenonT(30) DEF DeleteOK
  <2>6. LVOf(s, Latest(snaps[s]).vol)
    BY <2>1, <2>3, <2>4, ZenonT(30) DEF ReadyOK, SnapExists
  <2>7. QED
    BY <2>1, <2>3, <2>5, <2>6 DEF LVOf
<1>2. SnapInv => \A d \in DeleteCalls : Spares(d)
  BY <1>1, ZenonT(30)
<1>3. SnapInv => [\A d \in DeleteCalls :
                     deletes[d].pc = "delete" /\ deletes'[d].pc = "wait"
                     => ~ \E lv \in snapLVs :
                             /\ lv[2] = deletes[d].vol
                             /\ SnapExists(snaps[lv[1]])
                             /\ Latest(snaps[lv[1]]).state = "Ready"
                             /\ Latest(snaps[lv[1]]).uid
                                   < deletes[d].before[lv[1]]]_vars
  BY <1>2, ZenonT(30)
<1>4. QED
  BY <1>3, SnapInvariance, PTL DEF DeleteSparesSnapshots

\* Only the two reads of the status answer ReadyToUse, and only for a
\* snapshot that they find Ready.
LEMMA AnswersReady ==
    ASSUME SnapInv, [Next]_vars, NEW c \in CreateCalls,
           creates[c].pc # "answered", creates'[c].pc = "answered"
    PROVE  /\ creates[c].snap \in Snapshots
           /\ SnapExists(snaps[creates[c].snap])
           /\ Latest(snaps[creates[c].snap]).state = "Ready"
<1>1. creates \in [CreateCalls -> CreateCall \cup {NoRequest}]
  BY DEF SnapInv, SnapTypeOK
<1>2. creates' # creates
  OBVIOUS
<1>3. ControllerNext
  BY <1>2, ZenonT(30)
     DEF Next, vars, Handle, Work, Collect, controllerVars, RemoveVolume
<1>4. PICK b \in CreateCalls :
         \/ \E s \in Snapshots, v \in Volumes : CreateSnapshot(b, s, v)
         \/ ValidateSnapshotRequest(b)
         \/ GetLVMSnapshotStatus(b)
         \/ GetSourceVolume(b)
         \/ ProvisionSnapshot(b)
         \/ FinalStatus(b)
         \/ EndCreate(b)
  <2>1. ASSUME NEW s \in Snapshots PROVE ~ DeleteSnapshot(s)
    BY <1>2 DEF DeleteSnapshot
  <2>2. ASSUME NEW d \in DeleteCalls
        PROVE  /\ \A v \in LocalVolumes : ~ ValidateDeleteVolumeReq(d, v)
               /\ ~ GetVolumeToDelete(d) /\ ~ DeleteLVMVolume(d)
               /\ ~ WaitForDestroy(d) /\ ~ AbortDelete(d)
    BY <1>2, ZenonT(30)
       DEF ValidateDeleteVolumeReq, GetVolumeToDelete, DeleteLVMVolume,
           WaitForDestroy, AbortDelete
  <2>3. QED
    BY <1>3, <2>1, <2>2, ZenonT(30) DEF ControllerNext
<1>5. NoRequest.pc # "answered"
  BY DEF NoRequest
<1>6. ~ Return(b)
  BY <1>1, <1>5 DEF Return
<1>7. \A pc : Goto(b, pc) => b = c /\ pc = "answered"
  BY <1>1 DEF Goto, CreateCall, NoRequest
<1>8. \A s, v : ~ CreateSnapshot(b, s, v)
  BY <1>1 DEF CreateSnapshot
<1>9. /\ b = c
      /\ creates[c].pc \in {"status", "finalStatus"}
      /\ SnapExists(snaps[creates[c].snap])
      /\ Latest(snaps[creates[c].snap]).state = "Ready"
  <2>1. ~ Goto(b, "status") /\ ~ Goto(b, "getVolume") /\ ~ Goto(b, "provision")
        /\ ~ Goto(b, "finalStatus")
    BY <1>7
  <2>2. ~ ValidateSnapshotRequest(b) /\ ~ GetSourceVolume(b)
        /\ ~ ProvisionSnapshot(b) /\ ~ EndCreate(b)
    BY <1>6, <2>1, ZenonT(30)
       DEF ValidateSnapshotRequest, GetSourceVolume, ProvisionSnapshot, EndCreate
  <2>3. \/ /\ creates[b].pc \in {"status", "finalStatus"}
           /\ SnapExists(snaps[creates[b].snap])
           /\ Latest(snaps[creates[b].snap]).state = "Ready"
           /\ Goto(b, "answered")
        \/ ~ GetLVMSnapshotStatus(b) /\ ~ FinalStatus(b)
    BY <1>6, <2>1, ZenonT(30) DEF GetLVMSnapshotStatus, FinalStatus, Answer
  <2>4. QED
    BY <1>4, <1>7, <1>8, <2>2, <2>3, ZenonT(30)
<1>10. creates[c].snap \in Snapshots
  BY <1>9, RequestFacts, ZenonT(30)
<1>11. QED
  BY <1>9, <1>10

\* A CreateSnapshot answers ReadyToUse only when the logical volume is there,
\* or a deletion of the snapshot or of its volume has begun.
THEOREM ReadyAnswersTrue == Spec => ReadyAnswerHasLV
<1> DEFINE Made(s) == \/ HasLV(s)
                      \/ Latest(snaps[s]).del
                      \/ thick /\ Latest(snaps[s]).vol \notin origins
<1>1. ASSUME SnapInv, NEW s \in Snapshots, SnapExists(snaps[s]),
             Latest(snaps[s]).state = "Ready"
      PROVE  Made(s)
  <2>1. /\ ReadyOK(s) /\ HistoryOK(snaps[s]) /\ snaps[s] \in Seq(SnapVersion)
        /\ Len(snaps[s]) > 0
    BY <1>1, SnapFacts, ZenonT(30) DEF SnapOK, SnapExists
  <2>2. Latest(snaps[s]).thick = thick
    BY <2>1, LatestOK DEF WellFormed
  <2>3. Latest(snaps[s]).del \/ LVMade(s, Latest(snaps[s]))
    BY <1>1, <2>1, ZenonT(30) DEF ReadyOK
  <2>4. <<s, Latest(snaps[s]).vol, Latest(snaps[s]).thick>> \in snapLVs => HasLV(s)
    BY DEF HasLV
  <2>5. QED
    BY <2>2, <2>3, <2>4 DEF LVMade
<1>2. SnapInv /\ [Next]_vars =>
         [\A c \in CreateCalls :
             creates[c].pc # "answered" /\ creates'[c].pc = "answered"
             => Made(creates[c].snap)]_vars
  <2>1. ASSUME SnapInv, [Next]_vars, NEW c \in CreateCalls,
               creates[c].pc # "answered", creates'[c].pc = "answered"
        PROVE  Made(creates[c].snap)
    <3>1. /\ creates[c].snap \in Snapshots
          /\ SnapExists(snaps[creates[c].snap])
          /\ Latest(snaps[creates[c].snap]).state = "Ready"
      BY <2>1, AnswersReady, ZenonT(30)
    <3> HIDE DEF Made
    <3>2. QED
      BY <1>1, <2>1, <3>1
  <2>2. QED
    BY <2>1, ZenonT(30)
<1>3. QED
  BY <1>2, SnapInvariance, PTL DEF ReadyAnswerHasLV, Spec

-----------------------------------------------------------------------------
\* The implementation of SnapshotContract.

\* Every step leaves the resources alone, or adds to one of them a version
\* that creates, marks, finishes or removes the snapshot.
LEMMA NextWrites ==
    ASSUME SnapInv, [Next]_vars
    PROVE  \/ snaps' = snaps
           \/ \E s \in Snapshots, x \in SnapVersion :
                 Written(s, x) /\ Extends(snaps[s], x)
<1> DEFINE OneWrite == \/ snaps' = snaps
                       \/ \E s \in Snapshots, x \in SnapVersion :
                             Written(s, x) /\ Extends(snaps[s], x)
<1>1. CASE ControllerNext
  BY <1>1, ControllerWrites DEF Extends
<1>2. ASSUME NEW s \in Snapshots, NEW snap, Update(s, snap),
             sync[s].rv = Len(snaps[s]) =>
                \E x \in SnapVersion :
                   /\ SnapUpdated(snaps[s], snap) = Append(snaps[s], x)
                   /\ Extends(snaps[s], x)
      PROVE  OneWrite
  <2>1. CASE snaps' = snaps
    BY <2>1
  <2>2. CASE snaps' # snaps
    <3>1. /\ sync[s].rv = Len(snaps[s])
          /\ snaps' = [snaps EXCEPT ![s] = SnapUpdated(snaps[s], snap)]
      BY <1>2, <2>2, ZenonT(30) DEF Update
    <3>2. PICK x \in SnapVersion :
             /\ SnapUpdated(snaps[s], snap) = Append(snaps[s], x)
             /\ Extends(snaps[s], x)
      BY <1>2, <3>1, ZenonT(30)
    <3>3. Written(s, x)
      BY <3>1, <3>2 DEF Written
    <3>4. QED
      BY <3>2, <3>3
  <2>3. QED
    BY <2>1, <2>2
<1>3. ASSUME NEW s \in Snapshots, Work(s)
      PROVE  OneWrite
  <2>1. CASE CreateLV(s) \/ DestroyLV(s)
    BY <2>1, ZenonT(30) DEF CreateLV, DestroyLV
  <2>2. CASE UpdateSnapInfo(s)
    BY <1>2, <2>2, SnapInfoWrite, ZenonT(30) DEF UpdateSnapInfo, Extends
  <2>3. CASE RemoveSnapFinalizer(s)
    BY <1>2, <2>3, UnfinalizeWrite, ZenonT(30)
       DEF RemoveSnapFinalizer, Extends
  <2>4. QED
    BY <1>3, <2>1, <2>2, <2>3 DEF Work, SyncSnap
<1>4. ASSUME NEW s \in Snapshots, Collect(s)
      PROVE  OneWrite
  <2>1. /\ SnapExists(snaps[s]) /\ Latest(snaps[s]).del
        /\ ~ Latest(snaps[s]).fin
        /\ snaps' = [snaps EXCEPT ![s] =
                        Append(snaps[s], [Latest(snaps[s]) EXCEPT !.gone = TRUE])]
    BY <1>4 DEF Collect, GarbageCollect
  <2>2. HistoryOK(snaps[s]) /\ snaps[s] \in Seq(SnapVersion)
    BY SnapFacts, ZenonT(30) DEF SnapOK
  <2>3. PICK x \in SnapVersion :
           /\ Append(snaps[s], [Latest(snaps[s]) EXCEPT !.gone = TRUE])
                 = Append(snaps[s], x)
           /\ IsRemoved(snaps[s], x)
    BY <2>1, <2>2, CollectedExtends, ZenonT(30)
  <2>4. Written(s, x)
    BY <2>1, <2>3, ZenonT(30) DEF Written
  <2>5. QED
    BY <2>3, <2>4 DEF Extends
<1>5. ASSUME \/ \E s \in Snapshots : Handle(s)
             \/ UNCHANGED controllerVars
             \/ \E v \in LocalVolumes : RemoveVolume(v)
             \/ UNCHANGED vars
      PROVE  OneWrite
  BY <1>5 DEF Handle, controllerVars, RemoveVolume, vars
<1>6. QED
  BY <1>1, <1>3, <1>4, <1>5, ZenonT(30) DEF Next

\* The steps that the contract allows the life of a snapshot.
LifeStep(a, b) ==
    \/ /\ a.phase = "absent"
       /\ \E v \in Volumes : b = [uid |-> a.uid + 1, phase |-> "pending", vol |-> v]
    \/ a.phase = "pending" /\ b = [a EXCEPT !.phase = "ready"]
    \/ a.phase \in {"pending", "ready"} /\ b = [a EXCEPT !.phase = "deleting"]
    \/ a.phase = "deleting" /\ b = [a EXCEPT !.phase = "absent"]

\* A version that follows the one before it is such a step.
LEMMA ExtendsLife ==
    ASSUME NEW h \in Seq(SnapVersion), HistoryOK(h), NEW x \in SnapVersion,
           Extends(h, x)
    PROVE  LifeStep(SnapLife(h), SnapLife(Append(h, x)))
<1> DEFINE a == Latest(h)
           g == Append(h, x)
<1>1. Len(g) = Len(h) + 1 /\ Latest(g) = x /\ Len(h) \in Nat
  BY DEF Latest
<1>2. SnapLife(g) = [uid |-> x.uid, phase |-> SnapPhase(x), vol |-> x.vol]
  BY <1>1 DEF SnapLife
<1>3. Len(h) # 0 =>
        /\ a \in SnapVersion
        /\ SnapLife(h) = [uid |-> a.uid, phase |-> SnapPhase(a), vol |-> a.vol]
  BY <1>1, LatestOK DEF SnapLife
<1> HIDE DEF a, g
<1>4. CASE IsNew(h, x)
  <2>1. SnapPhase(x) = "pending" /\ x.vol \in Volumes
    BY <1>4 DEF IsNew, SnapPhase, SnapVersion
  <2>2. SnapLife(h).phase = "absent" /\ x.uid = SnapLife(h).uid + 1
    <3>1. CASE Len(h) = 0
      BY <1>4, <3>1 DEF IsNew, SnapLife, NextSnapUid
    <3>2. CASE Len(h) # 0
      BY <1>1, <1>3, <1>4, <3>2
         DEF a, IsNew, SnapExists, SnapPhase, NextSnapUid
    <3>3. QED
      BY <3>1, <3>2
  <2>3. QED
    BY <1>2, <2>1, <2>2 DEF LifeStep, g
<1>5. CASE ~ IsNew(h, x)
  <2>1. /\ Len(h) # 0 /\ ~ a.gone /\ x.uid = a.uid /\ x.vol = a.vol
        /\ \/ IsMarked(h, x) \/ IsReady(h, x) \/ IsRemoved(h, x)
    <3>1. IsMarked(h, x) \/ IsReady(h, x) \/ IsRemoved(h, x)
      BY <1>5, ZenonT(30) DEF Extends
    <3>2. SnapExists(h) /\ x.uid = a.uid /\ x.vol = a.vol
      BY <3>1, ZenonT(30) DEF IsMarked, IsReady, IsRemoved, Keeps, a
    <3>3. Len(h) # 0 /\ ~ a.gone
      BY <1>1, <3>2 DEF SnapExists, a
    <3>4. QED
      BY <3>1, <3>2, <3>3, ZenonT(30)
  <2>2. \/ /\ SnapPhase(a) = "pending" /\ SnapPhase(x) = "ready"
        \/ /\ SnapPhase(a) \in {"pending", "ready"} /\ SnapPhase(x) = "deleting"
        \/ /\ SnapPhase(a) = "deleting" /\ SnapPhase(x) = "absent"
    BY <1>3, <2>1, ZenonT(30)
       DEF IsMarked, IsReady, IsRemoved, SnapPhase, a, SnapVersion
  <2>3. /\ SnapLife(h).phase = SnapPhase(a)
        /\ SnapLife(g) = [SnapLife(h) EXCEPT !.phase = SnapPhase(x)]
    BY <1>2, <1>3, <2>1
  <2>4. QED
    BY <2>2, <2>3, ZenonT(30) DEF LifeStep, g
<1>6. QED
  BY <1>4, <1>5

\* Every step is one of the contract, or changes no life.
LEMMA SnapContractStep ==
    ASSUME SnapInv, [Next]_vars
    PROVE  [SContract!Next]_SnapLives
<1>1. snaps \in [Snapshots -> Seq(SnapVersion)]
  BY DEF SnapInv, SnapTypeOK
<1>2. CASE snaps' = snaps
  BY <1>2 DEF SnapLives, SnapLife, Latest
<1>3. ASSUME NEW s \in Snapshots, NEW x \in SnapVersion, Written(s, x),
             Extends(snaps[s], x)
      PROVE  [SContract!Next]_SnapLives
  <2> DEFINE g == Append(snaps[s], x)
  <2>1. LifeStep(SnapLife(snaps[s]), SnapLife(g))
    BY <1>3, ExtendsLife, SnapFacts, ZenonT(30) DEF SnapOK
  <2>2. SnapLives[s] = SnapLife(snaps[s])
    BY DEF SnapLives
  <2>3. SnapLives' = [SnapLives EXCEPT ![s] = SnapLife(g)]
    <3>1. \A t \in Snapshots : snaps'[t] = IF t = s THEN g ELSE snaps[t]
      BY <1>1, <1>3 DEF Written
    <3>2. SnapLives' = [t \in Snapshots |-> SnapLife(snaps'[t])]
      BY DEF SnapLives, SnapLife, Latest, SnapPhase
    <3> HIDE DEF g
    <3>3. QED
      BY <3>1, <3>2, ZenonT(30) DEF SnapLives
  <2> HIDE DEF g
  <2>4. SContract!Create(s) \/ SContract!MakeReady(s)
          \/ SContract!MarkDeleted(s) \/ SContract!Remove(s)
    BY <2>1, <2>2, <2>3, ZenonT(30)
       DEF LifeStep, SContract!Create, SContract!MakeReady,
           SContract!MarkDeleted, SContract!Remove, SContract!Step
  <2>5. QED
    BY <2>4, ZenonT(30) DEF SContract!Next
<1>4. QED
  BY <1>2, <1>3, NextWrites

\* The controller, the agent and the garbage collector together keep the
\* contract: the volume of a snapshot does not change, Ready is final, and
\* a snapshot goes only after it has been marked, from which it does not
\* come back.
THEOREM SnapRefinement == Spec => KeepsSnapContract
<1>1. Init => SContract!Init
  <2>1. SUFFICES ASSUME Init
                 PROVE  SContract!Init
    OBVIOUS
  <2>2. \A s \in Snapshots : snaps[s] = <<>>
    BY <2>1, ZenonT(30) DEF Init, ControllerInit
  <2>3. Len(<<>>) = 0
    OBVIOUS
  <2>4. QED
    BY <2>2, <2>3 DEF SContract!Init, SnapLives, SnapLife
<1>2. SnapInv /\ [Next]_vars => [SContract!Next]_SnapLives
  BY SnapContractStep
<1>3. QED
  BY <1>1, <1>2, SnapInvariance, PTL DEF Spec, KeepsSnapContract, SContract!Spec
=============================================================================
