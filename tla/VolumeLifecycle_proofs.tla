----------------------- MODULE VolumeLifecycle_proofs -----------------------
(***************************************************************************)
(* The safety properties of VolumeLifecycle, for any number of nodes,      *)
(* volumes, volume groups, requests, lives of a name and faults, and the   *)
(* proof that VolumeLifecycle implements VolumeContract.                   *)
(***************************************************************************)
EXTENDS VolumeWorkers_proofs

\* A leaf that names no prover is for SMT, in two tries.
USE SMTT(30), SMTT(60)

\* The system.

\* An agent that comes up again knows the last version of every volume.
LEMMA CrashStep ==
    ASSUME Inv, NEW n \in Nodes, Crash(n), UNCHANGED calls
    PROVE  Inv'
<1>1. /\ pos \in [Nodes -> [Volumes -> Nat]]
      /\ queue \in [Nodes -> SUBSET Volumes]
      /\ delayed \in [Nodes -> SUBSET Volumes]
      /\ sync \in [Nodes -> [Volumes -> Sync]]
      /\ crs \in [Volumes -> Seq(Version)]
      /\ faults \in Nat
  BY DEF Inv, TypeOK
<1>2. /\ UNCHANGED <<crs, calls, lvs>>
      /\ faults' \in Nat
      /\ pos' = [pos EXCEPT ![n] = [v \in Volumes |-> Len(crs[v])]]
      /\ queue' = [queue EXCEPT ![n] = {v \in Volumes : /\ Exists(crs[v])
                                                        /\ addVol(n, Latest(crs[v]))}]
      /\ delayed' = [delayed EXCEPT ![n] = {}]
      /\ sync' = [sync EXCEPT ![n] = [v \in Volumes |-> Idle]]
  BY <1>1 DEF Crash, Fault
<1>3. Idle \in Sync /\ Idle.pc = "idle"
  BY DEF Idle, Sync
<1>4. \A v \in Volumes : /\ pos'[n][v] = Len(crs[v])
                         /\ v \notin delayed'[n]
                         /\ ~ Busy(n, v)'
  BY <1>1, <1>2, <1>3 DEF Busy
<1>5. \A m \in Nodes, v \in Volumes :
        m # n => /\ SameAgent(m, v)
                 /\ queue'[m] = queue[m] /\ delayed'[m] = delayed[m]
  BY <1>1, <1>2 DEF SameAgent
<1>6. \A v \in Volumes : Grows(crs[v], crs'[v])
  BY <1>2 DEF Grows
<1>7. TypeOK'
  <2>1. pos' \in [Nodes -> [Volumes -> Nat]]
    BY <1>1, <1>2
  <2>2. sync' \in [Nodes -> [Volumes -> Sync]]
    BY <1>1, <1>2, <1>3
  <2>3. /\ queue' \in [Nodes -> SUBSET Volumes]
        /\ delayed' \in [Nodes -> SUBSET Volumes]
    BY <1>1, <1>2
  <2>4. QED
    BY <1>2, <2>2 DEF Inv, TypeOK
<1>8. ASSUME NEW m \in Nodes, NEW v \in Volumes
      PROVE  pos'[m][v] <= Len(crs'[v]) /\ WorkerOK(m, v)' /\ ConcernOK(m, v)'
  <2>1. CASE m # n
    <3>1. WorkerOK(m, v)'
      BY <1>5, <1>6, <2>1, WorkerStable
    <3>2. ConcernOK(m, v)'
      BY <1>5, <1>6, <2>1, ConcernStable DEF SameAgent, Busy
    <3>3. QED
      BY <1>2, <3>1, <3>2 DEF Inv, SameAgent
  <2>2. CASE m = n
    <3>1. crs[v] \in Seq(Version) /\ Len(crs[v]) \in Nat
      BY <1>1
    <3>2. v \in queue'[n] => Len(crs[v]) > 0 /\ crs[v][Len(crs[v])].owner = n
      BY <1>1, <1>2, ZenonT(30) DEF Exists, addVol, Latest
    <3>3. ConcernOK(n, v)'
      BY <1>2, <1>4, <3>2 DEF ConcernOK
    <3>4. QED
      BY <1>2, <1>4, <2>2, <3>3 DEF WorkerOK
  <2>3. QED
    BY <2>1, <2>2
<1>9. ASSUME NEW v \in Volumes
      PROVE  ReadyOK(v)' /\ OwnerOK(v)' /\ RemovedOK(v)'
  <2>1. /\ crs[v] \in Seq(Version) /\ HistoryOK(crs[v]) /\ Len(crs[v]) \in Nat
        /\ ReadyOK(v) /\ OwnerOK(v) /\ RemovedOK(v)
    BY DEF Inv, TypeOK
  <2>2. Len(crs[v]) > 0 => /\ Latest(crs[v]) \in Version
                           /\ WellFormed(Latest(crs[v]))
    BY <2>1, LatestIsNewest, Len(crs[v]) \in 1..Len(crs[v]) \/ ~ Len(crs[v]) > 0
  <2>3. /\ Latest(crs[v])' = Latest(crs[v])
        /\ Cached(n, v)' = Latest(crs[v])
        /\ Ready(v)' = Ready(v)
        /\ SingleOwner(v)' = SingleOwner(v)
    BY <1>2, <1>4 DEF Latest, Cached, Ready, Exists, SingleOwner
  <2>4. \A m \in Nodes : m # n => /\ Copy(m, v)' = Copy(m, v)
                                  /\ Cached(m, v)' = Cached(m, v)
                                  /\ Busy(m, v)' = Busy(m, v)
                                  /\ pos'[m][v] = pos[m][v]
    BY <1>2, <1>5 DEF Copy, Cached, Busy, SameAgent
  <2>5. OwnerOK(v)'
    BY <1>2, <2>1, <2>3 DEF OwnerOK
  <2>6. ReadyOK(v)'
    <3>1. SUFFICES ASSUME Ready(v), ~ Latest(crs[v]).del
                   PROVE  ReadyOK(v)'
      BY <2>3, ZenonT(30) DEF ReadyOK
    <3>2. Latest(crs[v]).node \in Nodes /\ Len(crs[v]) > 0
      BY <2>2, <3>1 DEF Ready, Exists, WellFormed
    <3>3. CASE Latest(crs[v]).node # n
      BY <1>2, <2>1, <2>4, <3>1, <3>2, <3>3, ZenonT(30) DEF ReadyOK
    <3>4. CASE Latest(crs[v]).node = n
      <4>1. <<Latest(crs[v]).vg, v>> \in lvs[n]
        BY <2>1, <3>1, <3>4, ZenonT(30) DEF ReadyOK
      <4>2. pos'[n][v] >= 1 /\ ~ Busy(n, v)'
        BY <1>4, <2>1, <3>2
      <4>3. QED
        BY <1>2, <2>3, <3>4, <4>1, <4>2, ZenonT(30) DEF ReadyOK
    <3>5. QED
      BY <3>3, <3>4
  <2>7. RemovedOK(v)'
    <3>1. SUFFICES ASSUME Len(crs[v]) > 0, Latest(crs[v]).gone,
                          Latest(crs[v]).state = "Ready", SingleOwner(v)
                   PROVE  RemovedOK(v)'
      BY <1>2, <2>3, ZenonT(30) DEF RemovedOK
    <3>2. Latest(crs[v]).owner \in Nodes /\ Latest(crs[v]).del
      BY <2>2, <3>1 DEF Version, WellFormed
    <3>3. CASE Latest(crs[v]).owner # n
      BY <1>2, <2>1, <2>4, <3>1, <3>2, <3>3, ZenonT(30) DEF RemovedOK
    <3>4. CASE Latest(crs[v]).owner = n
      <4>1. <<Latest(crs[v]).vg, v>> \notin lvs[n]
        BY <2>1, <3>1, <3>4, ZenonT(30) DEF RemovedOK
      <4>2. pos'[n][v] >= 1 /\ ~ Busy(n, v)'
        BY <1>4, <2>1, <3>1
      <4>3. QED
        BY <1>2, <2>3, <3>2, <3>4, <4>1, <4>2, ZenonT(30) DEF RemovedOK
    <3>5. QED
      BY <3>3, <3>4
  <2>8. QED
    BY <2>5, <2>6, <2>7
<1>10. \A v \in Volumes : HistoryOK(crs[v])'
  BY <1>2 DEF Inv
<1>11. QED
  BY <1>7, <1>8, <1>9, <1>10 DEF Inv

\* The invariant holds initially.
LEMMA InitInv == Init => Inv
<1>1. SUFFICES ASSUME Init
               PROVE  Inv
  OBVIOUS
<1>2. TypeOK
  <2>1. <<>> \in Seq(Version)
    OBVIOUS
  <2>2. crs \in [Volumes -> Seq(Version)]
    BY <1>1, <2>1 DEF Init, ControllerInit
  <2>3. calls \in [Volumes -> [Calls -> Call]]
    BY <1>1 DEF Init, ControllerInit
  <2>4. Idle \in Sync
    BY DEF Idle, Sync
  <2>5. QED
    <3>1. sync \in [Nodes -> [Volumes -> Sync]]
      BY <1>1, <2>4 DEF Init, AgentInit
    <3>2. /\ pos \in [Nodes -> [Volumes -> Nat]]
          /\ queue \in [Nodes -> SUBSET Volumes]
          /\ delayed \in [Nodes -> SUBSET Volumes]
          /\ lvs \in [Nodes -> SUBSET (VGs \X Volumes)]
          /\ faults \in Nat
      BY <1>1 DEF Init, AgentInit
    <3>3. QED
      BY <2>2, <2>3, <3>1, <3>2 DEF TypeOK
<1>3. \A v \in Volumes : crs[v] = <<>> /\ Len(crs[v]) = 0
  <2>1. \A v \in Volumes : crs[v] = <<>>
    BY <1>1, ZenonT(30) DEF Init, ControllerInit
  <2>2. Len(<<>>) = 0
    OBVIOUS
  <2>3. QED
    BY <2>1, <2>2, ZenonT(30)
<1>4. \A n \in Nodes, v \in Volumes :
        /\ pos[n][v] = 0
        /\ ~ Busy(n, v)
        /\ queue[n] = {} /\ delayed[n] = {}
  BY <1>1 DEF Init, AgentInit, Busy, Idle
<1>5. \A v \in Volumes : HistoryOK(crs[v])
  <2>1. ASSUME NEW v \in Volumes
        PROVE  HistoryOK(crs[v])
    <3>1. Len(crs[v]) = 0
      BY <1>3
    <3>2. QED
      BY <3>1 DEF HistoryOK
  <2>2. QED
    BY <2>1, ZenonT(30)
<1>6. \A n \in Nodes, v \in Volumes : WorkerOK(n, v) /\ ConcernOK(n, v)
  BY <1>4 DEF WorkerOK, ConcernOK
<1>7. \A v \in Volumes : ReadyOK(v) /\ OwnerOK(v) /\ RemovedOK(v)
  <2>1. \A v \in Volumes : ~ Len(crs[v]) > 0
    <3>1. ASSUME NEW v \in Volumes
          PROVE  ~ Len(crs[v]) > 0
      <4>1. Len(crs[v]) = 0
        BY <1>3
      <4>2. QED
        BY <4>1
    <3>2. QED
      BY <3>1, ZenonT(30)
  <2>2. QED
    BY <2>1, ZenonT(30) DEF ReadyOK, OwnerOK, RemovedOK, Ready, Exists
<1>8. \A n \in Nodes, v \in Volumes : pos[n][v] <= Len(crs[v])
  <2>1. 0 <= 0
    OBVIOUS
  <2>2. QED
    BY <1>3, <1>4, <2>1, ZenonT(30)
<1>9. QED
  BY <1>2, <1>5, <1>6, <1>7, <1>8, ZenonT(30) DEF Inv

\* Every step preserves the invariant.
LEMMA NextInv == Inv /\ [Next]_vars => Inv'
<1>1. SUFFICES ASSUME Inv, [Next]_vars
               PROVE  Inv'
  OBVIOUS
<1>2. CASE UNCHANGED vars
  <2>1. TypeOK' /\ \A v \in Volumes : HistoryOK(crs[v])'
    BY <1>1, <1>2 DEF vars, Inv, TypeOK
  <2>2. \A n \in Nodes, v \in Volumes :
          /\ pos'[n][v] <= Len(crs'[v])
          /\ WorkerOK(n, v)'
          /\ ConcernOK(n, v)'
    BY <1>1, <1>2, WorkerStable, ConcernStable, ZenonT(30)
       DEF vars, Inv, Grows, SameAgent, Busy
  <2>3. \A v \in Volumes : ReadyOK(v)' /\ OwnerOK(v)' /\ RemovedOK(v)'
    BY <1>1, <1>2, SameOK DEF vars, SameAgent
  <2>4. QED
    BY <2>1, <2>2, <2>3 DEF Inv
<1>3. ASSUME NEW v \in Volumes, NEW c \in Calls,
             ControllerNext(v, c), UNCHANGED agentVars
      PROVE  Inv'
  BY <1>1, <1>3, ControllerStep
<1>4. ASSUME NEW n \in Nodes, NEW v \in Volumes,
             AgentNext(n, v), UNCHANGED calls
      PROVE  Inv'
  BY <1>1, <1>4, DeliverStep, RelistStep, QueueStep, StartSyncStep, SyncStep
     DEF AgentNext
<1>5. ASSUME NEW n \in Nodes, Crash(n), UNCHANGED calls
      PROVE  Inv'
  BY <1>1, <1>5, CrashStep
<1>6. ASSUME NEW v \in Volumes, GarbageCollect(v),
             UNCHANGED <<calls, agentVars>>
      PROVE  Inv'
  BY <1>1, <1>6, CollectStep
<1>7. QED
  BY <1>1, <1>2, <1>3, <1>4, <1>5, <1>6 DEF Next

\* The inductive invariant.
THEOREM Invariance == Spec => []Inv
BY InitInv, NextInv, PTL DEF Spec

\* Every variable keeps its type: a worker never has a copy that its next
\* step cannot use.
THEOREM TypeCorrect == Spec => []TypeOK
<1>1. Inv => TypeOK
  BY DEF Inv
<1>2. QED
  BY <1>1, Invariance, PTL

\* A volume that UpdateVolInfo made Ready has its logical volume until
\* somebody asks to delete it, whatever requests, crashes, errors, missed
\* events and stale copies there are.
THEOREM ReadyHasLVAlways == Spec => []ReadyHasLV
<1>1. Inv => ReadyHasLV
  BY ZenonT(30) DEF Inv, ReadyOK, ReadyHasLV
<1>2. QED
  BY <1>1, Invariance, PTL

\* The agent of the owner is the one that makes a volume Ready, as long as
\* all lives of its name have the same owner.
THEOREM OwnerProvisionsAlways == Spec => []OwnerProvisions
<1>1. Inv => OwnerProvisions
  BY DEF Inv, OwnerOK, OwnerProvisions, Ready, Exists
<1>2. QED
  BY <1>1, Invariance, PTL

\* The resource of a Ready volume is removed only when its logical volume has
\* been destroyed, and no late worker brings it back.
THEOREM RemovedHasNoLVAlways == Spec => []RemovedHasNoLV
<1>1. Inv => RemovedHasNoLV
  BY DEF Inv, RemovedOK, RemovedHasNoLV
<1>2. QED
  BY <1>1, Invariance, PTL

-----------------------------------------------------------------------------
\* The contract.

\* The ways in which the history h of a volume becomes g: Create, Delete, the
\* garbage collector's removal, and the updates of a worker whose copy is the
\* last version.
Change(h, g) ==
    \/ /\ ~ Exists(h)
       /\ \E owner \in Nodes, cap \in Capacities : g = Created(h, owner, cap)
    \/ /\ Exists(h)
       /\ g = Deleted(h)
    \/ /\ Exists(h)
       /\ Latest(h).del
       /\ g = Append(h, [Latest(h) EXCEPT !.gone = TRUE])
    \/ /\ Exists(h)
       /\ Latest(h).state = "Pending" /\ ~ Latest(h).del
       /\ \E vg \in VGs : g = Updated(h, WithVolGroup(Latest(h), vg))
    \/ /\ Exists(h)
       /\ Latest(h).state = "Pending" /\ ~ Latest(h).del
       /\ \E n \in Nodes, state \in {"Ready", "Failed"} :
             /\ state = "Ready" => Latest(h).vg \in VGs
             /\ g = Updated(h, WithVolInfo(Latest(h), state, n))
    \/ /\ Exists(h)
       /\ Latest(h).del
       /\ g = Updated(h, WithoutFinalizer(Latest(h)))

\* A worker changes the history of its volume in one of these ways.
LEMMA WorkerChange ==
    ASSUME Inv, NEW n \in Nodes, NEW v \in Volumes, SyncVol(n, v)
    PROVE  \/ crs' = crs
           \/ \E g : Change(crs[v], g) /\ crs' = [crs EXCEPT ![v] = g]
<1>1. WorkerOK(n, v) /\ sync[n][v] \in Sync
  BY DEF Inv, TypeOK
<1>2. CASE UpdateVolGroup(n, v)
  <2>1. PICK vg \in sync[n][v].todo :
          LET vol == WithVolGroup(Copy(n, v), vg)
          IN  Update(n, v, vol, [pc   |-> "create",
                                 rv   |-> Len(Updated(crs[v], vol)),
                                 todo |-> sync[n][v].todo \ {vg}])
    BY <1>2, ZenonT(30) DEF UpdateVolGroup
  <2>2. /\ vg \in VGs /\ Busy(n, v)
        /\ Copy(n, v).state = "Pending" /\ ~ Copy(n, v).del
    BY <1>1, <1>2, ZenonT(30) DEF UpdateVolGroup, Sync, Busy, WorkerOK
  <2>3. \/ crs' = crs
        \/ /\ sync[n][v].rv = Len(crs[v])
           /\ crs' = [crs EXCEPT ![v] =
                         Updated(crs[v], WithVolGroup(Copy(n, v), vg))]
    BY <2>1, UpdateOutcomes
  <2>4. CASE /\ sync[n][v].rv = Len(crs[v])
             /\ crs' = [crs EXCEPT ![v] =
                           Updated(crs[v], WithVolGroup(Copy(n, v), vg))]
    <3>1. Copy(n, v) = Latest(crs[v]) /\ Exists(crs[v])
      BY <2>2, <2>4, CurrentCopy, ZenonT(30)
    <3>2. Change(crs[v], Updated(crs[v], WithVolGroup(Copy(n, v), vg)))
      BY <2>2, <3>1, ZenonT(30) DEF Change
    <3>3. QED
      BY <2>4, <3>2, ZenonT(30)
  <2>5. QED
    BY <2>3, <2>4
<1>3. CASE MarkReady(n, v) \/ MarkFailed(n, v)
  <2>1. PICK state \in {"Ready", "Failed"} :
          /\ UpdateVolInfo(n, v, state)
          /\ state = "Ready" => sync[n][v].pc = "ready"
          /\ state = "Failed" => sync[n][v].pc = "failed"
    BY <1>3 DEF MarkReady, MarkFailed
  <2>2. /\ Busy(n, v)
        /\ Copy(n, v).state = "Pending" /\ ~ Copy(n, v).del
        /\ state = "Ready" => Copy(n, v).vg \in VGs
    BY <1>1, <2>1, ZenonT(30) DEF Busy, WorkerOK
  <2>3. \/ crs' = crs
        \/ Update(n, v, WithVolInfo(Copy(n, v), state, n), Idle)
    BY <2>1 DEF UpdateVolInfo
  <2>4. \/ crs' = crs
        \/ /\ sync[n][v].rv = Len(crs[v])
           /\ crs' = [crs EXCEPT ![v] =
                         Updated(crs[v], WithVolInfo(Copy(n, v), state, n))]
    BY <2>3, UpdateOutcomes
  <2>5. CASE /\ sync[n][v].rv = Len(crs[v])
             /\ crs' = [crs EXCEPT ![v] =
                           Updated(crs[v], WithVolInfo(Copy(n, v), state, n))]
    <3>1. Copy(n, v) = Latest(crs[v]) /\ Exists(crs[v])
      BY <2>2, <2>5, CurrentCopy, ZenonT(30)
    <3>2. Change(crs[v], Updated(crs[v], WithVolInfo(Copy(n, v), state, n)))
      BY <2>2, <3>1, ZenonT(30) DEF Change
    <3>3. QED
      BY <2>5, <3>2, ZenonT(30)
  <2>6. QED
    BY <2>4, <2>5
<1>4. CASE RemoveVolFinalizer(n, v)
  <2>1. Busy(n, v) /\ Copy(n, v).del
    BY <1>1, <1>4, ZenonT(30) DEF RemoveVolFinalizer, Busy, WorkerOK
  <2>2. \/ crs' = crs
        \/ /\ sync[n][v].rv = Len(crs[v])
           /\ crs' = [crs EXCEPT ![v] =
                         Updated(crs[v], WithoutFinalizer(Copy(n, v)))]
    BY <1>4, UpdateOutcomes DEF RemoveVolFinalizer
  <2>3. CASE /\ sync[n][v].rv = Len(crs[v])
             /\ crs' = [crs EXCEPT ![v] =
                           Updated(crs[v], WithoutFinalizer(Copy(n, v)))]
    <3>1. Copy(n, v) = Latest(crs[v]) /\ Exists(crs[v])
      BY <2>1, <2>3, CurrentCopy
    <3>2. Change(crs[v], Updated(crs[v], WithoutFinalizer(Copy(n, v))))
      BY <2>1, <3>1, ZenonT(30) DEF Change
    <3>3. QED
      BY <2>3, <3>2, ZenonT(30)
  <2>4. QED
    BY <2>2, <2>3
<1>5. QED
  BY <1>2, <1>3, <1>4, ZenonT(30)
    DEF SyncVol, RetryVolGroup, GetVgPriorityList,
                          CreateVolumeInVG, DestroyVolume

\* So does every step of the system, to one volume at most.
LEMMA NextChange ==
    ASSUME Inv, [Next]_vars
    PROVE  \/ crs' = crs
           \/ \E v \in Volumes, g \in Seq(Version) :
                 Change(crs[v], g) /\ crs' = [crs EXCEPT ![v] = g]
<1>1. crs \in [Volumes -> Seq(Version)]
  BY DEF Inv, TypeOK
<1>2. Inv'
  BY NextInv
<1>3. \A v \in Volumes : crs'[v] \in Seq(Version)
  BY <1>2, ZenonT(30) DEF Inv, TypeOK
<1>4. \A v \in Volumes : \A g : crs' = [crs EXCEPT ![v] = g] => g \in Seq(Version)
  BY <1>1, <1>3
<1>5. ASSUME NEW v \in Volumes, NEW c \in Calls, ControllerNext(v, c)
      PROVE  \/ crs' = crs
             \/ \E g : Change(crs[v], g) /\ crs' = [crs EXCEPT ![v] = g]
  BY <1>5, ControllerEffect, ZenonT(30) DEF Change
<1>6. ASSUME NEW n \in Nodes, NEW v \in Volumes, AgentNext(n, v)
      PROVE  \/ crs' = crs
             \/ \E g : Change(crs[v], g) /\ crs' = [crs EXCEPT ![v] = g]
  <2>1. CASE SyncVol(n, v)
    BY <2>1, WorkerChange
  <2>2. CASE crs' = crs
    BY <2>2
  <2>3. QED
    BY <1>6, <2>1, <2>2, ZenonT(30)
       DEF AgentNext, Deliver, Relist, Resync, AddAfterDelay, StartSync
<1>7. CASE UNCHANGED vars \/ \E n \in Nodes : Crash(n)
  BY <1>7 DEF vars, Crash
<1>8. ASSUME NEW v \in Volumes, GarbageCollect(v)
      PROVE  \E g : Change(crs[v], g) /\ crs' = [crs EXCEPT ![v] = g]
  BY <1>8, ZenonT(30) DEF GarbageCollect, Change
<1>9. QED
  BY <1>4, <1>5, <1>6, <1>7, <1>8, ZenonT(30) DEF Next

-----------------------------------------------------------------------------
\* What the contract allows to become of a life.
LifeStep(a, b) ==
    \/ b = a
    \/ /\ a.phase = "absent"
       /\ \E owner \in Nodes, cap \in Capacities :
             b = [uid |-> a.uid + 1, phase |-> "pending", owner |-> owner,
                  cap |-> cap, vg |-> NoVG, node |-> NoNode]
    \/ /\ a.phase = "pending"
       /\ \E vg \in VGs : b = [a EXCEPT !.vg = vg]
    \/ /\ a.phase = "pending" /\ a.vg # NoVG
       /\ \E n \in Nodes : b = [a EXCEPT !.phase = "ready", !.node = n]
    \/ /\ a.phase = "pending"
       /\ \E n \in Nodes : b = [a EXCEPT !.phase = "failed", !.node = n]
    \/ /\ a.phase \in {"pending", "ready", "failed"}
       /\ b = [a EXCEPT !.phase = "deleting"]
    \/ /\ a.phase = "deleting"
       /\ b = [a EXCEPT !.phase = "absent"]

\* The type of a life.
LifeRecord ==
    [uid : Nat, phase : {"absent", "pending", "ready", "failed", "deleting"},
     owner : Nodes \cup {NoNode}, cap : Capacities \cup {0},
     vg : VGs \cup {NoVG}, node : Nodes \cup {NoNode}]

\* Steps of a life, field by field.
LEMMA LifeMoves ==
    ASSUME NEW a \in LifeRecord, NEW b \in LifeRecord,
           a.uid = b.uid, a.owner = b.owner, a.cap = b.cap,
           \/ /\ a.phase = b.phase /\ a.vg = b.vg /\ a.node = b.node
           \/ /\ a.phase = "pending" /\ b.phase = "pending"
              /\ b.vg \in VGs /\ a.node = b.node
           \/ /\ a.phase = "pending" /\ b.phase = "ready"
              /\ a.vg = b.vg /\ a.vg \in VGs /\ b.node \in Nodes
           \/ /\ a.phase = "pending" /\ b.phase = "failed"
              /\ a.vg = b.vg /\ b.node \in Nodes
           \/ /\ a.phase \in {"pending", "ready", "failed"}
              /\ b.phase = "deleting"
              /\ a.vg = b.vg /\ a.node = b.node
           \/ /\ a.phase = "deleting" /\ b.phase = "absent"
              /\ a.vg = b.vg /\ a.node = b.node
    PROVE  LifeStep(a, b)
<1>1. CASE a.phase = b.phase /\ a.vg = b.vg /\ a.node = b.node
  <2>1. a = b
    BY <1>1 DEF LifeRecord
  <2>2. QED
    BY <2>1 DEF LifeStep
<1>2. CASE /\ a.phase = "pending" /\ b.phase = "pending"
           /\ b.vg \in VGs /\ a.node = b.node
  <2>1. b = [a EXCEPT !.vg = b.vg]
    BY <1>2 DEF LifeRecord
  <2>2. QED
    BY <1>2, <2>1, ZenonT(30) DEF LifeStep
<1>3. CASE /\ a.phase = "pending" /\ b.phase = "ready"
           /\ a.vg = b.vg /\ a.vg \in VGs /\ b.node \in Nodes
  <2>1. b = [a EXCEPT !.phase = "ready", !.node = b.node]
    BY <1>3, ZenonT(30) DEF LifeRecord
  <2>2. a.vg # NoVG
    BY <1>3, CRAssumption
  <2>3. QED
    BY <1>3, <2>1, <2>2, ZenonT(30) DEF LifeStep
<1>4. CASE /\ a.phase = "pending" /\ b.phase = "failed"
           /\ a.vg = b.vg /\ b.node \in Nodes
  <2>1. b = [a EXCEPT !.phase = "failed", !.node = b.node]
    BY <1>4, ZenonT(30) DEF LifeRecord
  <2>2. QED
    BY <1>4, <2>1, ZenonT(30) DEF LifeStep
<1>5. CASE /\ a.phase \in {"pending", "ready", "failed"}
           /\ b.phase = "deleting"
           /\ a.vg = b.vg /\ a.node = b.node
  <2>1. b = [a EXCEPT !.phase = "deleting"]
    BY <1>5 DEF LifeRecord
  <2>2. QED
    BY <1>5, <2>1, ZenonT(30) DEF LifeStep
<1>6. CASE /\ a.phase = "deleting" /\ b.phase = "absent"
           /\ a.vg = b.vg /\ a.node = b.node
  <2>1. b = [a EXCEPT !.phase = "absent"]
    BY <1>6 DEF LifeRecord
  <2>2. QED
    BY <1>6, <2>1, ZenonT(30) DEF LifeStep
<1>7. QED
  BY <1>1, <1>2, <1>3, <1>4, <1>5, <1>6, ZenonT(30)

\* The life that a version stands for.
LEMMA LifeOfVersion ==
    ASSUME NEW vol \in Version
    PROVE  LET a == LifeOf(vol)
           IN  /\ a \in LifeRecord
               /\ a.uid = vol.uid /\ a.owner = vol.owner /\ a.cap = vol.cap
               /\ a.vg = vol.vg /\ a.node = vol.node
               /\ a.phase = Phase(vol)
<1>1. Phase(vol) \in {"absent", "pending", "ready", "failed", "deleting"}
  BY DEF Phase
<1>2. QED
  BY <1>1 DEF LifeOf, LifeRecord, Version

\* Updates of a version that exists.
LEMMA VersionStep ==
    ASSUME NEW vol \in Version, ~ vol.gone, NEW new \in Version,
           new.uid = vol.uid, new.owner = vol.owner, new.cap = vol.cap,
           \/ /\ ~ vol.del /\ new.del /\ ~ new.gone
              /\ new.vg = vol.vg /\ new.node = vol.node
           \/ /\ vol.del /\ new.gone
              /\ new.vg = vol.vg /\ new.node = vol.node
           \/ /\ vol.state = "Pending" /\ ~ vol.del /\ new.state = "Pending"
              /\ new.vg \in VGs /\ new.node = vol.node
              /\ ~ new.gone /\ ~ new.del
           \/ /\ vol.state = "Pending" /\ ~ vol.del
              /\ new.state \in {"Ready", "Failed"}
              /\ new.state = "Ready" => vol.vg \in VGs
              /\ new.vg = vol.vg /\ new.node \in Nodes
              /\ ~ new.gone /\ ~ new.del
    PROVE  LifeStep(LifeOf(vol), LifeOf(new))
<1>1. Phase(vol) = IF vol.del THEN "deleting"
                   ELSE IF vol.state = "Pending" THEN "pending"
                   ELSE IF vol.state = "Ready" THEN "ready" ELSE "failed"
  BY DEF Phase
<1>2. CASE /\ ~ vol.del /\ new.del /\ ~ new.gone
           /\ new.vg = vol.vg /\ new.node = vol.node
  <2>1. Phase(new) = "deleting" /\ Phase(vol) \in {"pending", "ready", "failed"}
    BY <1>1, <1>2, ZenonT(30) DEF Phase
  <2>2. QED
    BY <1>2, <2>1, LifeOfVersion, LifeMoves
<1>3. CASE /\ vol.del /\ new.gone
           /\ new.vg = vol.vg /\ new.node = vol.node
  <2>1. Phase(new) = "absent" /\ Phase(vol) = "deleting"
    BY <1>1, <1>3, ZenonT(30) DEF Phase
  <2>2. QED
    BY <1>3, <2>1, LifeOfVersion, LifeMoves
<1>4. CASE /\ vol.state = "Pending" /\ ~ vol.del /\ new.state = "Pending"
           /\ new.vg \in VGs /\ new.node = vol.node
           /\ ~ new.gone /\ ~ new.del
  <2>1. Phase(new) = "pending" /\ Phase(vol) = "pending"
    BY <1>1, <1>4 DEF Phase
  <2>2. QED
    BY <1>4, <2>1, LifeOfVersion, LifeMoves
<1>5. CASE /\ vol.state = "Pending" /\ ~ vol.del
           /\ new.state \in {"Ready", "Failed"}
           /\ new.state = "Ready" => vol.vg \in VGs
           /\ new.vg = vol.vg /\ new.node \in Nodes
           /\ ~ new.gone /\ ~ new.del
  <2>1. /\ Phase(vol) = "pending"
        /\ Phase(new) = IF new.state = "Ready" THEN "ready" ELSE "failed"
    BY <1>1, <1>5 DEF Phase
  <2>2. QED
    BY <1>5, <2>1, LifeOfVersion, LifeMoves
<1>6. QED
  BY <1>2, <1>3, <1>4, <1>5, ZenonT(30)

\* The life of a history is that of its last version.
LEMMA LifeOfLatest ==
    ASSUME NEW h \in Seq(Version), Len(h) > 0
    PROVE  Life(h) = LifeOf(Latest(h))
<1>1. Len(h) # 0
  OBVIOUS
<1>2. QED
  BY <1>1 DEF Life

\* Writing vol makes Stored(vol) the last version.
LEMMA LatestUpdated ==
    ASSUME NEW h \in Seq(Version), Len(h) > 0, NEW vol, Stored(vol) \in Version
    PROVE  Latest(Updated(h, vol)) = Stored(vol) /\ Len(Updated(h, vol)) > 0
BY DEF Updated, Latest

\* What the changes make of a life.
LEMMA ChangeLife ==
    ASSUME NEW h \in Seq(Version), HistoryOK(h), NEW g \in Seq(Version),
           Change(h, g)
    PROVE  LifeStep(Life(h), Life(g))
<1>1. Len(h) \in Nat
  OBVIOUS
<1>2. ASSUME ~ Exists(h), NEW owner \in Nodes, NEW cap \in Capacities,
             g = Created(h, owner, cap)
      PROVE  LifeStep(Life(h), Life(g))
  <2> DEFINE new == NewVolume(NextUid(h), owner, cap)
  <2>1. g = Append(h, new)
    BY <1>2 DEF Created
  <2>2. LifeOf(new) = [uid |-> NextUid(h), phase |-> "pending",
                       owner |-> owner, cap |-> cap, vg |-> NoVG,
                       node |-> NoNode]
    BY ZenonT(30) DEF LifeOf, Phase, NewVolume
  <2> HIDE DEF new
  <2>3. Len(h) > 0 => Latest(h) \in Version /\ Latest(h).gone
    BY <1>2 DEF Latest, Exists
  <2>4. NextUid(h) \in Nat \ {0}
    BY <1>1, <2>3 DEF NextUid, Version
  <2>5. new \in Version
    BY <1>2, <2>4 DEF new, NewVolume, Version
  <2>6. Len(g) > 0 /\ Latest(g) = new
    BY <2>1, <2>5 DEF Latest
  <2>7. Life(g) = LifeOf(new)
    BY <2>6, LifeOfLatest
  <2>8. Life(h).phase = "absent" /\ NextUid(h) = Life(h).uid + 1
    <3>1. CASE Len(h) = 0
      BY <3>1 DEF Life, NextUid
    <3>2. CASE Len(h) > 0
      <4>1. Life(h) = LifeOf(Latest(h))
        BY <3>2, LifeOfLatest
      <4>2. Phase(Latest(h)) = "absent"
        BY <2>3, <3>2 DEF Phase
      <4>3. LifeOf(Latest(h)).phase = "absent"
        BY <2>3, <3>2, <4>2, LifeOfVersion
      <4>4. LifeOf(Latest(h)).uid = Latest(h).uid
        BY <2>3, <3>2, LifeOfVersion
      <4>5. NextUid(h) = Latest(h).uid + 1
        BY <3>2 DEF NextUid
      <4>6. QED
        BY <4>1, <4>3, <4>4, <4>5
    <3>3. QED
      BY <1>1, <3>1, <3>2
  <2>9. QED
    BY <2>2, <2>7, <2>8 DEF LifeStep
<1>3. ASSUME Exists(h)
      PROVE  LifeStep(Life(h), Life(g))
  <2> DEFINE vol == Latest(h)
  <2>1. /\ Len(h) > 0
        /\ vol \in Version
        /\ WellFormed(vol)
        /\ vol.gone = FALSE
    <3>1. Len(h) > 0 /\ ~ vol.gone
      BY <1>3 DEF Exists
    <3>2. vol \in Version /\ WellFormed(vol)
      <4>1. Len(h) \in 1..Len(h)
        BY <1>1, <3>1
      <4>2. QED
        BY <1>1, <4>1, LatestIsNewest
    <3>3. QED
      BY <3>1, <3>2 DEF Version
  <2>2. Life(h) = LifeOf(vol)
    BY <2>1, LifeOfLatest
  <2>3. SUFFICES \E new \in Version : /\ Len(g) > 0 /\ Latest(g) = new
                                      /\ LifeStep(LifeOf(vol), LifeOf(new))
    BY <2>2, LifeOfLatest
  <2>4. vol = Latest(h)
    OBVIOUS
  <2> HIDE DEF vol
  <2>5. CASE g = Deleted(h)
    <3> DEFINE new == [vol EXCEPT !.del = TRUE]
    <3>1. /\ new \in Version
          /\ new.uid = vol.uid /\ new.owner = vol.owner /\ new.cap = vol.cap
          /\ new.vg = vol.vg /\ new.node = vol.node
          /\ new.gone = vol.gone /\ new.del = TRUE
      BY <2>1, ZenonT(30) DEF Version
    <3>2. g = IF vol.del THEN h ELSE Append(h, new)
      BY <2>4, <2>5 DEF Deleted
    <3> HIDE DEF new
    <3>3. CASE vol.del
      <4>1. Len(g) > 0 /\ Latest(g) = vol
        BY <2>1, <2>4, <3>2, <3>3
      <4>2. LifeStep(LifeOf(vol), LifeOf(vol))
        BY ZenonT(30) DEF LifeStep
      <4>3. QED
        BY <2>1, <4>1, <4>2
    <3>4. CASE ~ vol.del
      <4>1. Len(g) > 0 /\ Latest(g) = new
        BY <3>1, <3>2, <3>4 DEF Latest
      <4>2. LifeStep(LifeOf(vol), LifeOf(new))
        BY <2>1, <3>1, <3>4, VersionStep
      <4>3. QED
        BY <3>1, <4>1, <4>2
    <3>5. QED
      BY <3>3, <3>4
  <2>6. CASE vol.del /\ g = Append(h, [vol EXCEPT !.gone = TRUE])
    <3> DEFINE new == [vol EXCEPT !.gone = TRUE]
    <3>1. /\ new \in Version
          /\ new.uid = vol.uid /\ new.owner = vol.owner /\ new.cap = vol.cap
          /\ new.vg = vol.vg /\ new.node = vol.node /\ new.gone
      BY <2>1, ZenonT(30) DEF Version
    <3>2. g = Append(h, new)
      BY <2>6
    <3> HIDE DEF new
    <3>3. Len(g) > 0 /\ Latest(g) = new
      BY <3>1, <3>2 DEF Latest
    <3>4. LifeStep(LifeOf(vol), LifeOf(new))
      BY <2>1, <2>6, <3>1, VersionStep, ZenonT(30)
    <3>5. QED
      BY <3>1, <3>3, <3>4
  <2>7. ASSUME vol.state = "Pending", ~ vol.del, NEW vg \in VGs,
               g = Updated(h, WithVolGroup(vol, vg))
        PROVE  \E new \in Version : /\ Len(g) > 0 /\ Latest(g) = new
                                    /\ LifeStep(LifeOf(vol), LifeOf(new))
    <3> DEFINE new == WithVolGroup(vol, vg)
    <3>1. /\ new \in Version
          /\ new.uid = vol.uid /\ new.owner = vol.owner /\ new.cap = vol.cap
          /\ new.vg = vg /\ new.node = vol.node /\ new.state = vol.state
          /\ new.gone = vol.gone /\ new.del = vol.del
      BY <2>1, ZenonT(30) DEF Version, WithVolGroup
    <3>2. Stored(new) = new
      BY <2>1, <2>7, VolGroupVersion
    <3>3. g = Updated(h, new)
      BY <2>7
    <3> HIDE DEF new
    <3>4. Len(g) > 0 /\ Latest(g) = new
      BY <2>1, <3>1, <3>2, <3>3, LatestUpdated
    <3>5. LifeStep(LifeOf(vol), LifeOf(new))
      BY <2>1, <2>7, <3>1, VersionStep
    <3>6. QED
      BY <3>1, <3>4, <3>5
  <2>8. ASSUME vol.state = "Pending", ~ vol.del, NEW n \in Nodes,
               NEW state \in {"Ready", "Failed"}, state = "Ready" => vol.vg \in VGs,
               g = Updated(h, WithVolInfo(vol, state, n))
        PROVE  \E new \in Version : /\ Len(g) > 0 /\ Latest(g) = new
                                    /\ LifeStep(LifeOf(vol), LifeOf(new))
    <3> DEFINE new == WithVolInfo(vol, state, n)
    <3>1. /\ new \in Version
          /\ new.uid = vol.uid /\ new.owner = vol.owner /\ new.cap = vol.cap
          /\ new.vg = vol.vg /\ new.node = n /\ new.state = state
          /\ new.gone = vol.gone /\ new.del = vol.del
      BY <2>1, ZenonT(30) DEF Version, WithVolInfo
    <3>2. Stored(new) = new
      BY <2>1, <2>8, VolInfoVersion
    <3>3. g = Updated(h, new)
      BY <2>8
    <3> HIDE DEF new
    <3>4. Len(g) > 0 /\ Latest(g) = new
      BY <2>1, <3>1, <3>2, <3>3, LatestUpdated
    <3>5. LifeStep(LifeOf(vol), LifeOf(new))
      BY <2>1, <2>8, <3>1, VersionStep
    <3>6. QED
      BY <3>1, <3>4, <3>5
  <2>9. CASE vol.del /\ g = Updated(h, WithoutFinalizer(vol))
    <3> DEFINE upd == WithoutFinalizer(vol)
               new == Stored(upd)
    <3>1. new = Stored(upd) /\ upd = WithoutFinalizer(vol)
      OBVIOUS
    <3> HIDE DEF upd, new
    <3>2. /\ new \in Version
          /\ new.uid = vol.uid /\ new.vg = vol.vg /\ new.owner = vol.owner
          /\ new.node = vol.node /\ new.gone
      BY <2>1, <2>9, <3>1, UnfinalizedVersion
    <3>3. upd \in Version /\ upd.cap = vol.cap
      BY <2>1, <3>1, ZenonT(30) DEF WithoutFinalizer, Version
    <3>4. new.cap = vol.cap
      BY <3>1, <3>3, ZenonT(30) DEF Stored, Version
    <3>5. Len(g) > 0 /\ Latest(g) = new
      BY <2>1, <2>9, <3>1, <3>2, LatestUpdated
    <3>6. LifeStep(LifeOf(vol), LifeOf(new))
      BY <2>1, <2>9, <3>2, <3>4, VersionStep, ZenonT(30)
    <3>7. QED
      BY <3>2, <3>5, <3>6
  <2>10. QED
    BY <1>3, <2>4, <2>5, <2>6, <2>7, <2>8, <2>9, ZenonT(30) DEF Change
<1>4. QED
  BY <1>2, <1>3 DEF Change

\* Each step of the system is a step of the contract or a stutter.
LEMMA ContractStep ==
    ASSUME Inv, [Next]_vars
    PROVE  [Contract!Next]_Lives
<1>1. crs \in [Volumes -> Seq(Version)]
  BY DEF Inv, TypeOK
<1>2. CASE crs' = crs
  BY <1>2 DEF Lives
<1>3. ASSUME NEW v \in Volumes, NEW g \in Seq(Version),
             Change(crs[v], g), crs' = [crs EXCEPT ![v] = g]
      PROVE  [Contract!Next]_Lives
  <2>1. LifeStep(Life(crs[v]), Life(g))
    <3>1. HistoryOK(crs[v])
      BY ZenonT(30) DEF Inv
    <3>2. QED
      BY <1>1, <1>3, <3>1, ChangeLife
  <2>2. Lives[v] = Life(crs[v])
    BY DEF Lives
  <2>3. Lives' = [Lives EXCEPT ![v] = Life(g)]
    <3>1. \A w \in Volumes : crs'[w] = IF w = v THEN g ELSE crs[w]
      BY <1>1, <1>3
    <3>2. Lives' = [w \in Volumes |-> Life(crs'[w])]
      BY DEF Lives, Life, Latest
    <3>3. QED
      BY <3>1, <3>2, ZenonT(30) DEF Lives
  <2>4. CASE Life(g) = Life(crs[v])
    BY <2>2, <2>3, <2>4, ZenonT(30) DEF Lives
  <2>5. CASE Life(g) # Life(crs[v])
    <3>1. Contract!Create(v) \/ Contract!ChooseVG(v) \/ Contract!Provision(v)
            \/ Contract!Fail(v) \/ Contract!MarkDeleted(v) \/ Contract!Remove(v)
      BY <2>1, <2>2, <2>3, <2>5, ZenonT(30)
         DEF LifeStep, Contract!Create, Contract!ChooseVG, Contract!Provision,
             Contract!Fail, Contract!MarkDeleted, Contract!Remove,
             Contract!Step
    <3>2. QED
      BY <3>1 DEF Contract!Next
  <2>6. QED
    BY <2>4, <2>5
<1>4. QED
  BY <1>2, <1>3, NextChange

\* The controller and the agents together keep the contract: where a volume
\* is to live, how big it is and, once it is Ready, where it is do not change,
\* Ready and Failed are final, and a Ready volume is not removed unmarked.
THEOREM Refinement == Spec => KeepsContract
<1>1. Init => Contract!Init
  <2>1. SUFFICES ASSUME Init
                 PROVE  Contract!Init
    OBVIOUS
  <2>2. \A v \in Volumes : crs[v] = <<>>
    BY <2>1, ZenonT(30) DEF Init, ControllerInit
  <2>3. Len(<<>>) = 0
    OBVIOUS
  <2>4. QED
    BY <2>2, <2>3 DEF Contract!Init, Lives, Life
<1>2. Inv /\ [Next]_vars => [Contract!Next]_Lives
  BY ContractStep
<1>3. QED
  BY <1>1, <1>2, Invariance, PTL DEF Spec, KeepsContract, Contract!Spec

-----------------------------------------------------------------------------
\* One volume group per volume: crashes, all steps, and the theorem.

\* An agent that comes up again has the last version in its cache, the logical
\* volumes as they were, and no worker.
LEMMA StrayCrash ==
    ASSUME Inv, NEW n \in Nodes, NEW v \in Volumes, StrayOK(v), Crash(n)
    PROVE  StrayOK(v)'
<1>1. /\ pos \in [Nodes -> [Volumes -> Nat]]
      /\ queue \in [Nodes -> SUBSET Volumes]
      /\ delayed \in [Nodes -> SUBSET Volumes]
      /\ sync \in [Nodes -> [Volumes -> Sync]]
  BY ZenonT(30) DEF Inv, TypeOK
<1>2. crs' = crs /\ lvs' = lvs
  BY ZenonT(30) DEF Crash
<1>3. CASE FirstLife(v) => Latest(crs[v]).owner # n
  <2>1. \A m \in Nodes : m # n => SameTokens(m, v)
    BY <1>1, ZenonT(30) DEF Crash, SameTokens
  <2>2. FirstLife(v) => Latest(crs[v]).owner \in Nodes
    BY FirstLifeFacts, ZenonT(30)
  <2>3. QED
    BY <1>2, <1>3, <2>1, <2>2, StrayStable, ZenonT(30)
<1>4. CASE FirstLife(v) /\ Latest(crs[v]).owner = n
  <2>1. /\ pos'[n][v] = Len(crs[v]) /\ v \notin delayed'[n]
        /\ sync'[n][v].pc = "idle"
    BY <1>1, ZenonT(30) DEF Crash, Idle
  <2>2. /\ Latest(crs[v])' = Latest(crs[v])
        /\ Len(crs'[v]) = Len(crs[v]) /\ FirstLife(v)' = FirstLife(v)
        /\ InPlace(v) => InPlace(v)'
        /\ Cached(n, v)' = Latest(crs[v])
    BY <1>2, <2>1, ZenonT(30) DEF Latest, Exists, FirstLife, InPlace, Cached
  <2>3. Len(crs[v]) # 0 /\ pos'[n][v] # 0 /\ pos'[n][v] >= 1
    <3>1. Len(crs[v]) \in Nat /\ Len(crs[v]) >= 1
      BY <1>4, FirstLifeFacts, ZenonT(30)
    <3>2. Len(crs[v]) # 0
      BY <3>1, Indices, ZenonT(30)
    <3>3. QED
      BY <2>1, <3>1, <3>2, ZenonT(30)
  <2>4. ~ Busy(n, v)'
    BY <2>1, ZenonT(30) DEF Busy
  <2>5. ProvisionOK(v) => ProvisionOK(v)'
    BY <1>4, <2>1, <2>2, <2>3, <2>4, ZenonT(30) DEF ProvisionOK
  <2>6. Latest(crs[v]).state = "Ready" /\ ProvisionedOK(v) => ProvisionedOK(v)'
    BY <1>4, <2>2, <2>3, <2>4, ZenonT(30) DEF ProvisionedOK
  <2>7. QED
    BY <2>2, <2>3, <2>5, <2>6, ZenonT(30) DEF StrayOK
<1>5. QED
  BY <1>3, <1>4, ZenonT(30)

\* A step of agent n for v touches nothing else: not what it keeps for other
\* volumes, and nothing of other agents.
LEMMA AgentFrame ==
    ASSUME Inv, NEW n \in Nodes, NEW v \in Volumes, AgentNext(n, v)
    PROVE  /\ \A w \in Volumes : w # v => crs'[w] = crs[w]
           /\ crs' = crs \/ \E g : Change(crs[v], g) /\ crs'[v] = g
           /\ \A m \in Nodes, w \in Volumes : m # n \/ w # v =>
                 /\ SameTokens(m, w)
                 /\ \A vg \in VGs : <<vg, w>> \in lvs'[m] => <<vg, w>> \in lvs[m]
<1>1. /\ crs \in [Volumes -> Seq(Version)]
      /\ pos \in [Nodes -> [Volumes -> Nat]]
      /\ queue \in [Nodes -> SUBSET Volumes]
      /\ delayed \in [Nodes -> SUBSET Volumes]
      /\ sync \in [Nodes -> [Volumes -> Sync]]
      /\ lvs \in [Nodes -> SUBSET (VGs \X Volumes)]
  BY ZenonT(30) DEF Inv, TypeOK
<1>2. \/ crs' = crs
      \/ \E g : Change(crs[v], g) /\ crs' = [crs EXCEPT ![v] = g]
  <2>1. CASE SyncVol(n, v)
    BY <2>1, WorkerChange, ZenonT(30)
  <2>2. CASE ~ SyncVol(n, v)
    BY <2>2, ZenonT(30)
       DEF AgentNext, Deliver, Relist, Resync, AddAfterDelay, StartSync
  <2>3. QED
    BY <2>1, <2>2, ZenonT(30)
<1>3. pos' = pos \/ \E p : pos' = [pos EXCEPT ![n][v] = p]
  BY ZenonT(30)
     DEF AgentNext, Deliver, Relist, Resync, AddAfterDelay, StartSync, SyncVol,
         RetryVolGroup, GetVgPriorityList, UpdateVolGroup, CreateVolumeInVG,
         MarkReady, MarkFailed, UpdateVolInfo, DestroyVolume, RemoveVolFinalizer
<1>4. \/ queue' = queue
      \/ queue' = [queue EXCEPT ![n] = @ \cup {v}]
      \/ queue' = [queue EXCEPT ![n] = @ \ {v}]
  BY ZenonT(30)
     DEF AgentNext, Deliver, Relist, Resync, AddAfterDelay, StartSync, SyncVol,
         RetryVolGroup, GetVgPriorityList, UpdateVolGroup, CreateVolumeInVG,
         MarkReady, MarkFailed, UpdateVolInfo, DestroyVolume, RemoveVolFinalizer,
         Enqueue
<1>5. /\ sync' = sync \/ \E s : sync' = [sync EXCEPT ![n][v] = s]
      /\ \/ delayed' = delayed
         \/ delayed' = [delayed EXCEPT ![n] = @ \cup {v}]
         \/ delayed' = [delayed EXCEPT ![n] = @ \ {v}]
  <2>1. ASSUME NEW vol, NEW next, Update(n, v, vol, next)
        PROVE  /\ \E s : sync' = [sync EXCEPT ![n][v] = s]
               /\ \/ delayed' = delayed
                  \/ delayed' = [delayed EXCEPT ![n] = @ \cup {v}]
    BY <2>1, ZenonT(30) DEF Update, Requeue
  <2>2. CASE /\ ~ UpdateVolGroup(n, v) /\ ~ MarkReady(n, v)
             /\ ~ MarkFailed(n, v) /\ ~ RemoveVolFinalizer(n, v)
    BY <2>2, ZenonT(30)
       DEF AgentNext, Deliver, Relist, Resync, AddAfterDelay, StartSync, SyncVol,
           RetryVolGroup, GetVgPriorityList, CreateVolumeInVG, CreateLV,
           DestroyVolume, Proceed, Requeue
  <2>3. CASE UpdateVolGroup(n, v) \/ RemoveVolFinalizer(n, v)
    BY <2>1, <2>3, ZenonT(30) DEF UpdateVolGroup, RemoveVolFinalizer
  <2>4. CASE MarkReady(n, v) \/ MarkFailed(n, v)
    BY <2>1, <2>4, ZenonT(30) DEF MarkReady, MarkFailed, UpdateVolInfo
  <2>5. QED
    BY <2>2, <2>3, <2>4, ZenonT(30)
<1>6. \/ lvs' = lvs
      \/ lvs' = [lvs EXCEPT ![n] = @ \cup {<<Copy(n, v).vg, v>>}]
      \/ lvs' = [lvs EXCEPT ![n] = @ \ {<<Copy(n, v).vg, v>>}]
  BY ZenonT(30)
     DEF AgentNext, Deliver, Relist, Resync, AddAfterDelay, StartSync, SyncVol,
         RetryVolGroup, GetVgPriorityList, UpdateVolGroup, CreateVolumeInVG,
         MarkReady, MarkFailed, UpdateVolInfo, DestroyVolume, RemoveVolFinalizer,
         CreateLV
<1>7. ASSUME NEW m \in Nodes, NEW w \in Volumes, m # n \/ w # v
      PROVE  /\ SameTokens(m, w)
             /\ \A vg \in VGs : <<vg, w>> \in lvs'[m] => <<vg, w>> \in lvs[m]
  <2>1. pos'[m][w] = pos[m][w] /\ sync'[m][w] = sync[m][w]
    BY <1>1, <1>3, <1>5, <1>7
  <2>2. /\ w \in queue'[m] <=> w \in queue[m]
        /\ w \in delayed'[m] <=> w \in delayed[m]
    BY <1>1, <1>4, <1>5, <1>7
  <2>3. \A vg \in VGs : <<vg, w>> \in lvs'[m] => <<vg, w>> \in lvs[m]
    BY <1>1, <1>6, <1>7
  <2>4. QED
    BY <2>1, <2>2, <2>3, ZenonT(30) DEF SameTokens
<1>8. QED
  BY <1>1, <1>2, <1>7, ZenonT(30)

\* Only an agent that has a key or a worker for a volume takes such steps.
LEMMA NoWork ==
    ASSUME NEW n \in Nodes, NEW v \in Volumes, ~ Waits(n, v), ~ Busy(n, v)
    PROVE  ~ AddAfterDelay(n, v) /\ ~ StartSync(n, v) /\ ~ SyncVol(n, v)
<1>1. sync[n][v].pc = "idle" /\ v \notin queue[n] /\ v \notin delayed[n]
  BY ZenonT(30) DEF Waits, Busy
<1>2. ~ SyncVol(n, v)
  BY <1>1, ZenonT(30)
     DEF SyncVol, RetryVolGroup, GetVgPriorityList, UpdateVolGroup,
         CreateVolumeInVG, MarkReady, MarkFailed, DestroyVolume,
         RemoveVolFinalizer
<1>3. QED
  BY <1>1, <1>2, ZenonT(30) DEF AddAfterDelay, StartSync

\* The steps of the owner's agent for a volume in its first life.
LEMMA StrayOwner ==
    ASSUME Inv, NEW n \in Nodes, NEW v \in Volumes, StrayOK(v),
           FirstLife(v), n = Latest(crs[v]).owner, AgentNext(n, v),
           "api" \notin FaultKinds, "stat" \notin FaultKinds
    PROVE  StrayOK(v)'
<1>1. /\ crs[v] \in Seq(Version) /\ Len(crs[v]) \in Nat
      /\ pos \in [Nodes -> [Volumes -> Nat]] /\ pos[n][v] \in Nat
  BY DEF Inv, TypeOK
<1>2. CASE Deliver(n, v)
  <2>1. PICK p : p = pos[n][v] + 1
    BY ZenonT(30)
  <2>2. p \in 1..Len(crs[v]) /\ pos[n][v] < p /\ pos'[n][v] = p
    <3>1. pos[n][v] < Len(crs[v]) /\ pos' = [pos EXCEPT ![n][v] = p]
      BY <1>2, <2>1, ZenonT(30) DEF Deliver
    <3>2. p \in 1..Len(crs[v]) /\ pos[n][v] < p
      BY <1>1, <2>1, <3>1, Successors, ZenonT(30)
    <3>3. QED
      BY <1>1, <3>1, <3>2, ZenonT(30)
  <2>3. \/ queue' = queue
        \/ /\ queue' = [queue EXCEPT ![n] = @ \cup {v}]
           /\ InCache(n, v) /\ ~ crs[v][p].gone => crs[v][p].del
    <3>1. PICK wanted : /\ Enqueue(n, v, wanted)
                        /\ wanted /\ InCache(n, v) /\ ~ crs[v][p].gone =>
                              crs[v][p].del
      BY <1>2, <2>1, ZenonT(30) DEF Deliver, updateVol
    <3>2. QED
      BY <3>1, ZenonT(30) DEF Enqueue
  <2>4. UNCHANGED <<crs, delayed, sync, lvs>>
    BY <1>2, ZenonT(30) DEF Deliver
  <2>5. QED
    BY <2>2, <2>3, <2>4, StrayCache, ZenonT(30)
<1>3. CASE Relist(n, v)
  <2>1. PICK p : p = Len(crs[v])
    BY ZenonT(30)
  <2>2. p \in 1..Len(crs[v]) /\ pos[n][v] < p /\ pos'[n][v] = p
    <3>1. pos[n][v] < Len(crs[v]) /\ pos' = [pos EXCEPT ![n][v] = p]
      BY <1>3, <2>1, ZenonT(30) DEF Relist
    <3>2. p \in 1..Len(crs[v])
      BY <1>1, <2>1, FirstLifeAgent, ZenonT(30)
    <3>3. QED
      BY <1>1, <2>1, <3>1, <3>2, ZenonT(30)
  <2>3. \/ queue' = queue
        \/ /\ queue' = [queue EXCEPT ![n] = @ \cup {v}]
           /\ InCache(n, v) /\ ~ crs[v][p].gone => crs[v][p].del
    BY <1>3, <2>1, ZenonT(30) DEF Relist, Enqueue, updateVol, Latest
  <2>4. UNCHANGED <<crs, delayed, sync, lvs>>
    BY <1>3, ZenonT(30) DEF Relist
  <2>5. QED
    BY <2>2, <2>3, <2>4, StrayCache, ZenonT(30)
<1>4. CASE RetryVolGroup(n, v)
  BY <1>4, StrayCreate, ZenonT(30) DEF RetryVolGroup
<1>5. CASE CreateVolumeInVG(n, v)
  <2>1. PICK pc \in {"setVG", "failed"} : CreateLV(n, v, pc)
    BY <1>5, ZenonT(30) DEF CreateVolumeInVG
  <2>2. sync[n][v].pc = "create" /\ UNCHANGED <<crs, pos, queue, delayed>>
    BY <1>5, ZenonT(30) DEF CreateVolumeInVG
  <2>3. QED
    BY <2>1, <2>2, StrayCreate, ZenonT(30)
<1>6. QED
  BY <1>2, <1>3, <1>4, <1>5, StrayQueue, StrayStart, StrayList, StraySetVG,
     StrayMark, StrayDestroy, ZenonT(30)
     DEF AgentNext, SyncVol

\* The steps of an agent preserve it.
LEMMA StrayAgent ==
    ASSUME Inv, Inv', NEW n \in Nodes, NEW v \in Volumes, AgentNext(n, v),
           StrayInv, "api" \notin FaultKinds, "stat" \notin FaultKinds
    PROVE  StrayInv'
<1>1. \A w \in Volumes : StrayOK(w)
  BY ZenonT(30) DEF StrayInv
<1>2. ASSUME NEW w \in Volumes, w # v
      PROVE  StrayOK(w)'
  <2>1. /\ crs'[w] = crs[w]
        /\ \A m \in Nodes : SameTokens(m, w)
        /\ \A m \in Nodes, vg \in VGs :
              <<vg, w>> \in lvs'[m] => <<vg, w>> \in lvs[m]
    BY <1>2, AgentFrame, ZenonT(30)
  <2>2. FirstLife(w) => Latest(crs[w]).owner \in Nodes
    BY FirstLifeFacts, ZenonT(30)
  <2>3. QED
    BY <1>1, <2>1, <2>2, StrayStable, ZenonT(30)
<1>3. SUFFICES StrayOK(v)'
  BY <1>2, ZenonT(30) DEF StrayInv
<1>4. /\ crs[v] \in Seq(Version) /\ Len(crs[v]) \in Nat
      /\ crs'[v] \in Seq(Version) /\ HistoryOK(crs'[v])
  BY DEF Inv, TypeOK
<1>5. CASE Len(crs[v]) = 0
  <2>1. pos[n][v] = 0 /\ ~ Waits(n, v) /\ ~ Busy(n, v)
    BY <1>5, UnusedName, ZenonT(30)
  <2>2. ~ Deliver(n, v) /\ ~ Relist(n, v) /\ ~ Resync(n, v)
    BY <1>5, <2>1 DEF Deliver, Relist, Resync, InCache
  <2>3. QED
    BY <2>1, <2>2, NoWork, ZenonT(30) DEF AgentNext
<1>6. CASE Len(crs[v]) > 0 /\ ~ FirstLife(v)
  <2>1. crs'[v] = crs[v] \/ \E new : crs'[v] = Append(crs[v], new)
    <3>1. \A g : Change(crs[v], g) => g = crs[v] \/ \E new : g = Append(crs[v], new)
      BY ZenonT(30) DEF Change, Created, Deleted, Updated
    <3>2. QED
      BY <3>1, AgentFrame, ZenonT(30)
  <2>2. Len(crs[v]) > 0 /\ FirstLife(v)' => FirstLife(v)
    BY <1>4, <2>1, FirstLifeBefore, ZenonT(30) DEF FirstLife, Exists, Latest
  <2>3. Len(crs'[v]) # 0
    BY <1>4, <1>6, <2>1
  <2>4. QED
    BY <1>6, <2>2, <2>3, ZenonT(30) DEF StrayOK
<1>7. CASE FirstLife(v) /\ n # Latest(crs[v]).owner
  <2>1. ~ Waits(n, v) /\ ~ Busy(n, v) /\ Latest(crs[v]).owner \in Nodes
    BY <1>7, FirstLifeFacts, ZenonT(30)
  <2>2. crs' = crs /\ lvs' = lvs
    BY <2>1, NoWork, ZenonT(30) DEF AgentNext, Deliver, Relist, Resync
  <2>3. SameTokens(Latest(crs[v]).owner, v)
    BY <1>7, <2>1, AgentFrame, ZenonT(30)
  <2>4. QED
    BY <1>1, <2>2, <2>3, StrayStable, ZenonT(30)
<1>8. CASE FirstLife(v) /\ n = Latest(crs[v]).owner
  BY <1>1, <1>8, StrayOwner, ZenonT(30)
<1>9. Len(crs[v]) = 0 \/ Len(crs[v]) > 0
  BY <1>4
<1>10. QED
  BY <1>5, <1>6, <1>7, <1>8, <1>9, ZenonT(30)

\* Every step preserves it, if no API call and no stat of a device returns an
\* error.
LEMMA StrayStep ==
    ASSUME "api" \notin FaultKinds, "stat" \notin FaultKinds
    PROVE  Inv /\ Inv' /\ StrayInv /\ [Next]_vars => StrayInv'
<1>1. SUFFICES ASSUME Inv, Inv', StrayInv, [Next]_vars
               PROVE  StrayInv'
  BY ZenonT(30)
<1>2. \A w \in Volumes : StrayOK(w)
  BY <1>1, ZenonT(30) DEF StrayInv
<1>3. ASSUME NEW v \in Volumes, UNCHANGED agentVars,
             \A w \in Volumes : w # v => crs'[w] = crs[w],
             StrayOK(v)'
      PROVE  StrayInv'
  <2>1. \A m \in Nodes, w \in Volumes :
          /\ SameTokens(m, w)
          /\ \A vg \in VGs : <<vg, w>> \in lvs'[m] => <<vg, w>> \in lvs[m]
    BY <1>3, ZenonT(30) DEF agentVars, SameTokens
  <2>2. \A w \in Volumes : FirstLife(w) => Latest(crs[w]).owner \in Nodes
    BY <1>1, FirstLifeFacts, ZenonT(30)
  <2>3. QED
    BY <1>2, <1>3, <2>1, <2>2, StrayStable, ZenonT(30) DEF StrayInv
<1>4. CASE crs' = crs /\ UNCHANGED agentVars
  <2>1. \A m \in Nodes, w \in Volumes :
          /\ SameTokens(m, w)
          /\ \A vg \in VGs : <<vg, w>> \in lvs'[m] => <<vg, w>> \in lvs[m]
    BY <1>4, ZenonT(30) DEF agentVars, SameTokens
  <2>2. \A w \in Volumes : FirstLife(w) => Latest(crs[w]).owner \in Nodes
    BY <1>1, FirstLifeFacts, ZenonT(30)
  <2>3. QED
    BY <1>2, <1>4, <2>1, <2>2, StrayStable, ZenonT(30) DEF StrayInv
<1>5. ASSUME NEW v \in Volumes, NEW c \in Calls,
             ControllerNext(v, c), UNCHANGED agentVars
      PROVE  StrayInv'
  <2>1. crs \in [Volumes -> Seq(Version)]
    BY <1>1, ZenonT(30) DEF Inv, TypeOK
  <2>2. CASE /\ ~ Exists(crs[v])
             /\ \E owner \in Nodes, cap \in Capacities :
                   crs' = [crs EXCEPT ![v] = Created(crs[v], owner, cap)]
    <3>1. /\ \E owner \in Nodes, cap \in Capacities :
                crs'[v] = Created(crs[v], owner, cap)
          /\ \A w \in Volumes : w # v => crs'[w] = crs[w]
      BY <2>1, <2>2, ZenonT(30)
    <3>2. StrayOK(v)'
      BY <1>1, <1>2, <1>5, <2>2, <3>1, StrayResource, ZenonT(30)
    <3>3. QED
      BY <1>3, <1>5, <3>1, <3>2, ZenonT(30)
  <2>3. CASE Exists(crs[v]) /\ crs' = [crs EXCEPT ![v] = Deleted(crs[v])]
    <3>1. /\ crs'[v] = Deleted(crs[v])
          /\ \A w \in Volumes : w # v => crs'[w] = crs[w]
      BY <2>1, <2>3, ZenonT(30)
    <3>2. StrayOK(v)'
      BY <1>1, <1>2, <1>5, <2>3, <3>1, StrayResource, ZenonT(30)
    <3>3. QED
      BY <1>3, <1>5, <3>1, <3>2, ZenonT(30)
  <2>4. QED
    BY <1>1, <1>4, <1>5, <2>2, <2>3, ControllerEffect, ZenonT(30)
<1>6. ASSUME NEW v \in Volumes, GarbageCollect(v),
             UNCHANGED <<calls, agentVars>>
      PROVE  StrayInv'
  <2>1. crs \in [Volumes -> Seq(Version)] /\ UNCHANGED agentVars
    BY <1>1, <1>6, ZenonT(30) DEF Inv, TypeOK
  <2> DEFINE g == Append(crs[v], [Latest(crs[v]) EXCEPT !.gone = TRUE])
  <2>2. Exists(crs[v]) /\ crs' = [crs EXCEPT ![v] = g]
    BY <1>6, ZenonT(30) DEF GarbageCollect
  <2>3. g = Append(crs[v], [Latest(crs[v]) EXCEPT !.gone = TRUE])
    BY ZenonT(30)
  <2> HIDE DEF g
  <2>4. crs'[v] = g /\ \A w \in Volumes : w # v => crs'[w] = crs[w]
    BY <2>1, <2>2, ZenonT(30)
  <2>5. StrayOK(v)'
    BY <1>1, <1>2, <2>1, <2>2, <2>3, <2>4, StrayResource, ZenonT(30)
  <2>6. QED
    BY <1>3, <2>1, <2>4, <2>5, ZenonT(30)
<1>7. ASSUME NEW n \in Nodes, Crash(n)
      PROVE  StrayInv'
  BY <1>1, <1>2, <1>7, StrayCrash, ZenonT(30) DEF StrayInv
<1>8. ASSUME NEW n \in Nodes, NEW v \in Volumes, AgentNext(n, v)
      PROVE  StrayInv'
  BY <1>1, <1>8, StrayAgent, ZenonT(30)
<1>9. CASE UNCHANGED vars
  BY <1>4, <1>9, ZenonT(30) DEF vars, agentVars
<1>10. QED
  BY <1>1, <1>5, <1>6, <1>7, <1>8, <1>9, ZenonT(30) DEF Next

\* In its first life a Ready volume has one logical volume, in the group that
\* its resource names, whatever requests, crashes, failed LVM commands and
\* missed events there are, as long as no API call and no stat of a device
\* returns an error.
THEOREM NoStrayLVAlways ==
    ASSUME "api" \notin FaultKinds, "stat" \notin FaultKinds
    PROVE  Spec => []NoStrayLV
<1>1. Init => StrayInv
  <2>1. SUFFICES ASSUME Init, NEW v \in Volumes
                 PROVE  StrayOK(v)
    BY ZenonT(30) DEF StrayInv
  <2>2. \A m \in Nodes, vg \in VGs : <<vg, v>> \notin lvs[m]
    BY <2>1, ZenonT(30) DEF Init, AgentInit
  <2>3. ~ FirstLife(v)
    BY <2>1 DEF Init, ControllerInit, FirstLife, Exists
  <2>4. QED
    BY <2>2, <2>3, ZenonT(30) DEF StrayOK
<1>2. StrayInv => NoStrayLV
  <2>1. SUFFICES ASSUME StrayInv, NEW n \in Nodes, NEW v \in Volumes,
                        NEW vg \in VGs, Ready(v), Latest(crs[v]).uid = 1,
                        <<vg, v>> \in lvs[n]
                 PROVE  Latest(crs[v]).vg = vg
    BY ZenonT(30) DEF NoStrayLV
  <2>2. InPlace(v)
    BY <2>1, ZenonT(30) DEF StrayInv, StrayOK, FirstLife, Ready, ProvisionedOK
  <2>3. QED
    BY <2>1, <2>2, ZenonT(30) DEF InPlace
<1>3. Inv /\ Inv' /\ StrayInv /\ [Next]_vars => StrayInv'
  BY StrayStep, ZenonT(30)
<1>4. QED
  BY <1>1, <1>2, <1>3, Invariance, PTL DEF Spec
=============================================================================
