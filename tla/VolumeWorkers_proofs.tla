------------------------ MODULE VolumeWorkers_proofs ------------------------
(***************************************************************************)
(* The steps of the workqueues and of the workers, which run syncVol,      *)
(* preserve the invariants.                                                *)
(***************************************************************************)
EXTENDS VolumeHistory_proofs

\* A leaf that names no prover is for SMT, in two tries.
USE SMTT(30), SMTT(60)

\* A step of agent n for v that changes neither the resources nor the cache:
\* the worker of v takes the cached version or goes on with its copy, and may
\* create or destroy the logical volume of its copy.
LEMMA WorkStep ==
    ASSUME Inv, NEW n \in Nodes, NEW v \in Volumes, NEW s \in Sync,
           UNCHANGED <<crs, calls, pos>>, faults' \in Nat,
           sync' = [sync EXCEPT ![n][v] = s],
           s.pc # "idle" => \/ Busy(n, v) /\ s.rv = sync[n][v].rv
                            \/ pos[n][v] >= 1 /\ s.rv = pos[n][v],
           queue' \in [Nodes -> SUBSET Volumes],
           delayed' \in [Nodes -> SUBSET Volumes],
           \A m \in Nodes, w \in Volumes :
               m # n \/ w # v => /\ w \in queue'[m] => w \in queue[m]
                                 /\ w \in delayed'[m] => w \in delayed[m],
           \E i \in 1..Len(crs[v]) : crs[v][i].owner = n,
           \/ lvs' = lvs
           \/ /\ Busy(n, v) /\ Copy(n, v).state = "Pending"
              /\ ~ Copy(n, v).del /\ Copy(n, v).vg \in VGs
              /\ lvs' = [lvs EXCEPT ![n] = @ \cup {<<Copy(n, v).vg, v>>}]
           \/ /\ Busy(n, v) /\ Copy(n, v).del
              /\ lvs' = [lvs EXCEPT ![n] = @ \ {<<Copy(n, v).vg, v>>}],
           WorkerOK(n, v)'
    PROVE  Inv'
<1>1. /\ crs[v] \in Seq(Version)
      /\ HistoryOK(crs[v])
      /\ pos[n][v] \in Nat
      /\ pos[n][v] <= Len(crs[v])
      /\ sync \in [Nodes -> [Volumes -> Sync]]
      /\ lvs \in [Nodes -> SUBSET (VGs \X Volumes)]
      /\ ReadyOK(v) /\ OwnerOK(v) /\ RemovedOK(v) /\ WorkerOK(n, v)
  BY DEF Inv, TypeOK
<1>2. /\ sync'[n][v] = s
      /\ \A m \in Nodes, w \in Volumes :
            m # n \/ w # v => sync'[m][w] = sync[m][w]
  BY <1>1
<1>3. \A m \in Nodes, w \in Volumes : m # n \/ w # v => SameAgent(m, w)
  <2>1. ASSUME NEW m \in Nodes, NEW w \in Volumes, m # n \/ w # v,
               NEW vg \in VGs
        PROVE  <<vg, w>> \in lvs'[m] <=> <<vg, w>> \in lvs[m]
    BY <1>1, <2>1
  <2>2. QED
    BY <1>2, <2>1 DEF SameAgent
<1>4. TypeOK'
  <2>1. sync' \in [Nodes -> [Volumes -> Sync]]
    BY <1>1, ZenonT(30)
  <2>2. lvs' \in [Nodes -> SUBSET (VGs \X Volumes)]
    BY <1>1
  <2>3. QED
    BY <2>1, <2>2, ZenonT(30) DEF Inv, TypeOK
<1>5. \A w \in Volumes : HistoryOK(crs'[w]) /\ Grows(crs[w], crs'[w])
  BY ZenonT(30) DEF Inv, Grows
<1>6. \A m \in Nodes, w \in Volumes : pos'[m][w] <= Len(crs'[w])
  BY ZenonT(30) DEF Inv
<1>7. \A m \in Nodes, w \in Volumes : WorkerOK(m, w)'
  BY <1>3, <1>5, WorkerStable, ZenonT(30)
<1>8. \A m \in Nodes, w \in Volumes : ConcernOK(m, w)'
  <2>1. ConcernOK(n, v)'
    BY DEF ConcernOK
  <2>2. ASSUME NEW m \in Nodes, NEW w \in Volumes, m # n \/ w # v
        PROVE  ConcernOK(m, w)'
    BY <1>5, <2>2, ConcernStable DEF Busy
  <2>3. QED
    BY <2>1, <2>2, ZenonT(30)
<1>9. Len(crs[v]) > 0 => /\ Latest(crs[v]) \in Version
                         /\ Latest(crs[v]) = crs[v][Len(crs[v])]
                         /\ WellFormed(Latest(crs[v]))
  <2>1. SUFFICES ASSUME Len(crs[v]) > 0
                 PROVE  /\ Latest(crs[v]) \in Version
                        /\ Latest(crs[v]) = crs[v][Len(crs[v])]
                        /\ WellFormed(Latest(crs[v]))
    OBVIOUS
  <2>2. Len(crs[v]) \in 1..Len(crs[v])
    BY <1>1, <2>1
  <2>3. QED
    BY <1>1, LatestIsNewest, ZenonT(30)
<1>10. Busy(n, v) => /\ sync[n][v].rv \in 1..Len(crs[v])
                     /\ Copy(n, v) = crs[v][sync[n][v].rv]
                     /\ WellFormed(Copy(n, v))
  BY <1>1, ZenonT(30) DEF WorkerOK, HistoryOK, Copy
<1>11. /\ Latest(crs[v])' = Latest(crs[v])
       /\ Cached(n, v)' = Cached(n, v)
       /\ Copy(n, v)' = crs[v][s.rv]
       /\ Busy(n, v)' => Copy(n, v)' = Cached(n, v) \/
                         (Busy(n, v) /\ Copy(n, v)' = Copy(n, v))
  BY <1>2, ZenonT(30) DEF Latest, Cached, Copy, Busy
<1>12. OwnerOK(v)'
  BY <1>1, <1>11, ZenonT(30) DEF OwnerOK, SingleOwner
<1>13. ReadyOK(v)'
  <2>1. SUFFICES ASSUME Ready(v), ~ Latest(crs[v]).del
                 PROVE  ReadyOK(v)'
    BY <1>11, ZenonT(30) DEF ReadyOK, Ready, Exists
  <2>2. /\ Latest(crs[v]).node \in Nodes
        /\ Latest(crs[v]).vg \in VGs
        /\ Len(crs[v]) > 0
    BY <1>9, <2>1, ZenonT(30) DEF Ready, Exists, WellFormed
  <2>3. CASE Latest(crs[v]).node # n
    <3>1. SameAgent(Latest(crs[v]).node, v)
      BY <1>3, <2>2, <2>3, ZenonT(30)
    <3>2. QED
      BY <1>1, <2>1, <2>2, <3>1, ZenonT(30)
         DEF ReadyOK, SameAgent, Cached, Copy, Busy
  <2>4. CASE Latest(crs[v]).node = n
    <3>1. ~ (Busy(n, v) /\ Copy(n, v).del)
      <4>1. SUFFICES ASSUME Busy(n, v), Copy(n, v).del PROVE FALSE
        OBVIOUS
      <4>2. Copy(n, v).uid = Latest(crs[v]).uid
        BY <1>1, <2>1, <2>4, <4>1, ZenonT(30) DEF ReadyOK
      <4>3. /\ Len(crs[v]) \in 1..Len(crs[v])
            /\ sync[n][v].rv <= Len(crs[v])
        BY <1>10, <4>1
      <4>4. LET a == crs[v][sync[n][v].rv]
                b == crs[v][Len(crs[v])]
            IN  a.uid = b.uid /\ a.del => b.del
        BY <1>1, <1>10, <4>1, <4>3, VersionOrder, ZenonT(30)
      <4>5. QED
        BY <1>9, <1>10, <2>1, <2>2, <4>1, <4>2, <4>4, ZenonT(30)
    <3>2. <<Latest(crs[v]).vg, v>> \in lvs'[n]
      <4>1. <<Latest(crs[v]).vg, v>> \in lvs[n]
        BY <1>1, <2>1, <2>4, ZenonT(30) DEF ReadyOK
      <4>2. QED
        BY <1>1, <3>1, <4>1
    <3>3. QED
      BY <1>1, <1>11, <2>1, <2>4, <3>2, ZenonT(30) DEF ReadyOK
  <2>5. QED
    BY <2>3, <2>4
<1>14. RemovedOK(v)'
  <2>1. SUFFICES ASSUME Len(crs[v]) > 0, Latest(crs[v]).gone,
                        Latest(crs[v]).state = "Ready", SingleOwner(v)
                 PROVE  RemovedOK(v)'
    BY <1>11, ZenonT(30) DEF RemovedOK, SingleOwner
  <2>2. Latest(crs[v]).owner \in Nodes /\ Latest(crs[v]).vg \in VGs
    BY <1>9, <2>1, ZenonT(30) DEF Version, WellFormed
  <2>3. CASE Latest(crs[v]).owner # n
    <3>1. SameAgent(Latest(crs[v]).owner, v)
      BY <1>3, <2>2, <2>3, ZenonT(30)
    <3>2. QED
      BY <1>1, <1>11, <2>1, <2>2, <3>1, ZenonT(30)
         DEF RemovedOK, SameAgent, Cached, Copy, Busy
  <2>4. CASE Latest(crs[v]).owner = n
    <3>1. Busy(n, v) => Copy(n, v).del
      BY <1>1, <2>1, <2>4, ZenonT(30) DEF RemovedOK
    <3>2. <<Latest(crs[v]).vg, v>> \notin lvs'[n]
      <4>1. <<Latest(crs[v]).vg, v>> \notin lvs[n]
        BY <1>1, <2>1, <2>4, ZenonT(30) DEF RemovedOK
      <4>2. QED
        BY <1>1, <1>9, <2>1, <2>4, <3>1, <4>1
    <3>3. /\ pos'[n][v] >= 1
          /\ Cached(n, v)'.uid = Latest(crs[v]).uid
          /\ Cached(n, v)'.del
      BY <1>1, <1>11, <2>1, <2>4, ZenonT(30) DEF RemovedOK
    <3>4. Busy(n, v)' => Copy(n, v)'.del
      BY <1>11, <3>1, <3>3, ZenonT(30)
    <3>5. QED
      BY <1>11, <2>1, <2>4, <3>2, <3>3, <3>4, ZenonT(30) DEF RemovedOK
  <2>5. QED
    BY <2>3, <2>4, ZenonT(30)
<1>15. \A w \in Volumes : ReadyOK(w)' /\ OwnerOK(w)' /\ RemovedOK(w)'
  BY <1>3, <1>12, <1>13, <1>14, SameOK, ZenonT(30)
<1>16. QED
  BY <1>4, <1>7, <1>8, <1>15, ZenonT(30) DEF Inv

\* The rest of the steps that leave resources and cache alone.
LEMMA QueueStep ==
    ASSUME Inv, NEW n \in Nodes, NEW v \in Volumes,
           Resync(n, v) \/ AddAfterDelay(n, v), UNCHANGED calls
    PROVE  Inv'
<1>1. /\ crs[v] \in Seq(Version)
      /\ pos[n][v] \in Nat
      /\ pos[n][v] <= Len(crs[v])
      /\ sync \in [Nodes -> [Volumes -> Sync]]
      /\ queue \in [Nodes -> SUBSET Volumes]
      /\ delayed \in [Nodes -> SUBSET Volumes]
      /\ faults \in Nat
      /\ WorkerOK(n, v) /\ ConcernOK(n, v)
  BY DEF Inv, TypeOK
<1>2. /\ UNCHANGED <<crs, calls, pos, sync, lvs, faults>>
      /\ queue' = [queue EXCEPT ![n] = @ \cup {v}]
      /\ delayed' = delayed \/ delayed' = [delayed EXCEPT ![n] = @ \ {v}]
  BY DEF Resync, AddAfterDelay, Enqueue
<1>3. \E i \in 1..Len(crs[v]) : crs[v][i].owner = n
  <2>1. CASE Resync(n, v)
    <3>1. pos[n][v] \in 1..Len(crs[v]) /\ crs[v][pos[n][v]].owner = n
      <4>1. pos[n][v] > 0 /\ crs[v][pos[n][v]].owner = n
        BY <2>1, ZenonT(30) DEF Resync, InCache, updateVol, Cached
      <4>2. QED
        BY <1>1, <4>1
    <3>2. QED
      BY <3>1
  <2>2. CASE AddAfterDelay(n, v)
    BY <1>1, <2>2 DEF AddAfterDelay, ConcernOK
  <2>3. QED
    BY <2>1, <2>2
<1>4. sync[n][v] \in Sync /\ sync' = [sync EXCEPT ![n][v] = sync[n][v]]
  BY <1>1, <1>2
<1>5. WorkerOK(n, v)'
  BY <1>1, <1>2, ZenonT(30) DEF WorkerOK, Busy, Copy, Cached
<1>6. /\ queue' \in [Nodes -> SUBSET Volumes]
      /\ delayed' \in [Nodes -> SUBSET Volumes]
      /\ \A m \in Nodes, w \in Volumes :
            m # n \/ w # v => /\ w \in queue'[m] => w \in queue[m]
                              /\ w \in delayed'[m] => w \in delayed[m]
  BY <1>1, <1>2, ZenonT(30)
<1>7. sync[n][v].pc # "idle" => Busy(n, v)
  BY DEF Busy
<1>8. QED
  BY <1>1, <1>2, <1>3, <1>4, <1>5, <1>6, <1>7, WorkStep, ZenonT(30)

\* syncVol begins with something that suits the version it has read.
LEMMA FirstStepFits ==
    ASSUME NEW vol \in Version, FirstStep(vol) # "idle"
    PROVE  /\ FirstStep(vol) \in {"destroy", "retryVG", "listVGs"}
           /\ FirstStep(vol) = "destroy" => vol.del
           /\ FirstStep(vol) # "destroy" => vol.state = "Pending" /\ ~ vol.del
           /\ FirstStep(vol) = "retryVG" => vol.vg \in VGs
BY DEF FirstStep, Version

\* A worker takes a key from the queue and reads its copy from the cache.
LEMMA StartSyncStep ==
    ASSUME Inv, NEW n \in Nodes, NEW v \in Volumes, StartSync(n, v),
           UNCHANGED calls
    PROVE  Inv'
<1>1. /\ crs[v] \in Seq(Version)
      /\ HistoryOK(crs[v])
      /\ pos[n][v] \in Nat
      /\ pos[n][v] <= Len(crs[v])
      /\ sync \in [Nodes -> [Volumes -> Sync]]
      /\ queue \in [Nodes -> SUBSET Volumes]
      /\ delayed \in [Nodes -> SUBSET Volumes]
      /\ faults \in Nat
      /\ WorkerOK(n, v) /\ ConcernOK(n, v)
  BY DEF Inv, TypeOK
<1>2. /\ UNCHANGED <<crs, calls, pos, delayed, lvs, faults>>
      /\ queue' = [queue EXCEPT ![n] = @ \ {v}]
      /\ v \in queue[n]
  BY DEF StartSync
<1>3. \E i \in 1..Len(crs[v]) : crs[v][i].owner = n
  BY <1>1, <1>2 DEF ConcernOK
<1>4. /\ queue' \in [Nodes -> SUBSET Volumes]
      /\ delayed' \in [Nodes -> SUBSET Volumes]
      /\ \A m \in Nodes, w \in Volumes :
            m # n \/ w # v => /\ w \in queue'[m] => w \in queue[m]
                              /\ w \in delayed'[m] => w \in delayed[m]
  BY <1>1, <1>2
<1>5. CASE InCache(n, v) /\ FirstStep(Cached(n, v)) # "idle"
  <2> DEFINE s == [pc |-> FirstStep(Cached(n, v)), rv |-> pos[n][v],
                   todo |-> {}]
  <2>1. sync' = [sync EXCEPT ![n][v] = s]
    BY <1>5 DEF StartSync
  <2>2. /\ pos[n][v] \in 1..Len(crs[v])
        /\ Cached(n, v) \in Version
        /\ WellFormed(Cached(n, v))
        /\ ~ Cached(n, v).gone
    BY <1>1, <1>5 DEF InCache, Cached, HistoryOK
  <2>3. s.pc \in {"destroy", "retryVG", "listVGs"} /\ s \in Sync
    BY <1>1, <1>5, <2>2, FirstStepFits, ZenonT(30) DEF Sync
  <2>4. /\ s.pc = "destroy" => Cached(n, v).del
        /\ s.pc # "destroy" =>
              Cached(n, v).state = "Pending" /\ ~ Cached(n, v).del
        /\ s.pc = "retryVG" => Cached(n, v).vg \in VGs
    BY <1>5, <2>2, FirstStepFits, ZenonT(30)
  <2>5. s.rv = pos[n][v] /\ sync'[n][v] = s
    BY <1>1, <2>1
  <2> HIDE DEF s
  <2>6. Copy(n, v)' = Cached(n, v) /\ Cached(n, v)' = Cached(n, v)
    BY <1>2, <2>5 DEF Copy, Cached
  <2>7. Cached(n, v).uid \in Nat
    BY <2>2 DEF Version
  <2>8. WorkerOK(n, v)'
    BY <1>2, <2>2, <2>3, <2>4, <2>5, <2>6, <2>7 DEF WorkerOK
  <2>9. pos[n][v] >= 1
    BY <2>2
  <2>10. QED
    BY <1>1, <1>2, <1>3, <1>4, <2>1, <2>3, <2>5, <2>8, <2>9, WorkStep,
       ZenonT(30)
<1>6. CASE ~ (InCache(n, v) /\ FirstStep(Cached(n, v)) # "idle")
  <2>1. sync' = sync
    BY <1>6 DEF StartSync
  <2>2. sync[n][v] \in Sync /\ sync' = [sync EXCEPT ![n][v] = sync[n][v]]
    BY <1>1, <2>1
  <2>3. WorkerOK(n, v)'
    BY <1>1, <1>2, <2>1, ZenonT(30) DEF WorkerOK, Busy, Copy, Cached
  <2>4. sync[n][v].pc # "idle" => Busy(n, v)
    BY DEF Busy
  <2>5. QED
    BY <1>1, <1>2, <1>3, <2>2, <2>3, <2>4, WorkStep, ZenonT(30)
<1>7. QED
  BY <1>5, <1>6

-----------------------------------------------------------------------------
\* Steps of the workers.

\* The worker of v goes on with its copy, or gives up and v is requeued, when
\* it can create or destroy the logical volume of its copy.
LEMMA ProceedStep ==
    ASSUME Inv, NEW n \in Nodes, NEW v \in Volumes, Busy(n, v), NEW s \in Sync,
           UNCHANGED <<crs, calls, pos, queue>>, faults' \in Nat,
           sync' = [sync EXCEPT ![n][v] = s],
           s.pc # "idle" => s.rv = sync[n][v].rv,
           delayed' = delayed \/ delayed' = [delayed EXCEPT ![n] = @ \cup {v}],
           \/ lvs' = lvs
           \/ /\ Copy(n, v).state = "Pending"
              /\ ~ Copy(n, v).del /\ Copy(n, v).vg \in VGs
              /\ lvs' = [lvs EXCEPT ![n] = @ \cup {<<Copy(n, v).vg, v>>}]
           \/ /\ Copy(n, v).del
              /\ lvs' = [lvs EXCEPT ![n] = @ \ {<<Copy(n, v).vg, v>>}],
           (s.pc # "idle" => WorkerOK(n, v)')
    PROVE  Inv'
<1>1. /\ sync \in [Nodes -> [Volumes -> Sync]]
      /\ queue \in [Nodes -> SUBSET Volumes]
      /\ delayed \in [Nodes -> SUBSET Volumes]
      /\ ConcernOK(n, v)
  BY ZenonT(30) DEF Inv, TypeOK
<1>2. \E i \in 1..Len(crs[v]) : crs[v][i].owner = n
  BY <1>1 DEF ConcernOK
<1>3. /\ queue' \in [Nodes -> SUBSET Volumes]
      /\ delayed' \in [Nodes -> SUBSET Volumes]
      /\ \A m \in Nodes, w \in Volumes :
            m # n \/ w # v => /\ w \in queue'[m] => w \in queue[m]
                              /\ w \in delayed'[m] => w \in delayed[m]
  BY <1>1
<1>4. WorkerOK(n, v)'
  BY <1>1, ZenonT(30) DEF WorkerOK, Busy
<1>5. QED
  BY <1>2, <1>3, <1>4, WorkStep, ZenonT(30)

\* A worker moves on and keeps its copy.
LEMMA SyncUpdate ==
    ASSUME NEW r \in Sync,
           NEW k \in {"listVGs", "setVG", "ready", "failed", "unfinalize"}
    PROVE  LET s == [r EXCEPT !.pc = k]
           IN  s \in Sync /\ s.pc = k /\ s.rv = r.rv
BY DEF Sync

\* A worker that is done.
LEMMA IdleWorker == Idle.pc = "idle"
BY DEF Idle

\* A worker moves on and keeps its copy: the record of v.
LEMMA ProceedKeeps ==
    ASSUME sync \in [Nodes -> [Volumes -> Sync]], NEW n \in Nodes, NEW v \in Volumes,
           NEW k \in {"listVGs", "setVG", "ready", "failed", "unfinalize"},
           Proceed(n, v, k)
    PROVE  sync'[n][v].pc = k /\ sync'[n][v].rv = sync[n][v].rv
<1> DEFINE s == [sync[n][v] EXCEPT !.pc = k]
<1>1. s.pc = k /\ s.rv = sync[n][v].rv
  <2>1. sync[n][v] \in Sync
    BY ZenonT(30)
  <2>2. QED
    BY <2>1, SyncUpdate, ZenonT(30)
<1>2. sync' = [sync EXCEPT ![n][v] = s]
  BY DEF Proceed
<1> HIDE DEF s
<1>3. QED
  BY <1>1, <1>2

\* lvcreate, for a Pending copy that names its volume group.
LEMMA CreateLVStep ==
    ASSUME Inv, NEW n \in Nodes, NEW v \in Volumes,
           sync[n][v].pc \in {"retryVG", "create"},
           NEW pc \in {"listVGs", "setVG", "failed"}, CreateLV(n, v, pc),
           UNCHANGED <<crs, calls, pos, queue, delayed>>
    PROVE  Inv'
<1>1. /\ sync \in [Nodes -> [Volumes -> Sync]]
      /\ lvs \in [Nodes -> SUBSET (VGs \X Volumes)]
      /\ faults \in Nat
      /\ WorkerOK(n, v)
  BY DEF Inv, TypeOK
<1>2. /\ Busy(n, v)
      /\ Copy(n, v).state = "Pending" /\ ~ Copy(n, v).del
      /\ Copy(n, v).vg \in VGs
  BY <1>1, ZenonT(30) DEF Busy, WorkerOK
<1>3. PICK k \in {pc, "ready"} :
        /\ sync' = [sync EXCEPT ![n][v] = [sync[n][v] EXCEPT !.pc = k]]
        /\ \/ k = "ready" /\ lvs' = [lvs EXCEPT ![n] = @ \cup {<<Copy(n, v).vg, v>>}]
           \/ k = pc /\ lvs' = lvs
        /\ faults' \in Nat
  BY <1>1 DEF CreateLV, Proceed, Fault
<1> DEFINE s == [sync[n][v] EXCEPT !.pc = k]
<1>4. /\ sync' = [sync EXCEPT ![n][v] = s]
      /\ s \in Sync
      /\ s.pc = k
      /\ s.rv = sync[n][v].rv
      /\ sync'[n][v] = s
  <2>1. sync[n][v] \in Sync
    BY <1>1
  <2>2. k \in {"listVGs", "setVG", "ready", "failed", "unfinalize"}
    OBVIOUS
  <2>3. s \in Sync /\ s.pc = k /\ s.rv = sync[n][v].rv
    BY <2>1, <2>2, SyncUpdate, ZenonT(30)
  <2>4. sync' = [sync EXCEPT ![n][v] = s]
    BY <1>3
  <2> HIDE DEF s
  <2>5. QED
    BY <1>1, <2>3, <2>4
<1> HIDE DEF s
<1>5. Copy(n, v)' = Copy(n, v) /\ Cached(n, v)' = Cached(n, v)
  BY <1>4, ZenonT(30) DEF Copy, Cached
<1>6. k = "ready" => <<Copy(n, v).vg, v>> \in lvs'[n]
  BY <1>1, <1>3
<1>7. WorkerOK(n, v)'
  BY <1>1, <1>3, <1>5 DEF WorkerOK, Busy
<1>8. \/ lvs' = lvs
      \/ /\ Copy(n, v).state = "Pending"
         /\ ~ Copy(n, v).del /\ Copy(n, v).vg \in VGs
         /\ lvs' = [lvs EXCEPT ![n] = @ \cup {<<Copy(n, v).vg, v>>}]
  BY <1>2, <1>3
<1>9. UNCHANGED <<crs, calls, pos, queue>> /\ faults' \in Nat
  BY <1>3
<1>10. delayed' = delayed \/ delayed' = [delayed EXCEPT ![n] = @ \cup {v}]
  OBVIOUS
<1>11. QED
  BY <1>2, <1>4, <1>7, <1>8, <1>9, ProceedStep, ZenonT(30)

\* The worker finds the volume groups to try.
LEMMA ListStep ==
    ASSUME Inv, NEW n \in Nodes, NEW v \in Volumes,
           GetVgPriorityList(n, v), UNCHANGED calls
    PROVE  Inv'
<1>1. /\ sync \in [Nodes -> [Volumes -> Sync]]
      /\ faults \in Nat
      /\ WorkerOK(n, v)
      /\ sync[n][v].pc = "listVGs"
  BY ZenonT(30) DEF Inv, TypeOK, GetVgPriorityList
<1>2. Busy(n, v) /\ Copy(n, v).state = "Pending" /\ ~ Copy(n, v).del
  BY <1>1, ZenonT(30) DEF Busy, WorkerOK
<1>3. UNCHANGED <<crs, calls, pos, queue, lvs>> /\ faults' \in Nat
  <2>1. faults' = faults \/ Fault("lvm")
    BY ZenonT(30) DEF GetVgPriorityList
  <2>2. UNCHANGED <<crs, calls, pos, queue, lvs>>
    BY ZenonT(30) DEF GetVgPriorityList
  <2>3. QED
    BY <1>1, <2>1, <2>2 DEF Fault
<1>4. CASE Requeue(n, v)
  BY <1>2, <1>3, <1>4, ProceedStep, ZenonT(30) DEF Requeue, Idle, Sync
<1>5. CASE ~ Requeue(n, v)
  <2>1. PICK vgs \in SUBSET VGs :
          sync' = [sync EXCEPT ![n][v] =
                      [sync[n][v] EXCEPT
                          !.pc = IF vgs = {} THEN "failed" ELSE "setVG",
                          !.todo = vgs]]
    BY <1>5, ZenonT(30) DEF GetVgPriorityList
  <2> DEFINE s == [sync[n][v] EXCEPT
                      !.pc = IF vgs = {} THEN "failed" ELSE "setVG",
                      !.todo = vgs]
  <2>2. sync' = [sync EXCEPT ![n][v] = s]
    BY <2>1
  <2>3. /\ s \in Sync
        /\ s.pc \in {"failed", "setVG"}
        /\ s.rv = sync[n][v].rv
    <3>1. sync[n][v] \in Sync
      BY <1>1
    <3>2. QED
      BY <3>1, ZenonT(30) DEF Sync
  <2> HIDE DEF s
  <2>4. sync'[n][v] = s
    BY <1>1, <2>2
  <2>5. Copy(n, v)' = Copy(n, v) /\ Cached(n, v)' = Cached(n, v)
    BY <1>3, <2>3, <2>4 DEF Copy, Cached
  <2>6. WorkerOK(n, v)'
    BY <1>1, <1>3, <2>3, <2>4, <2>5, ZenonT(30) DEF WorkerOK, Busy
  <2>7. delayed' = delayed
    BY <1>5, ZenonT(30) DEF GetVgPriorityList
  <2>8. QED
    BY <1>2, <1>3, <2>2, <2>3, <2>6, <2>7, ProceedStep, ZenonT(30)
<1>6. QED
  BY <1>4, <1>5

\* lvremove, for a copy with a deletion timestamp.
LEMMA DestroyStep ==
    ASSUME Inv, NEW n \in Nodes, NEW v \in Volumes,
           DestroyVolume(n, v), UNCHANGED calls
    PROVE  Inv'
<1>1. /\ sync \in [Nodes -> [Volumes -> Sync]]
      /\ lvs \in [Nodes -> SUBSET (VGs \X Volumes)]
      /\ faults \in Nat
      /\ WorkerOK(n, v)
      /\ sync[n][v].pc = "destroy"
  BY DEF Inv, TypeOK, DestroyVolume
<1>2. Busy(n, v) /\ Copy(n, v).del
  BY <1>1 DEF Busy, WorkerOK
<1>3. UNCHANGED <<crs, calls, pos, queue>> /\ faults' \in Nat
  BY <1>1 DEF DestroyVolume, Fault
<1>4. CASE Requeue(n, v) /\ UNCHANGED lvs
  BY <1>2, <1>3, <1>4, ProceedStep, ZenonT(30) DEF Requeue, Idle, Sync
<1>5. CASE /\ lvs' = [lvs EXCEPT ![n] = @ \ {<<Copy(n, v).vg, v>>}]
           /\ Proceed(n, v, "unfinalize")
           /\ UNCHANGED delayed
  <2> DEFINE s == [sync[n][v] EXCEPT !.pc = "unfinalize"]
  <2>1. /\ sync' = [sync EXCEPT ![n][v] = s]
        /\ s \in Sync
        /\ s.pc = "unfinalize"
        /\ s.rv = sync[n][v].rv
        /\ sync'[n][v] = s
    <3>1. sync[n][v] \in Sync
      BY <1>1
    <3>2. s \in Sync /\ s.pc = "unfinalize" /\ s.rv = sync[n][v].rv
      BY <3>1, SyncUpdate, ZenonT(30)
    <3>3. sync' = [sync EXCEPT ![n][v] = s]
      BY <1>5 DEF Proceed
    <3> HIDE DEF s
    <3>4. QED
      BY <1>1, <3>2, <3>3
  <2> HIDE DEF s
  <2>2. Copy(n, v)' = Copy(n, v) /\ Cached(n, v)' = Cached(n, v)
    BY <1>3, <2>1, ZenonT(30) DEF Copy, Cached
  <2>3. <<Copy(n, v).vg, v>> \notin lvs'[n]
    BY <1>1, <1>5
  <2>4. WorkerOK(n, v)'
    BY <1>1, <1>3, <2>1, <2>2, <2>3, ZenonT(30) DEF WorkerOK, Busy
  <2>5. QED
    BY <1>2, <1>3, <1>5, <2>1, <2>4, ProceedStep, ZenonT(30)
<1>6. QED
  BY <1>4, <1>5 DEF DestroyVolume

-----------------------------------------------------------------------------
\* The steps in which a worker writes to the resource.

\* The worker's update is made: v gets the version new.
LEMMA UpdateStep ==
    ASSUME Inv, NEW n \in Nodes, NEW v \in Volumes, Busy(n, v), NEW s \in Sync,
           UNCHANGED <<calls, pos, queue, lvs>>, faults' \in Nat,
           sync' = [sync EXCEPT ![n][v] = s],
           delayed' = delayed \/ delayed' = [delayed EXCEPT ![n] = @ \cup {v}],
           NEW h, crs' = [crs EXCEPT ![v] = h], Grows(crs[v], h),
           WorkerOK(n, v)', ReadyOK(v)', OwnerOK(v)', RemovedOK(v)'
    PROVE  Inv'
<1>1. /\ crs \in [Volumes -> Seq(Version)]
      /\ sync \in [Nodes -> [Volumes -> Sync]]
      /\ delayed \in [Nodes -> SUBSET Volumes]
      /\ ConcernOK(n, v)
  BY ZenonT(30) DEF Inv, TypeOK
<1>2. \A w \in Volumes : /\ Grows(crs[w], crs'[w])
                         /\ w # v => crs'[w] = crs[w]
  BY <1>1 DEF Grows
<1>3. \A w \in Volumes : /\ crs'[w] \in Seq(Version)
                         /\ HistoryOK(crs'[w])
                         /\ Len(crs'[w]) >= Len(crs[w])
  BY GrowsOK DEF Inv, TypeOK
<1>4. \A m \in Nodes, w \in Volumes : m # n \/ w # v => SameAgent(m, w)
  BY <1>1 DEF SameAgent
<1>5. TypeOK'
  <2>1. crs' \in [Volumes -> Seq(Version)]
    BY <1>1, <1>3
  <2>2. sync' \in [Nodes -> [Volumes -> Sync]]
    BY <1>1
  <2>3. delayed' \in [Nodes -> SUBSET Volumes]
    BY <1>1
  <2>4. QED
    BY <2>1, <2>2, <2>3, ZenonT(30) DEF Inv, TypeOK
<1>6. \A m \in Nodes, w \in Volumes : pos'[m][w] <= Len(crs'[w])
  <2>1. \A m \in Nodes, w \in Volumes : /\ pos[m][w] \in Nat
                                        /\ pos[m][w] <= Len(crs[w])
                                        /\ Len(crs[w]) \in Nat
    BY <1>1 DEF Inv, TypeOK
  <2>2. \A w \in Volumes : Len(crs'[w]) \in Nat
    BY <1>3
  <2>3. QED
    BY <1>3, <2>1, <2>2
<1>7. \A m \in Nodes, w \in Volumes : WorkerOK(m, w)'
  BY <1>2, <1>4, WorkerStable
<1>8. \A m \in Nodes, w \in Volumes : ConcernOK(m, w)'
  <2>1. ConcernOK(n, v)'
    BY <1>2, ConcernStable
  <2>2. ASSUME NEW m \in Nodes, NEW w \in Volumes, m # n \/ w # v
        PROVE  ConcernOK(m, w)'
    <3>1. w \in delayed'[m] => w \in delayed[m]
      BY <1>1, <2>2
    <3>2. sync'[m][w] = sync[m][w]
      BY <1>4, <2>2 DEF SameAgent
    <3>3. QED
      BY <1>2, <3>1, ConcernStable DEF Busy
  <2>3. QED
    BY <2>1, <2>2
<1>9. \A w \in Volumes : ReadyOK(w)' /\ OwnerOK(w)' /\ RemovedOK(w)'
  <2>1. ASSUME NEW w \in Volumes, w # v
        PROVE  ReadyOK(w)' /\ OwnerOK(w)' /\ RemovedOK(w)'
    BY <1>2, <1>4, <2>1, SameOK
  <2>2. QED
    BY <2>1
<1>10. QED
  BY <1>3, <1>5, <1>6, <1>7, <1>8, <1>9, ZenonT(30) DEF Inv

\* What is known of a worker whose copy is current.
LEMMA CurrentCopy ==
    ASSUME Inv, NEW n \in Nodes, NEW v \in Volumes, Busy(n, v),
           sync[n][v].rv = Len(crs[v])
    PROVE  /\ crs[v] \in Seq(Version)
           /\ HistoryOK(crs[v])
           /\ Exists(crs[v])
           /\ Len(crs[v]) \in 1..Len(crs[v])
           /\ Copy(n, v) = Latest(crs[v])
           /\ Latest(crs[v]) \in Version
           /\ WellFormed(Latest(crs[v]))
           /\ ~ Latest(crs[v]).gone
           /\ pos[n][v] \in 1..Len(crs[v])
           /\ Cached(n, v).uid = Latest(crs[v]).uid
           /\ Latest(crs[v]).uid \in Nat
<1>1. /\ crs[v] \in Seq(Version)
      /\ HistoryOK(crs[v])
      /\ WorkerOK(n, v)
      /\ pos[n][v] \in Nat
      /\ pos[n][v] <= Len(crs[v])
  BY DEF Inv, TypeOK
<1>2. /\ Len(crs[v]) \in 1..Len(crs[v])
      /\ pos[n][v] \in 1..Len(crs[v])
      /\ Copy(n, v) = Latest(crs[v])
      /\ ~ Latest(crs[v]).gone
      /\ Latest(crs[v]).uid <= Cached(n, v).uid
  BY <1>1 DEF WorkerOK, Copy, Latest
<1>3. /\ Latest(crs[v]) \in Version
      /\ WellFormed(Latest(crs[v]))
      /\ Cached(n, v) \in Version
      /\ Cached(n, v).uid <= Latest(crs[v]).uid
  BY <1>1, <1>2, LatestIsNewest, ZenonT(30) DEF Cached
<1>4. Latest(crs[v]).uid \in Nat /\ Cached(n, v).uid \in Nat
  BY <1>3 DEF Version
<1>5. QED
  BY <1>1, <1>2, <1>3, <1>4 DEF Exists

\* The three outcomes of an update: it is made and the worker goes on, it is
\* made and the worker gives up, it is not made and the worker gives up.
LEMMA UpdateOutcomes ==
    ASSUME Inv, NEW n \in Nodes, NEW v \in Volumes, NEW vol, NEW next,
           Update(n, v, vol, next)
    PROVE  /\ faults' \in Nat
           /\ \/ /\ sync[n][v].rv = Len(crs[v])
                 /\ crs' = [crs EXCEPT ![v] = Updated(crs[v], vol)]
                 /\ \/ /\ sync' = [sync EXCEPT ![n][v] = next]
                       /\ delayed' = delayed
                    \/ Requeue(n, v)
              \/ crs' = crs /\ Requeue(n, v)
<1>1. faults \in Nat
  BY DEF Inv, TypeOK
<1>2. faults' = faults \/ Fault("api")
  BY DEF Update
<1>3. faults' \in Nat
  BY <1>1, <1>2 DEF Fault
<1>4. QED
  BY <1>3 DEF Update

\* The worker returns an error and its key is put back.
LEMMA GiveUpStep ==
    ASSUME Inv, NEW n \in Nodes, NEW v \in Volumes, Busy(n, v),
           Requeue(n, v), UNCHANGED <<crs, calls, pos, queue, lvs>>,
           faults' \in Nat
    PROVE  Inv'
<1>1. Idle \in Sync /\ Idle.pc = "idle"
  BY DEF Idle, Sync
<1>2. /\ sync' = [sync EXCEPT ![n][v] = Idle]
      /\ delayed' = [delayed EXCEPT ![n] = @ \cup {v}]
  BY DEF Requeue
<1>3. QED
  BY <1>1, <1>2, ProceedStep, ZenonT(30)

\* The worker's update writes the version new, and the worker stops or goes on
\* to create the logical volume: new may be not Ready, be Ready with its
\* logical volume on this node, or be the removal of a Ready volume that has
\* no logical volume on this node.
LEMMA WriteStep ==
    ASSUME Inv, NEW n \in Nodes, NEW v \in Volumes, Busy(n, v),
           sync[n][v].rv = Len(crs[v]),
           NEW vol, NEW new \in Version,
           new = Stored(vol),
           WellFormed(new), Follows(Latest(crs[v]), new),
           new.uid = Latest(crs[v]).uid,
           UNCHANGED <<calls, pos, queue, lvs>>, faults' \in Nat,
           crs' = [crs EXCEPT ![v] = Updated(crs[v], vol)],
           NEW s \in Sync, sync' = [sync EXCEPT ![n][v] = s],
           delayed' = delayed \/ delayed' = [delayed EXCEPT ![n] = @ \cup {v}],
           \/ s.pc = "idle"
           \/ /\ s.pc = "create"
              /\ s.rv = Len(Updated(crs[v], vol))
              /\ new.state = "Pending" /\ ~ new.del /\ ~ new.gone
              /\ new.vg \in VGs,
           \/ new.state # "Ready"
           \/ /\ s.pc = "idle"
              /\ new.node = n /\ ~ new.gone
              /\ <<new.vg, v>> \in lvs[n]
           \/ /\ s.pc = "idle"
              /\ new.gone
              /\ pos[n][v] = Len(crs[v]) /\ Latest(crs[v]).del
              /\ Latest(crs[v]).state = "Ready"
              /\ new.node = Latest(crs[v]).node
              /\ <<new.vg, v>> \notin lvs[n]
    PROVE  Inv'
<1> DEFINE h == Updated(crs[v], vol)
<1>1. /\ crs \in [Volumes -> Seq(Version)]
      /\ sync \in [Nodes -> [Volumes -> Sync]]
      /\ ConcernOK(n, v) /\ OwnerOK(v)
  BY ZenonT(30) DEF Inv, TypeOK
<1>2. /\ crs[v] \in Seq(Version)
      /\ HistoryOK(crs[v])
      /\ Exists(crs[v])
      /\ Latest(crs[v]) \in Version
      /\ WellFormed(Latest(crs[v]))
      /\ pos[n][v] \in 1..Len(crs[v])
      /\ Cached(n, v).uid = new.uid
      /\ new.uid \in Nat
  BY CurrentCopy, ZenonT(30)
<1>3. /\ Grows(crs[v], h)
      /\ Latest(h) = new
      /\ Len(h) \in Nat
      /\ Len(h) >= Len(crs[v])
      /\ h[Len(h)] = new
  BY <1>2, UpdatedGrows
<1>4. /\ h \in Seq(Version)
      /\ \A i \in 1..Len(crs[v]) : h[i] = crs[v][i]
  BY <1>2, <1>3, GrowsOK, ZenonT(30)
<1>5. crs' = [crs EXCEPT ![v] = h] /\ (s.pc = "create" => s.rv = Len(h))
  OBVIOUS
<1> HIDE DEF h
<1>6. /\ crs'[v] = h
      /\ sync'[n][v] = s
      /\ Latest(crs[v])' = new
      /\ Cached(n, v)' = Cached(n, v)
      /\ Len(crs[v]) \in Nat
      /\ Len(crs[v]) >= 1 /\ Len(crs[v]) > 0
  <2>1. crs'[v] = h /\ sync'[n][v] = s
    BY <1>1, <1>5, ZenonT(30)
  <2>2. Latest(crs[v])' = new
    BY <1>3, <2>1, ZenonT(30) DEF Latest
  <2>3. /\ Len(crs[v]) \in Nat /\ Len(crs[v]) >= 1 /\ Len(crs[v]) > 0
        /\ pos[n][v] \in 1..Len(crs[v])
    BY <1>2 DEF Exists
  <2>4. Cached(n, v)' = Cached(n, v)
    BY <1>4, <2>1, <2>3, ZenonT(30) DEF Cached
  <2>5. QED
    BY <2>1, <2>2, <2>3, <2>4, ZenonT(30)
<1>7. Busy(n, v)' <=> s.pc = "create"
  BY <1>6, ZenonT(30) DEF Busy
<1>8. WorkerOK(n, v)'
  <2>1. SUFFICES ASSUME s.pc = "create"
                 PROVE  WorkerOK(n, v)'
    BY <1>7, ZenonT(30) DEF WorkerOK
  <2>2. Copy(n, v)' = new /\ sync'[n][v].rv \in 1..Len(crs'[v])
    BY <1>3, <1>5, <1>6, <2>1 DEF Copy
  <2>3. /\ new.state = "Pending" /\ ~ new.del /\ ~ new.gone
        /\ new.vg \in VGs
    BY <2>1
  <2>4. /\ pos'[n][v] >= 1 /\ new.uid <= new.uid
        /\ sync'[n][v].pc = "create"
        /\ Cached(n, v)'.uid = new.uid
    BY <1>2, <1>6, <2>1
  <2>5. QED
    BY <2>2, <2>3, <2>4, ZenonT(30) DEF WorkerOK
<1>9. SingleOwner(v)' => SingleOwner(v) /\ new.owner = n
  <2>1. SUFFICES ASSUME SingleOwner(v)'
                 PROVE  SingleOwner(v) /\ new.owner = n
    OBVIOUS
  <2>2. Grows(crs[v], crs'[v])
    BY <1>3, <1>6, ZenonT(30)
  <2>3. /\ SingleOwner(v)
        /\ \A i \in 1..Len(crs[v]) : crs[v][i].owner = Latest(crs'[v]).owner
    BY <2>1, <2>2, SingleOwnerBefore, ZenonT(30)
  <2>4. Latest(crs'[v]) = new
    BY <1>3, <1>6, ZenonT(30)
  <2>5. QED
    BY <1>1, <2>3, <2>4, ZenonT(30) DEF ConcernOK
<1>10. ReadyOK(v)'
  <2>1. SUFFICES ASSUME Ready(v)', ~ new.del
                 PROVE  ReadyOK(v)'
    BY <1>6, ZenonT(30) DEF ReadyOK
  <2>2. new.state = "Ready" /\ ~ new.gone
    BY <1>6, <2>1, ZenonT(30) DEF Ready, Exists
  <2>3. new.node = n /\ <<new.vg, v>> \in lvs[n] /\ s.pc = "idle"
    BY <2>2, ZenonT(30)
  <2>4. pos'[n][v] >= 1 /\ ~ Busy(n, v)'
    BY <1>2, <1>7, <2>3
  <2>5. QED
    BY <1>2, <1>6, <2>3, <2>4, ZenonT(30) DEF ReadyOK
<1>11. OwnerOK(v)'
  <2>1. SUFFICES ASSUME new.state = "Ready", SingleOwner(v)'
                 PROVE  new.node = new.owner
    BY <1>6, ZenonT(30) DEF OwnerOK
  <2>2. SingleOwner(v) /\ new.owner = n
    BY <1>9, <2>1, ZenonT(30)
  <2>3. CASE new.node = n
    BY <2>2, <2>3, ZenonT(30)
  <2>4. CASE /\ Latest(crs[v]).state = "Ready"
             /\ new.node = Latest(crs[v]).node
    <3>1. Latest(crs[v]).node = Latest(crs[v]).owner
      BY <1>1, <1>6, <2>2, <2>4, ZenonT(30) DEF OwnerOK
    <3>2. \A i \in 1..Len(crs[v]) : crs[v][i].owner = Latest(crs'[v]).owner
      BY <1>3, <1>6, <2>1, SingleOwnerBefore, ZenonT(30)
    <3>3. /\ Latest(crs'[v]) = new
          /\ Latest(crs[v]) = crs[v][Len(crs[v])]
      BY <1>6, ZenonT(30) DEF Latest
    <3>4. Latest(crs[v]).owner = new.owner
      BY <1>6, <3>2, <3>3
    <3>5. QED
      BY <2>4, <3>1, <3>4, ZenonT(30)
  <2>5. QED
    BY <2>1, <2>3, <2>4
<1>12. RemovedOK(v)'
  <2>1. SUFFICES ASSUME new.gone, new.state = "Ready", SingleOwner(v)'
                 PROVE  RemovedOK(v)'
    BY <1>6, ZenonT(30) DEF RemovedOK
  <2>2. new.owner = n
    BY <1>9, <2>1
  <2>3. /\ s.pc = "idle"
        /\ pos[n][v] = Len(crs[v]) /\ Latest(crs[v]).del
        /\ <<new.vg, v>> \notin lvs[n]
    BY <2>1
  <2>4. Cached(n, v)'.del /\ ~ Busy(n, v)'
    BY <1>6, <1>7, <2>3, ZenonT(30) DEF Cached, Latest
  <2>5. QED
    BY <1>2, <1>6, <2>2, <2>4, ZenonT(30) DEF RemovedOK
<1>13. QED
  BY <1>3, <1>5, <1>8, <1>10, <1>11, <1>12, UpdateStep, ZenonT(30)

\* The worker records the volume group it is about to use.
LEMMA VolGroupStep ==
    ASSUME Inv, NEW n \in Nodes, NEW v \in Volumes,
           UpdateVolGroup(n, v), UNCHANGED calls
    PROVE  Inv'
<1>1. /\ sync[n][v] \in Sync
      /\ WorkerOK(n, v)
      /\ sync[n][v].pc = "setVG"
      /\ UNCHANGED <<calls, pos, queue, lvs>>
  BY DEF Inv, TypeOK, UpdateVolGroup
<1>2. Busy(n, v) /\ Copy(n, v).state = "Pending" /\ ~ Copy(n, v).del
  BY <1>1 DEF Busy, WorkerOK
<1>3. PICK vg \in sync[n][v].todo :
        LET vol == WithVolGroup(Copy(n, v), vg)
        IN  Update(n, v, vol, [pc   |-> "create",
                               rv   |-> Len(Updated(crs[v], vol)),
                               todo |-> sync[n][v].todo \ {vg}])
  BY ZenonT(30) DEF UpdateVolGroup
<1> DEFINE vol == WithVolGroup(Copy(n, v), vg)
           new == Stored(vol)
           next == [pc |-> "create", rv |-> Len(Updated(crs[v], vol)),
                    todo |-> sync[n][v].todo \ {vg}]
<1>4. vg \in VGs
  BY <1>1 DEF Sync
<1>5. /\ faults' \in Nat
      /\ \/ /\ sync[n][v].rv = Len(crs[v])
            /\ crs' = [crs EXCEPT ![v] = Updated(crs[v], vol)]
            /\ \/ /\ sync' = [sync EXCEPT ![n][v] = next]
                  /\ delayed' = delayed
               \/ Requeue(n, v)
         \/ crs' = crs /\ Requeue(n, v)
  BY <1>3, UpdateOutcomes, ZenonT(30)
<1>6. CASE crs' = crs /\ Requeue(n, v)
  BY <1>1, <1>2, <1>5, <1>6, GiveUpStep
<1>7. CASE /\ sync[n][v].rv = Len(crs[v])
           /\ crs' = [crs EXCEPT ![v] = Updated(crs[v], vol)]
           /\ \/ /\ sync' = [sync EXCEPT ![n][v] = next]
                 /\ delayed' = delayed
              \/ Requeue(n, v)
  <2>1. /\ crs[v] \in Seq(Version) /\ HistoryOK(crs[v]) /\ Exists(crs[v])
        /\ Copy(n, v) = Latest(crs[v])
        /\ Copy(n, v) \in Version
        /\ WellFormed(Copy(n, v))
        /\ ~ Copy(n, v).gone
    BY <1>2, <1>7, CurrentCopy, ZenonT(30)
  <2>2. new = Stored(vol)
    OBVIOUS
  <2>3. vol = WithVolGroup(Copy(n, v), vg)
    OBVIOUS
  <2>4. /\ next.pc = "create" /\ next.rv = Len(Updated(crs[v], vol))
        /\ next.todo = sync[n][v].todo \ {vg}
        /\ next = [pc |-> next.pc, rv |-> next.rv, todo |-> next.todo]
    OBVIOUS
  <2> HIDE DEF vol, new
  <2>5. /\ new \in Version
        /\ new = vol
        /\ new.uid = Copy(n, v).uid
        /\ new.vg = vg /\ new.state = "Pending" /\ ~ new.gone /\ ~ new.del
        /\ WellFormed(new)
        /\ Follows(Copy(n, v), new)
    BY <1>2, <1>4, <2>1, <2>2, <2>3, VolGroupVersion
  <2>6. Len(Updated(crs[v], vol)) \in Nat
    BY <2>1, <2>2, <2>5, UpdatedGrows
  <2> HIDE DEF next
  <2>7. next \in Sync
    BY <1>1, <2>4, <2>6, ZenonT(30) DEF Sync
  <2>8. Idle \in Sync /\ Idle.pc = "idle"
    BY DEF Idle, Sync
  <2>9. PICK s \in Sync :
          /\ sync' = [sync EXCEPT ![n][v] = s]
          /\ \/ delayed' = delayed
             \/ delayed' = [delayed EXCEPT ![n] = @ \cup {v}]
          /\ s = Idle \/ s = next
    BY <1>7, <2>8, <2>7 DEF Requeue
  <2>10. \/ s.pc = "idle"
         \/ /\ s.pc = "create"
            /\ s.rv = Len(Updated(crs[v], vol))
            /\ new.state = "Pending" /\ ~ new.del /\ ~ new.gone
            /\ new.vg \in VGs
    BY <1>4, <2>4, <2>5, <2>8, <2>9, ZenonT(30)
  <2>11. /\ crs' = [crs EXCEPT ![v] = Updated(crs[v], vol)]
         /\ sync[n][v].rv = Len(crs[v])
         /\ new.state # "Ready"
         /\ new.uid = Latest(crs[v]).uid
         /\ Follows(Latest(crs[v]), new)
    BY <1>7, <2>1, <2>5, ZenonT(30)
  <2>12. QED
    BY <1>1, <1>2, <1>5, <2>2, <2>5, <2>9, <2>10, <2>11, WriteStep, ZenonT(30)
<1>8. QED
  BY <1>5, <1>6, <1>7, ZenonT(30)

\* The worker writes the outcome: Ready when it has the logical volume, Failed
\* when no volume group could take it.
LEMMA VolInfoStep ==
    ASSUME Inv, NEW n \in Nodes, NEW v \in Volumes,
           MarkReady(n, v) \/ MarkFailed(n, v), UNCHANGED calls
    PROVE  Inv'
<1>1. PICK state \in {"Ready", "Failed"} :
        /\ UpdateVolInfo(n, v, state)
        /\ state = "Ready" => sync[n][v].pc = "ready"
        /\ state = "Failed" => sync[n][v].pc = "failed"
  BY DEF MarkReady, MarkFailed
<1>2. WorkerOK(n, v) /\ UNCHANGED <<calls, pos, queue, lvs>>
  BY <1>1 DEF Inv, UpdateVolInfo
<1>3. /\ Busy(n, v)
      /\ Copy(n, v).state = "Pending" /\ ~ Copy(n, v).del
      /\ state = "Ready" => /\ Copy(n, v).vg \in VGs
                            /\ <<Copy(n, v).vg, v>> \in lvs[n]
  BY <1>1, <1>2, ZenonT(30) DEF Busy, WorkerOK
<1>4. Idle \in Sync /\ Idle.pc = "idle"
  BY DEF Idle, Sync
<1>5. CASE Copy(n, v).fin
  <2>1. /\ sync' = [sync EXCEPT ![n][v] = Idle]
        /\ UNCHANGED <<crs, delayed, faults>>
    BY <1>1, <1>5 DEF UpdateVolInfo
  <2>2. faults' \in Nat
    BY <2>1 DEF Inv, TypeOK
  <2>3. QED
    BY <1>2, <1>3, <1>4, <2>1, <2>2, ProceedStep, ZenonT(30)
<1>6. CASE ~ Copy(n, v).fin
  <2> DEFINE vol == WithVolInfo(Copy(n, v), state, n)
             new == Stored(vol)
  <2>1. vol = WithVolInfo(Copy(n, v), state, n) /\ new = Stored(vol)
    OBVIOUS
  <2>2. Update(n, v, vol, Idle)
    BY <1>1, <1>6 DEF UpdateVolInfo
  <2> HIDE DEF vol, new
  <2>3. /\ faults' \in Nat
        /\ \/ /\ sync[n][v].rv = Len(crs[v])
              /\ crs' = [crs EXCEPT ![v] = Updated(crs[v], vol)]
              /\ \/ /\ sync' = [sync EXCEPT ![n][v] = Idle]
                    /\ delayed' = delayed
                 \/ Requeue(n, v)
           \/ crs' = crs /\ Requeue(n, v)
    BY <2>2, UpdateOutcomes
  <2>4. CASE crs' = crs /\ Requeue(n, v)
    BY <1>2, <1>3, <2>3, <2>4, GiveUpStep
  <2>5. CASE /\ sync[n][v].rv = Len(crs[v])
             /\ crs' = [crs EXCEPT ![v] = Updated(crs[v], vol)]
             /\ \/ /\ sync' = [sync EXCEPT ![n][v] = Idle]
                   /\ delayed' = delayed
                \/ Requeue(n, v)
    <3>1. /\ Copy(n, v) = Latest(crs[v])
          /\ Copy(n, v) \in Version
          /\ WellFormed(Copy(n, v))
          /\ ~ Copy(n, v).gone
      BY <1>3, <2>5, CurrentCopy
    <3>2. /\ new \in Version
          /\ new = vol
          /\ new.uid = Copy(n, v).uid /\ new.vg = Copy(n, v).vg
          /\ new.node = n /\ new.state = state /\ ~ new.gone
          /\ WellFormed(new)
          /\ Follows(Copy(n, v), new)
      <4> DEFINE copy == Copy(n, v)
      <4>1. /\ copy \in Version /\ WellFormed(copy)
            /\ ~ copy.gone /\ ~ copy.del /\ copy.state = "Pending"
            /\ state = "Ready" => copy.vg \in VGs
            /\ vol = WithVolInfo(copy, state, n) /\ new = Stored(vol)
        BY <1>3, <2>1, <3>1, ZenonT(30)
      <4> HIDE DEF copy
      <4>2. /\ new \in Version
            /\ new = vol
            /\ new.uid = copy.uid /\ new.vg = copy.vg
            /\ new.node = n /\ new.state = state /\ ~ new.gone
            /\ WellFormed(new)
            /\ Follows(copy, new)
        BY <4>1, VolInfoVersion
      <4> QED
        BY <4>2, ZenonT(30) DEF copy
    <3>3. /\ sync' = [sync EXCEPT ![n][v] = Idle]
          /\ \/ delayed' = delayed
             \/ delayed' = [delayed EXCEPT ![n] = @ \cup {v}]
      BY <2>5 DEF Requeue
    <3>4. \/ new.state # "Ready"
          \/ /\ Idle.pc = "idle"
             /\ new.node = n /\ ~ new.gone
             /\ <<new.vg, v>> \in lvs[n]
      BY <1>3, <1>4, <3>2
    <3>5. /\ new \in Version
          /\ WellFormed(new)
          /\ new.uid = Latest(crs[v]).uid
          /\ Follows(Latest(crs[v]), new)
          /\ new = Stored(vol)
      BY <2>1, <3>1, <3>2, ZenonT(30)
    <3>6. /\ sync[n][v].rv = Len(crs[v])
          /\ crs' = [crs EXCEPT ![v] = Updated(crs[v], vol)]
          /\ UNCHANGED <<calls, pos, queue, lvs>>
          /\ faults' \in Nat
          /\ Busy(n, v)
      BY <1>2, <1>3, <2>3, <2>5
    <3>7. QED
      BY <1>4, <3>3, <3>4, <3>5, <3>6, WriteStep, ZenonT(30)
  <2>6. QED
    BY <2>3, <2>4, <2>5
<1>7. QED
  BY <1>5, <1>6

\* The worker lets go of the resource, once the logical volume is destroyed.
LEMMA UnfinalizeStep ==
    ASSUME Inv, NEW n \in Nodes, NEW v \in Volumes,
           RemoveVolFinalizer(n, v), UNCHANGED calls
    PROVE  Inv'
<1>1. /\ WorkerOK(n, v)
      /\ sync[n][v].pc = "unfinalize"
      /\ UNCHANGED <<calls, pos, queue, lvs>>
      /\ pos[n][v] \in Nat
      /\ pos[n][v] <= Len(crs[v])
      /\ crs[v] \in Seq(Version)
  BY DEF Inv, TypeOK, RemoveVolFinalizer
<1>2. /\ Busy(n, v)
      /\ Copy(n, v).del
      /\ sync[n][v].rv <= pos[n][v]
      /\ Copy(n, v).state = "Ready" => <<Copy(n, v).vg, v>> \notin lvs[n]
  BY <1>1 DEF Busy, WorkerOK
<1>3. Idle \in Sync /\ Idle.pc = "idle"
  BY DEF Idle, Sync
<1> DEFINE vol == WithoutFinalizer(Copy(n, v))
           new == Stored(vol)
<1>4. vol = WithoutFinalizer(Copy(n, v)) /\ new = Stored(vol)
  OBVIOUS
<1>5. Update(n, v, vol, Idle)
  BY DEF RemoveVolFinalizer
<1> HIDE DEF vol, new
<1>6. /\ faults' \in Nat
      /\ \/ /\ sync[n][v].rv = Len(crs[v])
            /\ crs' = [crs EXCEPT ![v] = Updated(crs[v], vol)]
            /\ \/ /\ sync' = [sync EXCEPT ![n][v] = Idle]
                  /\ delayed' = delayed
               \/ Requeue(n, v)
         \/ crs' = crs /\ Requeue(n, v)
  BY <1>5, UpdateOutcomes
<1>7. CASE crs' = crs /\ Requeue(n, v)
  BY <1>1, <1>2, <1>6, <1>7, GiveUpStep
<1>8. CASE /\ sync[n][v].rv = Len(crs[v])
           /\ crs' = [crs EXCEPT ![v] = Updated(crs[v], vol)]
           /\ \/ /\ sync' = [sync EXCEPT ![n][v] = Idle]
                 /\ delayed' = delayed
              \/ Requeue(n, v)
  <2>1. /\ Copy(n, v) = Latest(crs[v])
        /\ Copy(n, v) \in Version
        /\ WellFormed(Copy(n, v))
        /\ ~ Copy(n, v).gone
    BY <1>2, <1>8, CurrentCopy
  <2>2. /\ new \in Version
        /\ new.uid = Copy(n, v).uid /\ new.vg = Copy(n, v).vg
        /\ new.node = Copy(n, v).node /\ new.state = Copy(n, v).state
        /\ new.gone
        /\ WellFormed(new)
        /\ Follows(Copy(n, v), new)
    BY <1>2, <1>4, <2>1, UnfinalizedVersion
  <2>3. /\ sync' = [sync EXCEPT ![n][v] = Idle]
        /\ \/ delayed' = delayed
           \/ delayed' = [delayed EXCEPT ![n] = @ \cup {v}]
    BY <1>8 DEF Requeue
  <2>4. pos[n][v] = Len(crs[v])
    BY <1>1, <1>2, <1>8
  <2>5. \/ new.state # "Ready"
        \/ /\ Idle.pc = "idle"
           /\ new.gone
           /\ pos[n][v] = Len(crs[v]) /\ Latest(crs[v]).del
           /\ Latest(crs[v]).state = "Ready"
           /\ new.node = Latest(crs[v]).node
           /\ <<new.vg, v>> \notin lvs[n]
    BY <1>2, <1>3, <2>1, <2>2, <2>4, ZenonT(30)
  <2>6. /\ new.uid = Latest(crs[v]).uid
        /\ Follows(Latest(crs[v]), new)
    BY <2>1, <2>2
  <2>7. QED
    BY <1>1, <1>2, <1>3, <1>4, <1>6, <1>8, <2>2, <2>3, <2>5, <2>6,
       WriteStep, ZenonT(30)
<1>9. QED
  BY <1>6, <1>7, <1>8

\* Any step of a worker.
LEMMA SyncStep ==
    ASSUME Inv, NEW n \in Nodes, NEW v \in Volumes,
           SyncVol(n, v), UNCHANGED calls
    PROVE  Inv'
<1>1. CASE RetryVolGroup(n, v)
  BY <1>1, CreateLVStep DEF RetryVolGroup
<1>2. CASE CreateVolumeInVG(n, v)
  <2>1. (IF sync[n][v].todo = {} THEN "failed" ELSE "setVG")
          \in {"listVGs", "setVG", "failed"}
    OBVIOUS
  <2>2. QED
    BY <1>2, <2>1, CreateLVStep DEF CreateVolumeInVG
<1>3. QED
  BY <1>1, <1>2, ListStep, VolGroupStep, VolInfoStep, DestroyStep,
     UnfinalizeStep, ZenonT(30) DEF SyncVol

-----------------------------------------------------------------------------
\* One volume group per volume: the steps of syncVol.

\* The worker of the owner gives up, and its key is put back.
LEMMA StrayGiveUp ==
    ASSUME Inv, NEW n \in Nodes, NEW v \in Volumes, StrayOK(v),
           FirstLife(v), n = Latest(crs[v]).owner, Busy(n, v), Requeue(n, v),
           UNCHANGED <<crs, pos, queue, lvs>>,
           Latest(crs[v]).state = "Pending" /\ ~ Latest(crs[v]).del =>
               pos[n][v] = Len(crs[v])
    PROVE  StrayOK(v)'
<1>1. /\ sync \in [Nodes -> [Volumes -> Sync]]
      /\ delayed \in [Nodes -> SUBSET Volumes]
      /\ Len(crs[v]) \in Nat /\ Len(crs[v]) # 0
  BY FirstLifeAgent, Indices, ZenonT(30)
<1>2. sync'[n][v].pc = "idle" /\ ~ Busy(n, v)'
  BY <1>1, ZenonT(30) DEF Requeue, Idle, Busy
<1>3. /\ Latest(crs[v])' = Latest(crs[v]) /\ FirstLife(v)' = FirstLife(v)
      /\ Cached(n, v)' = Cached(n, v)
      /\ Len(crs'[v]) = Len(crs[v])
      /\ InPlace(v) => InPlace(v)'
  BY ZenonT(30) DEF Latest, Exists, FirstLife, Cached, InPlace
<1>4. CASE Latest(crs[v]).state = "Pending" /\ ~ Latest(crs[v]).del
  <2>1. pos[n][v] = Len(crs[v]) /\ pos[n][v] # 0 /\ v \notin queue[n] /\ InPlace(v)
    BY <1>4, StrayWorker, ZenonT(30) DEF Waits, StrayOK, ProvisionOK
  <2>2. ProvisionOK(v)'
    BY <1>2, <1>3, <2>1, ZenonT(30) DEF ProvisionOK
  <2>3. QED
    BY <1>1, <1>3, <1>4, <2>2, ZenonT(30) DEF StrayOK
<1>5. CASE Latest(crs[v]).state = "Ready"
  <2>1. Cached(n, v).state = "Ready" /\ ProvisionedOK(v)
    BY <1>5, StrayWorker, ZenonT(30) DEF StrayOK
  <2>2. ProvisionedOK(v)'
    BY <1>2, <1>3, <2>1, ZenonT(30) DEF ProvisionedOK
  <2>3. QED
    BY <1>1, <1>3, <1>5, <2>2, ZenonT(30) DEF StrayOK
<1>6. QED
  BY <1>1, <1>3, <1>4, <1>5, ZenonT(30) DEF StrayOK

\* Without failing stats, CreateVolume fails only where there is no logical
\* volume: then there is none anywhere.
LEMMA StrayCreate ==
    ASSUME Inv, NEW n \in Nodes, NEW v \in Volumes, StrayOK(v),
           FirstLife(v), n = Latest(crs[v]).owner, "stat" \notin FaultKinds,
           sync[n][v].pc \in {"retryVG", "create"},
           NEW pc \in {"listVGs", "setVG", "failed"},
           pc = "listVGs" => sync[n][v].pc = "retryVG",
           CreateLV(n, v, pc), UNCHANGED <<crs, pos, queue, delayed>>
    PROVE  StrayOK(v)'
<1>1. /\ sync \in [Nodes -> [Volumes -> Sync]] /\ sync[n][v] \in Sync
      /\ lvs \in [Nodes -> SUBSET (VGs \X Volumes)]
      /\ Len(crs[v]) \in Nat /\ Len(crs[v]) # 0
      /\ Busy(n, v) /\ WorkerOK(n, v)
  <2>1. lvs \in [Nodes -> SUBSET (VGs \X Volumes)]
    BY ZenonT(30) DEF Inv, TypeOK
  <2>2. QED
    <3>1. Len(crs[v]) # 0
      BY FirstLifeAgent, Indices, ZenonT(30)
    <3>2. Busy(n, v)
      BY ZenonT(30) DEF Busy
    <3>3. QED
      BY <2>1, <3>1, <3>2, FirstLifeAgent, ZenonT(30)
<1>2. /\ Latest(crs[v])' = Latest(crs[v]) /\ FirstLife(v)' = FirstLife(v)
      /\ Len(crs'[v]) = Len(crs[v]) /\ (Waits(n, v)' <=> Waits(n, v))
  BY ZenonT(30) DEF Latest, Exists, FirstLife, Waits
<1>3. Latest(crs[v]).state # "Ready"
  BY <1>1, StrayWorker, ZenonT(30)
<1>4. SUFFICES ASSUME Latest(crs[v]).state = "Pending", ~ Latest(crs[v]).del
               PROVE  ProvisionOK(v)'
  BY <1>1, <1>2, <1>3, ZenonT(30) DEF StrayOK
<1>5. /\ sync[n][v].rv = Len(crs[v]) /\ Copy(n, v) = Latest(crs[v])
      /\ pos[n][v] # 0 /\ ~ Waits(n, v)
  BY <1>1, <1>4, StrayWorker, ZenonT(30)
<1>6. /\ InPlace(v)
      /\ sync[n][v].pc = "retryVG" => pos[n][v] = Len(crs[v])
      /\ Latest(crs[v]).vg \in VGs
  BY <1>1, <1>4, <1>5, ZenonT(30) DEF StrayOK, ProvisionOK, WorkerOK
<1>7. \A k \in {"ready", "listVGs", "setVG", "failed"} :
         Proceed(n, v, k) => sync'[n][v].pc = k /\ sync'[n][v].rv = sync[n][v].rv
  BY <1>1, ProceedKeeps, ZenonT(30)
<1>8. CASE /\ lvs' = [lvs EXCEPT ![n] = @ \cup {<<Copy(n, v).vg, v>>}]
           /\ Proceed(n, v, "ready")
  <2>1. sync'[n][v].pc = "ready" /\ sync'[n][v].rv = Len(crs'[v])
    BY <1>2, <1>5, <1>7, <1>8, ZenonT(30)
  <2>2. InPlace(v)'
    <3>1. \A m \in Nodes, vg \in VGs : <<vg, v>> \in lvs'[m] =>
             <<vg, v>> \in lvs[m] \/ (m = n /\ vg = Latest(crs[v]).vg)
      BY <1>1, <1>5, <1>8, ZenonT(30)
    <3>2. QED
      BY <1>2, <1>6, <3>1, ZenonT(30) DEF InPlace
  <2>3. QED
    BY <1>2, <1>5, <2>1, <2>2, ZenonT(30) DEF ProvisionOK, Busy
<1>9. CASE /\ <<Copy(n, v).vg, v>> \notin lvs[n]
           /\ Proceed(n, v, pc)
           /\ lvs' = lvs
  <2>1. sync'[n][v].pc = pc /\ sync'[n][v].rv = Len(crs'[v])
    BY <1>2, <1>5, <1>7, <1>9, ZenonT(30)
  <2>2. \A m \in Nodes, vg \in VGs : <<vg, v>> \notin lvs'[m]
    BY <1>5, <1>6, <1>9, ZenonT(30) DEF InPlace
  <2>3. InPlace(v)'
    BY <2>2, ZenonT(30) DEF InPlace
  <2>4. QED
    BY <1>2, <1>5, <1>6, <2>1, <2>2, <2>3, ZenonT(30) DEF ProvisionOK, Busy
<1>10. QED
  BY <1>8, <1>9, ZenonT(30) DEF CreateLV, Fault

\* Choosing the volume groups changes no logical volume.
LEMMA StrayList ==
    ASSUME Inv, NEW n \in Nodes, NEW v \in Volumes, StrayOK(v),
           FirstLife(v), n = Latest(crs[v]).owner, GetVgPriorityList(n, v)
    PROVE  StrayOK(v)'
<1>1. /\ sync \in [Nodes -> [Volumes -> Sync]] /\ sync[n][v] \in Sync
      /\ Len(crs[v]) \in Nat /\ Len(crs[v]) # 0
      /\ Busy(n, v) /\ sync[n][v].pc = "listVGs"
      /\ UNCHANGED <<crs, pos, queue, lvs>>
  <2>1. sync[n][v].pc = "listVGs" /\ UNCHANGED <<crs, pos, queue, lvs>>
    BY ZenonT(30) DEF GetVgPriorityList
  <2>2. QED
    <3>1. Len(crs[v]) # 0
      BY FirstLifeAgent, Indices, ZenonT(30)
    <3>2. Busy(n, v)
      BY <2>1, ZenonT(30) DEF Busy
    <3>3. QED
      BY <2>1, <3>1, <3>2, FirstLifeAgent, ZenonT(30)
<1>2. Latest(crs[v]).state # "Ready"
  BY <1>1, StrayWorker, ZenonT(30)
<1>3. Latest(crs[v]).state = "Pending" /\ ~ Latest(crs[v]).del =>
        /\ sync[n][v].rv = Len(crs[v]) /\ pos[n][v] # 0 /\ ~ Waits(n, v)
        /\ InPlace(v) /\ pos[n][v] = Len(crs[v])
        /\ \A m \in Nodes, vg \in VGs : <<vg, v>> \notin lvs[m]
  BY <1>1, StrayWorker, ZenonT(30) DEF StrayOK, ProvisionOK
<1>4. CASE Requeue(n, v)
  BY <1>1, <1>3, <1>4, StrayGiveUp, ZenonT(30)
<1>5. ASSUME NEW vgs \in SUBSET VGs, UNCHANGED delayed,
             sync' = [sync EXCEPT ![n][v] =
                         [@ EXCEPT !.pc = IF vgs = {} THEN "failed" ELSE "setVG",
                                   !.todo = vgs]]
      PROVE  StrayOK(v)'
  <2>1. /\ sync'[n][v].pc \in {"failed", "setVG"}
        /\ sync'[n][v].rv = sync[n][v].rv
    <3>1. \A s \in Sync, k \in {"failed", "setVG"} :
             \A t : t = [s EXCEPT !.pc = k, !.todo = vgs] => t.pc = k /\ t.rv = s.rv
      BY ZenonT(30) DEF Sync
    <3>2. PICK k \in {"failed", "setVG"} : k = IF vgs = {} THEN "failed" ELSE "setVG"
      BY ZenonT(30)
    <3> DEFINE new == [sync[n][v] EXCEPT !.pc = k, !.todo = vgs]
    <3>3. sync' = [sync EXCEPT ![n][v] = new]
      BY <1>5, <3>2, ZenonT(30)
    <3>4. \A t : t = new => t.pc = k /\ t.rv = sync[n][v].rv
      BY <1>1, <3>1, ZenonT(30)
    <3> HIDE DEF new
    <3>5. sync'[n][v] = new
      BY <1>1, <3>3, ZenonT(30)
    <3>6. QED
      BY <3>4, <3>5, ZenonT(30)
  <2>2. /\ Latest(crs[v])' = Latest(crs[v]) /\ FirstLife(v)' = FirstLife(v)
        /\ Len(crs'[v]) = Len(crs[v]) /\ (Waits(n, v)' <=> Waits(n, v))
        /\ InPlace(v) => InPlace(v)'
    BY <1>1, <1>5, ZenonT(30) DEF Latest, Exists, FirstLife, Waits, InPlace
  <2>3. Latest(crs[v]).state = "Pending" /\ ~ Latest(crs[v]).del =>
          ProvisionOK(v)'
    <3>1. /\ sync'[n][v].pc \notin {"idle", "retryVG", "listVGs"}
          /\ Len(crs'[v]) = Len(crs[v]) /\ lvs' = lvs /\ pos' = pos
      BY <1>1, <2>1, <2>2, ZenonT(30)
    <3>2. QED
      BY <1>3, <2>1, <2>2, <3>1, ZenonT(30) DEF ProvisionOK
  <2>4. QED
    BY <1>1, <1>2, <2>2, <2>3, ZenonT(30) DEF StrayOK
<1>6. QED
  BY <1>4, <1>5, ZenonT(30) DEF GetVgPriorityList

\* Without API errors, an update fails only because the copy is not current.
LEMMA UpdateWithoutErrors ==
    ASSUME "api" \notin FaultKinds, NEW n, NEW v, NEW vol, NEW next,
           Update(n, v, vol, next)
    PROVE  \/ /\ sync[n][v].rv = Len(crs[v])
              /\ crs' = [crs EXCEPT ![v] = Updated(crs[v], vol)]
              /\ sync' = [sync EXCEPT ![n][v] = next]
              /\ delayed' = delayed
           \/ /\ sync[n][v].rv # Len(crs[v])
              /\ crs' = crs
              /\ Requeue(n, v)
BY ZenonT(30) DEF Update, Fault

\* The volume group is written when there is no logical volume.
LEMMA StraySetVG ==
    ASSUME Inv, NEW n \in Nodes, NEW v \in Volumes, StrayOK(v),
           FirstLife(v), n = Latest(crs[v]).owner, "api" \notin FaultKinds,
           UpdateVolGroup(n, v)
    PROVE  StrayOK(v)'
<1>1. /\ sync \in [Nodes -> [Volumes -> Sync]] /\ sync[n][v] \in Sync
      /\ crs \in [Volumes -> Seq(Version)]
      /\ crs[v] \in Seq(Version) /\ HistoryOK(crs[v])
      /\ Len(crs[v]) \in Nat /\ Len(crs[v]) # 0 /\ Len(crs[v]) > 0
      /\ Exists(crs[v])
      /\ Latest(crs[v]) \in Version /\ WellFormed(Latest(crs[v]))
      /\ ~ Latest(crs[v]).gone /\ Latest(crs[v]).uid = 1
  <2>1. Latest(crs[v]) \in Version /\ WellFormed(Latest(crs[v])) /\ ~ Latest(crs[v]).gone
    BY FirstLifeFacts, ZenonT(30)
  <2>2. Len(crs[v]) # 0 /\ Len(crs[v]) > 0
    BY FirstLifeAgent, Indices, ZenonT(30)
  <2>3. QED
    BY <2>1, <2>2, FirstLifeAgent, ZenonT(30) DEF Inv, TypeOK, FirstLife
<1>2. /\ sync[n][v].pc = "setVG" /\ Busy(n, v)
      /\ UNCHANGED <<pos, queue, lvs>>
  BY ZenonT(30) DEF UpdateVolGroup, Busy
<1>3. PICK vg \in sync[n][v].todo :
        LET vol == WithVolGroup(Copy(n, v), vg)
        IN  Update(n, v, vol, [pc   |-> "create",
                               rv   |-> Len(Updated(crs[v], vol)),
                               todo |-> sync[n][v].todo \ {vg}])
  BY ZenonT(30) DEF UpdateVolGroup
<1>4. vg \in VGs
  BY <1>1, ZenonT(30) DEF Sync
<1> DEFINE upd == WithVolGroup(Copy(n, v), vg)
           next == [pc |-> "create", rv |-> Len(Updated(crs[v], upd)),
                    todo |-> sync[n][v].todo \ {vg}]
<1>5. next.pc = "create" /\ next.rv = Len(Updated(crs[v], upd))
  BY ZenonT(30)
<1>6. Update(n, v, upd, next)
  BY <1>3, ZenonT(30)
<1>7. upd = WithVolGroup(Copy(n, v), vg)
  BY ZenonT(30)
<1> HIDE DEF upd, next
<1>8. Latest(crs[v]).state # "Ready"
  BY <1>2, StrayWorker, ZenonT(30)
<1>9. CASE /\ sync[n][v].rv = Len(crs[v])
           /\ crs' = [crs EXCEPT ![v] = Updated(crs[v], upd)]
           /\ sync' = [sync EXCEPT ![n][v] = next]
           /\ delayed' = delayed
  <2>1. Copy(n, v) = Latest(crs[v])
    BY <1>9, ZenonT(30) DEF Copy, Latest
  <2>2. Copy(n, v).state = "Pending" /\ ~ Copy(n, v).del
    <3>1. WorkerOK(n, v)
      BY ZenonT(30) DEF Inv
    <3>2. QED
      BY <1>2, <3>1, ZenonT(30) DEF WorkerOK
  <2>3. PICK new : new = Stored(upd)
    BY ZenonT(30)
  <2>4. /\ new \in Version /\ new.uid = 1 /\ new.vg = vg
        /\ new.state = "Pending" /\ ~ new.gone /\ ~ new.del
        /\ new.owner = n /\ WellFormed(new) /\ Follows(Latest(crs[v]), new)
    <3>1. /\ new \in Version /\ new.uid = 1 /\ new.vg = vg
          /\ new.state = "Pending" /\ ~ new.gone /\ ~ new.del
          /\ WellFormed(new) /\ Follows(Latest(crs[v]), new)
      <4>1. PICK vol : vol = Latest(crs[v])
        BY ZenonT(30)
      <4>2. /\ vol \in Version /\ WellFormed(vol) /\ ~ vol.gone /\ ~ vol.del
            /\ vol.state = "Pending" /\ vol.uid = 1 /\ upd = WithVolGroup(vol, vg)
        BY <1>1, <1>7, <2>1, <2>2, <4>1, ZenonT(30)
      <4>3. /\ new \in Version /\ new.uid = vol.uid /\ new.vg = vg
            /\ new.state = "Pending" /\ ~ new.gone /\ ~ new.del
            /\ WellFormed(new) /\ Follows(vol, new)
        BY <1>4, <2>3, <4>2, VolGroupVersion
      <4>4. QED
        BY <4>1, <4>2, <4>3, ZenonT(30)
    <3>2. QED
      BY <1>1, <3>1, ZenonT(30) DEF Follows
  <2>5. /\ crs'[v] = Updated(crs[v], upd) /\ sync'[n][v] = next
        /\ Latest(crs[v])' = new /\ Len(crs'[v]) \in Nat /\ Len(crs'[v]) # 0
    <3>1. /\ Latest(Updated(crs[v], upd)) = new
          /\ Len(Updated(crs[v], upd)) \in Nat /\ Len(Updated(crs[v], upd)) >= Len(crs[v])
      BY <1>1, <2>3, <2>4, UpdatedGrows, ZenonT(30)
    <3>2. crs'[v] = Updated(crs[v], upd) /\ sync'[n][v] = next
      BY <1>1, <1>9, ZenonT(30)
    <3>3. QED
      BY <1>1, <3>1, <3>2, Successors, ZenonT(30) DEF Latest
  <2>6. /\ pos[n][v] # 0 /\ ~ Waits(n, v)
        /\ \A m \in Nodes, g \in VGs : <<g, v>> \notin lvs'[m]
    BY <1>2, <2>1, <2>2, StrayWorker, ZenonT(30) DEF StrayOK, ProvisionOK
  <2>7. InPlace(v)' /\ ~ Waits(n, v)'
    BY <1>2, <1>9, <2>6, ZenonT(30) DEF InPlace, Waits
  <2>8. sync'[n][v].pc = "create" /\ sync'[n][v].rv = Len(crs'[v])
    BY <1>5, <2>5, ZenonT(30)
  <2>9. ProvisionOK(v)'
    <3>1. Latest(crs[v])'.owner = n /\ pos'[n][v] # 0
      BY <1>2, <2>4, <2>5, <2>6, ZenonT(30)
    <3>2. sync'[n][v].pc \notin {"idle", "retryVG", "listVGs"}
      BY <2>8, ZenonT(30)
    <3>3. QED
      BY <2>6, <2>7, <2>8, <3>1, <3>2, ZenonT(30) DEF ProvisionOK
  <2>10. QED
    BY <2>4, <2>5, <2>9, ZenonT(30) DEF StrayOK
<1>10. CASE sync[n][v].rv # Len(crs[v]) /\ crs' = crs /\ Requeue(n, v)
  <2>1. ~ (Latest(crs[v]).state = "Pending" /\ ~ Latest(crs[v]).del)
    BY <1>2, <1>10, StrayWorker, ZenonT(30)
  <2>2. QED
    BY <1>2, <1>10, <2>1, StrayGiveUp, ZenonT(30)
<1>11. QED
  BY <1>6, <1>9, <1>10, UpdateWithoutErrors, ZenonT(30)

\* UpdateVolInfo: the volume leaves the state Pending with its group as it is,
\* and the worker stops.
LEMMA StrayMark ==
    ASSUME Inv, NEW n \in Nodes, NEW v \in Volumes, StrayOK(v),
           FirstLife(v), n = Latest(crs[v]).owner, "api" \notin FaultKinds,
           MarkReady(n, v) \/ MarkFailed(n, v)
    PROVE  StrayOK(v)'
<1>1. /\ sync \in [Nodes -> [Volumes -> Sync]] /\ sync[n][v] \in Sync
      /\ crs \in [Volumes -> Seq(Version)]
      /\ crs[v] \in Seq(Version) /\ HistoryOK(crs[v])
      /\ Len(crs[v]) \in Nat /\ Len(crs[v]) # 0 /\ Len(crs[v]) > 0
      /\ Exists(crs[v])
      /\ Latest(crs[v]) \in Version /\ WellFormed(Latest(crs[v]))
      /\ ~ Latest(crs[v]).gone
  <2>1. Latest(crs[v]) \in Version /\ WellFormed(Latest(crs[v])) /\ ~ Latest(crs[v]).gone
    BY FirstLifeFacts, ZenonT(30)
  <2>2. Len(crs[v]) # 0 /\ Len(crs[v]) > 0
    BY FirstLifeAgent, Indices, ZenonT(30)
  <2>3. QED
    BY <2>1, <2>2, FirstLifeAgent, ZenonT(30) DEF Inv, TypeOK, FirstLife
<1>2. PICK state \in {"Ready", "Failed"} :
        /\ UpdateVolInfo(n, v, state)
        /\ sync[n][v].pc = IF state = "Ready" THEN "ready" ELSE "failed"
  BY ZenonT(30) DEF MarkReady, MarkFailed
<1>3. /\ Busy(n, v) /\ UNCHANGED <<pos, queue, lvs>>
      /\ sync[n][v].pc \notin {"destroy", "unfinalize"}
  BY <1>2, ZenonT(30) DEF UpdateVolInfo, Busy
<1>4. /\ Copy(n, v).state = "Pending" /\ ~ Copy(n, v).del
      /\ state = "Ready" => Copy(n, v).vg \in VGs
      /\ ~ Copy(n, v).fin
  <2>1. WorkerOK(n, v)
    BY ZenonT(30) DEF Inv
  <2>2. /\ Copy(n, v).state = "Pending" /\ ~ Copy(n, v).del
        /\ sync[n][v].rv \in 1..Len(crs[v])
        /\ state = "Ready" => Copy(n, v).vg \in VGs
    BY <1>2, <1>3, <2>1, ZenonT(30) DEF WorkerOK
  <2>3. WellFormed(Copy(n, v))
    BY <1>1, <2>2, LatestIsNewest, ZenonT(30) DEF Copy
  <2>4. QED
    BY <2>2, <2>3, ZenonT(30) DEF WellFormed
<1> DEFINE upd == WithVolInfo(Copy(n, v), state, n)
<1>5. Update(n, v, upd, Idle)
  BY <1>2, <1>4, ZenonT(30) DEF UpdateVolInfo
<1>6. upd = WithVolInfo(Copy(n, v), state, n)
  BY ZenonT(30)
<1> HIDE DEF upd
<1>7. Latest(crs[v]).state # "Ready"
  BY <1>3, StrayWorker, ZenonT(30)
<1>8. CASE /\ sync[n][v].rv = Len(crs[v])
           /\ crs' = [crs EXCEPT ![v] = Updated(crs[v], upd)]
           /\ sync' = [sync EXCEPT ![n][v] = Idle]
           /\ delayed' = delayed
  <2>1. Copy(n, v) = Latest(crs[v])
    BY <1>8, ZenonT(30) DEF Copy, Latest
  <2>2. PICK new : new = Stored(upd)
    BY ZenonT(30)
  <2>3. /\ new \in Version /\ new.vg = Latest(crs[v]).vg
        /\ new.state = state /\ new.owner = n
        /\ WellFormed(new) /\ Follows(Latest(crs[v]), new)
    <3>1. PICK vol : vol = Latest(crs[v])
      BY ZenonT(30)
    <3>2. /\ vol \in Version /\ WellFormed(vol) /\ ~ vol.gone /\ ~ vol.del
          /\ vol.state = "Pending" /\ vol.owner = n
          /\ state = "Ready" => vol.vg \in VGs
          /\ upd = WithVolInfo(vol, state, n)
      BY <1>1, <1>4, <1>6, <2>1, <3>1, ZenonT(30)
    <3>3. /\ new \in Version /\ new.vg = vol.vg /\ new.owner = vol.owner
          /\ new.state = state /\ WellFormed(new) /\ Follows(vol, new)
      BY <2>2, <3>2, VolInfoVersion
    <3>4. QED
      BY <3>1, <3>2, <3>3, ZenonT(30)
  <2>4. /\ Latest(crs[v])' = new /\ Len(crs'[v]) # 0 /\ sync'[n][v] = Idle
    <3>1. /\ Latest(Updated(crs[v], upd)) = new
          /\ Len(Updated(crs[v], upd)) \in Nat /\ Len(Updated(crs[v], upd)) >= Len(crs[v])
      BY <1>1, <2>2, <2>3, UpdatedGrows, ZenonT(30)
    <3>2. crs'[v] = Updated(crs[v], upd) /\ sync'[n][v] = Idle
      BY <1>1, <1>8, ZenonT(30)
    <3>3. QED
      BY <1>1, <3>1, <3>2, Successors, ZenonT(30) DEF Latest
  <2>5. pos[n][v] # 0 /\ ~ Waits(n, v) /\ InPlace(v)
    BY <1>3, <1>4, <2>1, StrayWorker, ZenonT(30) DEF StrayOK, ProvisionOK
  <2>6. InPlace(v)' /\ ~ Waits(n, v)' /\ ~ Busy(n, v)'
    <3>1. Latest(crs[v])'.owner = Latest(crs[v]).owner
          /\ Latest(crs[v])'.vg = Latest(crs[v]).vg
      BY <2>3, <2>4, ZenonT(30)
    <3>2. InPlace(v)'
      BY <1>3, <2>5, <3>1, ZenonT(30) DEF InPlace
    <3>3. QED
      BY <1>3, <1>8, <2>4, <2>5, <3>2, IdleWorker, ZenonT(30) DEF Waits, Busy
  <2>7. pos'[n][v] >= 1
    BY <1>3, <2>5 DEF Inv, TypeOK
  <2>8. ProvisionedOK(v)'
    BY <2>3, <2>4, <2>6, <2>7, ZenonT(30) DEF ProvisionedOK
  <2>9. QED
    BY <2>3, <2>4, <2>8, ZenonT(30) DEF StrayOK
<1>9. CASE sync[n][v].rv # Len(crs[v]) /\ crs' = crs /\ Requeue(n, v)
  <2>1. ~ (Latest(crs[v]).state = "Pending" /\ ~ Latest(crs[v]).del)
    BY <1>3, <1>9, StrayWorker, ZenonT(30)
  <2>2. QED
    BY <1>3, <1>9, <2>1, StrayGiveUp, ZenonT(30)
<1>10. QED
  BY <1>5, <1>8, <1>9, UpdateWithoutErrors, ZenonT(30)

\* Deprovisioning of a volume that was Ready: its logical volume goes first,
\* then the finalizer, and with it the resource.
LEMMA StrayDestroy ==
    ASSUME Inv, NEW n \in Nodes, NEW v \in Volumes, StrayOK(v),
           FirstLife(v), n = Latest(crs[v]).owner, "api" \notin FaultKinds,
           DestroyVolume(n, v) \/ RemoveVolFinalizer(n, v)
    PROVE  StrayOK(v)'
<1>1. /\ sync \in [Nodes -> [Volumes -> Sync]] /\ sync[n][v] \in Sync
      /\ crs \in [Volumes -> Seq(Version)]
      /\ crs[v] \in Seq(Version) /\ HistoryOK(crs[v])
      /\ lvs \in [Nodes -> SUBSET (VGs \X Volumes)]
      /\ Len(crs[v]) \in Nat /\ Len(crs[v]) # 0 /\ Len(crs[v]) > 0
      /\ Exists(crs[v])
      /\ Latest(crs[v]) \in Version /\ WellFormed(Latest(crs[v]))
      /\ ~ Latest(crs[v]).gone
  <2>1. Latest(crs[v]) \in Version /\ WellFormed(Latest(crs[v])) /\ ~ Latest(crs[v]).gone
    BY FirstLifeFacts, ZenonT(30)
  <2>2. Len(crs[v]) # 0 /\ Len(crs[v]) > 0
    BY FirstLifeAgent, Indices, ZenonT(30)
  <2>3. QED
    BY <2>1, <2>2, FirstLifeAgent, ZenonT(30) DEF Inv, TypeOK, FirstLife
<1>2. Busy(n, v) /\ sync[n][v].pc \in {"destroy", "unfinalize"}
  BY ZenonT(30) DEF DestroyVolume, RemoveVolFinalizer, Busy
<1>3. ~ (Latest(crs[v]).state = "Pending" /\ ~ Latest(crs[v]).del)
  BY <1>2, StrayWorker, ZenonT(30)
<1>4. CASE Requeue(n, v) /\ UNCHANGED <<crs, pos, queue, lvs>>
  BY <1>2, <1>3, <1>4, StrayGiveUp, ZenonT(30)
<1>5. CASE /\ lvs' = [lvs EXCEPT ![n] = @ \ {<<Copy(n, v).vg, v>>}]
           /\ Proceed(n, v, "unfinalize")
           /\ UNCHANGED <<crs, pos, queue, delayed>>
  <2>1. /\ Latest(crs[v])' = Latest(crs[v])
        /\ Len(crs'[v]) = Len(crs[v]) /\ FirstLife(v)' = FirstLife(v)
        /\ Cached(n, v)' = Cached(n, v) /\ (Waits(n, v)' <=> Waits(n, v))
    BY <1>5, ZenonT(30) DEF Latest, Exists, FirstLife, Cached, Waits
  <2>2. sync'[n][v].rv = sync[n][v].rv
    BY <1>1, <1>5, ProceedKeeps, ZenonT(30)
  <2>3. Copy(n, v)' = Copy(n, v)
    BY <1>5, <2>2, ZenonT(30) DEF Copy
  <2>4. InPlace(v) => InPlace(v)'
    <3>1. \A m \in Nodes, vg \in VGs : <<vg, v>> \in lvs'[m] => <<vg, v>> \in lvs[m]
      BY <1>1, <1>5, ZenonT(30)
    <3>2. QED
      BY <2>1, <3>1, ZenonT(30) DEF InPlace
  <2>5. Latest(crs[v]).state = "Ready" => ProvisionedOK(v)'
    BY <1>2, <1>5, <2>1, <2>3, <2>4, ZenonT(30) DEF StrayOK, ProvisionedOK
  <2>6. QED
    BY <1>1, <1>3, <2>1, <2>5, ZenonT(30) DEF StrayOK
<1>6. CASE /\ sync[n][v].pc = "unfinalize"
           /\ sync[n][v].rv = Len(crs[v])
           /\ crs' = [crs EXCEPT ![v] =
                         Updated(crs[v], WithoutFinalizer(Copy(n, v)))]
  <2>1. Copy(n, v) = Latest(crs[v])
    BY <1>6, ZenonT(30) DEF Copy, Latest
  <2>2. Copy(n, v).del
    <3>1. WorkerOK(n, v)
      BY ZenonT(30) DEF Inv
    <3>2. QED
      BY <1>2, <3>1, ZenonT(30) DEF WorkerOK
  <2>3. PICK upd, new : upd = WithoutFinalizer(Copy(n, v)) /\ new = Stored(upd)
    BY ZenonT(30)
  <2>4. /\ new \in Version /\ new.gone
        /\ WellFormed(new) /\ Follows(Latest(crs[v]), new)
    BY <1>1, <2>1, <2>2, <2>3, UnfinalizedVersion, ZenonT(30)
  <2>5. Latest(crs[v])' = new /\ Len(crs'[v]) # 0
    <3>1. /\ Latest(Updated(crs[v], upd)) = new
          /\ Len(Updated(crs[v], upd)) \in Nat /\ Len(Updated(crs[v], upd)) >= Len(crs[v])
      BY <1>1, <2>3, <2>4, UpdatedGrows, ZenonT(30)
    <3>2. crs'[v] = Updated(crs[v], upd)
      BY <1>1, <1>6, <2>3, ZenonT(30)
    <3>3. QED
      BY <1>1, <3>1, <3>2, Successors, ZenonT(30) DEF Latest
  <2>6. ~ FirstLife(v)'
    BY <2>4, <2>5, ZenonT(30) DEF FirstLife, Exists, Latest
  <2>7. QED
    BY <2>5, <2>6, ZenonT(30) DEF StrayOK
<1>7. CASE DestroyVolume(n, v)
  BY <1>4, <1>5, <1>7, ZenonT(30) DEF DestroyVolume
<1>8. CASE RemoveVolFinalizer(n, v)
  BY <1>4, <1>6, <1>8, UpdateWithoutErrors, ZenonT(30) DEF RemoveVolFinalizer
<1>9. QED
  BY <1>7, <1>8, ZenonT(30)
=============================================================================
