-------------------------- MODULE Placement_proofs --------------------------
(***************************************************************************)
(* Placement, for any number of nodes, volume groups, volumes and troubles *)
(* and any storage classes: the lock of the controllers, the free space,   *)
(* what GetCapacity promises, and where the scheduler puts a volume.       *)
(***************************************************************************)
EXTENDS Placement, FiniteSetTheorems, WellFoundedInduction, TLAPS

\* A leaf that names no prover is for SMT, in two tries.
USE SMTT(30), SMTT(60)

-----------------------------------------------------------------------------
\* The inductive invariant.

\* Free space, by group.
Space == [Groups -> 0 .. Capacity]

\* The worker's records.
Syncs == [pc : {"idle", "list", "write"}, copy : Report, fresh : BOOLEAN,
          vgs : {<<>>} \cup Space]

\* The worker's record, and thin pools are in groups.
TypeInv ==
    /\ PlacementTypeOK
    /\ sync \in Syncs
    /\ sync.pc = "write" => sync.vgs \in Space
    /\ pools \in [Nodes -> SUBSET Groups]

\* The other nodes report.
OthersInv ==
    \A n \in Nodes \ {This} : lvmnode[n].exists /\ lvmnode[n].groups \in Space

\* The holder of the lock is the controller that is being built.
LockInv == \A c \in Controllers : ctl[c] = "building" <=> lock = c

\* The handler records.
IsCall(c) ==
    /\ c = [pc |-> c.pc, cap |-> c.cap, segment |-> c.segment,
            nmap |-> c.nmap, undisturbed |-> c.undisturbed]
    /\ c.pc \in {"idle", "mapped", "wait", "done"}
    /\ c.pc \in {"mapped", "wait"} => c.cap \in Nat \ {0}
    /\ c.undisturbed \in BOOLEAN

CallInv ==
    /\ DOMAIN calls = Volumes
    /\ calls = [v \in Volumes |-> calls[v]]
    /\ \A v \in Volumes : IsCall(calls[v])

\* A volume without a group is one that a call waits for, and the only one.
PendingInv ==
    /\ \A vol \in vols : vol.group = NoGroup =>
          /\ vol = [name |-> vol.name, node |-> vol.node, group |-> NoGroup,
                    cap |-> vol.cap]
          /\ vol.name \in Volumes
          /\ calls[vol.name].pc = "wait"
          /\ vol.cap = calls[vol.name].cap
    /\ \A u, w \in vols :
          u.group = NoGroup /\ w.group = NoGroup /\ u.name = w.name => u = w

\* What the reports would say if they were true.
Truth == [n \in Nodes |-> [exists |-> TRUE, groups |-> FreeOf(n)]]

\* An undisturbed call has listed what is true still; no other call has a
\* volume without a group; and its own volume is where the listing led.
ListedInv ==
    \A v \in Volumes : calls[v].undisturbed =>
        /\ calls[v].pc \in {"mapped", "wait"}
        /\ \A vol \in vols : vol.group = NoGroup => vol.name = v
        /\ calls[v].pc = "mapped" =>
              calls[v].nmap = getNodeMap(class.schd, vols, Truth, class.pattern)
        /\ calls[v].pc = "wait" /\ BySpace =>
              \A vol \in vols : vol.group = NoGroup =>
                 vol.node \in Scheduler(getSpaceWeightedMap(Truth, class.pattern),
                                        filterNodesByTopology(calls[v].segment),
                                        absentFirst)

PlacementInv ==
    TypeInv /\ OthersInv /\ LockInv /\ CallInv /\ PendingInv /\ ListedInv

-----------------------------------------------------------------------------
\* Operators.

\* Max is what its name says, for a set of numbers up to c.
LEMMA MaxOf ==
    ASSUME NEW c \in Nat, NEW S \in SUBSET (0 .. c), S # {}
    PROVE  Max(S) \in S /\ \A x \in S : x <= Max(S)
<1> DEFINE T == {c - x : x \in S}
           R == OpToRel(<, Nat)
<1>1. T \subseteq Nat /\ T # {}
  <2>1. T # {}
    BY ZenonT(30)
  <2>2. \A x \in S : c - x \in Nat
    OBVIOUS
  <2> QED
    BY <2>1, <2>2, ZenonT(30)
<1>2. IsWellFoundedOn(R, Nat)
  BY NatLessThanWellFounded, ZenonT(30)
<1>3. \A t, u \in Nat : u < t => <<u, t>> \in R
  BY DEF OpToRel
<1> HIDE DEF R
<1>4. PICK t \in T : \A u \in T : ~ (<<u, t>> \in R)
  <2> HIDE DEF T
  <2> QED
    BY <1>1, <1>2, WFMin, ZenonT(30)
<1>5. \A u \in T : t <= u
  <2> HIDE DEF T
  <2>1. t \in Nat /\ \A u \in T : u \in Nat /\ ~ (u < t)
    BY <1>1, <1>3, <1>4, ZenonT(30)
  <2> QED
    BY <2>1
<1>6. PICK x \in S : t = c - x
  OBVIOUS
<1>7. \A y \in S : x >= y
  <2>1. \A y \in S : t <= c - y
    BY <1>5
  <2> HIDE DEF T
  <2> QED
    BY <1>6, <2>1
<1>8. \E m \in S : \A y \in S : m >= y
  BY <1>7, ZenonT(30)
<1>9. Max(S) \in S /\ \A y \in S : Max(S) >= y
  <2> HIDE DEF T
  <2> QED
    BY <1>8, ZenonT(30) DEF Max
<1> QED
  <2> HIDE DEF T
  <2> QED
    BY <1>9

\* The largest free space that a report shows among the groups asked for.
LEMMA MaxFreeOf ==
    ASSUME NEW report, report.groups \in Space, NEW pattern
    PROVE  /\ MaxFree(report, pattern) \in 0 .. Capacity
           /\ \A g \in Groups \cap pattern :
                 report.groups[g] <= MaxFree(report, pattern)
           /\ MaxFree(report, pattern) > 0 =>
                 \E g \in Groups \cap pattern :
                    report.groups[g] = MaxFree(report, pattern)
<1> DEFINE S == {0} \cup {report.groups[g] : g \in DOMAIN report.groups \cap pattern}
<1>1. /\ Capacity \in Nat /\ S \in SUBSET (0 .. Capacity) /\ S # {}
      /\ \A g \in Groups \cap pattern : report.groups[g] \in S
      /\ \A x \in S : x = 0 \/ \E g \in Groups \cap pattern : report.groups[g] = x
  BY InventoryAssumption DEF Space
<1>2. MaxFree(report, pattern) = Max(S)
  BY ZenonT(30) DEF MaxFree
<1> HIDE DEF S
<1>3. Max(S) \in S /\ \A x \in S : x <= Max(S)
  BY <1>1, MaxOf, ZenonT(30)
<1>4. Max(S) \in 0 .. Capacity
  BY <1>1, <1>3, ZenonT(30)
<1>5. Max(S) > 0 => \E g \in Groups \cap pattern : report.groups[g] = Max(S)
  <2>1. Max(S) > 0 => Max(S) # 0
    BY <1>4
  <2> QED
    BY <1>1, <1>3, <2>1, ZenonT(30)
<1> QED
  BY <1>1, <1>2, <1>3, <1>4, <1>5, ZenonT(30)

\* Every node has a report with the free space of all groups.
AllReport(reports) ==
    \A n \in Nodes : reports[n].exists /\ reports[n].groups \in Space

\* Half of the integers are negative.
LEMMA MaxIntIsInt == MaxInt \in Int
  BY SizingAssumption DEF MaxInt

\* The whole units of a capacity.
LEMMA WholeUnits ==
    ASSUME NEW cap \in Nat, NEW unit \in Nat \ {0}
    PROVE  (cap \div unit) * unit \in Nat /\ (cap \div unit) * unit <= cap
  OBVIOUS

\* RoundUp takes a size to a multiple of the unit, and a capacity holds that
\* when its whole units hold the size.
LEMMA RoundUpFits ==
    ASSUME NEW size \in Nat \ {0}, NEW unit \in Nat \ {0}, NEW cap \in Nat,
           size + unit - 1 <= MaxInt
    PROVE  /\ RoundUp(size, unit) \in Nat \ {0}
           /\ RoundUp(size, unit) <= cap <=> size <= (cap \div unit) * unit
           /\ size <= RoundUp(size, unit)
<1> DEFINE top == size + unit - 1
           q == top \div unit
           k == cap \div unit
<1>1. top \in Nat /\ top <= MaxInt /\ top >= unit
  OBVIOUS
<1>2. Wrap(top) = top
  BY <1>1, SizingAssumption DEF Wrap, MaxInt
<1>3. RoundUp(size, unit) = q * unit
  <2>1. RoundUp(size, unit) = Quotient(top, unit) * unit
    BY <1>2, ZenonT(30) DEF RoundUp
  <2> HIDE DEF top
  <2> QED
    BY <1>1, <2>1 DEF Quotient
<1>4. q \in Nat \ {0} /\ q * unit <= top /\ top < q * unit + unit
  BY <1>1
<1>5. k \in Nat /\ k * unit <= cap /\ cap < k * unit + unit
  OBVIOUS
<1> HIDE DEF q, k
<1>6. \A i, j \in Nat : i * unit < j * unit + unit => i * unit <= j * unit
  <2> SUFFICES ASSUME NEW i \in Nat, NEW j \in Nat, i * unit < j * unit + unit
               PROVE  i * unit <= j * unit
    OBVIOUS
  <2>1. (j + 1) * unit = j * unit + unit
    OBVIOUS
  <2>2. i * unit < (j + 1) * unit
    BY <2>1
  <2>3. i <= j
    BY <2>2
  <2> QED
    BY <2>3
<1>7. q * unit \in Nat \ {0} /\ k * unit \in Nat
  BY <1>4, <1>5
<1>8. /\ q * unit < k * unit + unit => q * unit <= k * unit
      /\ size <= q * unit
  BY <1>4, <1>5, <1>6, <1>7
<1>9. q * unit <= cap <=> size <= k * unit
  BY <1>4, <1>5, <1>7, <1>8
<1> QED
  BY <1>3, <1>5, <1>7, <1>8, <1>9 DEF k

\* What getRoundedCapacity makes of a request is not more than a capacity when
\* the request is not more than its whole Gi, or Mi below one Gi.
LEMMA RoundedFits ==
    ASSUME NEW size \in Sizes, NEW cap \in Nat
    PROVE  /\ getRoundedCapacity(size) \in Nat \ {0}
           /\ getRoundedCapacity(size) <= cap <=> size <= Requestable(cap)
<1>1. /\ Mi \in Nat \ {0} /\ Gi \in Nat \ {0} /\ Mi <= Gi
  BY SizingAssumption
<1>2. size \in Nat \ {0} /\ size + Gi - 1 <= MaxInt /\ size + Mi - 1 <= MaxInt
  BY <1>1, MaxIntIsInt DEF Sizes
<1>3. CASE size > Gi
  <2> DEFINE R == RoundUp(size, Gi)
  <2>1. getRoundedCapacity(size) = R
    BY <1>3 DEF getRoundedCapacity
  <2>2. /\ R \in Nat \ {0} /\ size <= R
        /\ R <= cap <=> size <= (cap \div Gi) * Gi
    BY <1>1, <1>2, RoundUpFits
  <2>3. (cap \div Mi) * Mi \in Nat /\ (cap \div Mi) * Mi <= cap
    BY <1>1, WholeUnits, ZenonT(30)
  <2> HIDE DEF R
  <2>4. CASE cap >= Gi
    BY <2>1, <2>2, <2>4 DEF Requestable
  <2>5. CASE ~ (cap >= Gi)
    <3>1. Requestable(cap) = (cap \div Mi) * Mi
      BY <2>5 DEF Requestable
    <3> DEFINE m == (cap \div Mi) * Mi
    <3> HIDE DEF m
    <3>2. m \in Nat /\ m <= cap /\ Requestable(cap) = m
      BY <2>3, <3>1 DEF m
    <3>3. ~ (R <= cap) /\ ~ (size <= m)
      BY <1>1, <1>2, <1>3, <2>2, <2>5, <3>2
    <3> QED
      BY <2>1, <2>2, <3>2, <3>3
  <2> QED
    BY <2>4, <2>5
<1>4. CASE ~ (size > Gi)
  <2> DEFINE R == RoundUp(size, Mi)
  <2>1. getRoundedCapacity(size) = R
    BY <1>4 DEF getRoundedCapacity
  <2>2. R \in Nat \ {0} /\ (R <= cap <=> size <= (cap \div Mi) * Mi)
    BY <1>1, <1>2, RoundUpFits
  <2>3. R <= Gi
    <3>1. R <= Gi <=> size <= (Gi \div Mi) * Mi
      BY <1>1, <1>2, RoundUpFits
    <3>2. (Gi \div Mi) * Mi = Gi
      <4>1. PICK k \in 1 .. Gi : Gi = k * Mi
        BY SizingAssumption
      <4>2. Gi \div Mi = k
        BY <1>1, <4>1
      <4> QED
        BY <4>1, <4>2
    <3> QED
      BY <1>1, <1>2, <1>4, <3>1, <3>2
  <2> HIDE DEF R
  <2>4. CASE cap >= Gi
    <3>1. Requestable(cap) = (cap \div Gi) * Gi
      BY <2>4 DEF Requestable
    <3>2. (cap \div Gi) * Gi >= Gi
      <4>1. cap \div Gi \in Nat \ {0}
        BY <1>1, <2>4
      <4> QED
        BY <1>1, <4>1
    <3>3. (cap \div Gi) * Gi \in Nat
      BY <1>1, WholeUnits, ZenonT(30)
    <3> DEFINE m == (cap \div Gi) * Gi
    <3>4. m \in Nat /\ m >= Gi /\ Requestable(cap) = m
      BY <3>1, <3>2, <3>3
    <3> HIDE DEF m
    <3> QED
      BY <1>1, <1>2, <1>4, <2>1, <2>2, <2>3, <2>4, <3>4
  <2>5. CASE ~ (cap >= Gi)
    BY <2>1, <2>2, <2>5 DEF Requestable
  <2> QED
    BY <2>4, <2>5
<1> QED
  BY <1>3, <1>4

\* What the space weighted map says: who has free space, and the more the
\* lighter.
LEMMA SpaceMap ==
    ASSUME NEW reports, AllReport(reports), NEW pattern,
           NEW nmap, nmap = getSpaceWeightedMap(reports, pattern)
    PROVE  /\ \A n \in Nodes :
                 n \in DOMAIN nmap <=> MaxFree(reports[n], pattern) > 0
           /\ DOMAIN nmap \subseteq Nodes
           /\ \A n \in DOMAIN nmap :
                 nmap[n] = MaxInt - MaxFree(reports[n], pattern)
  BY ZenonT(30) DEF getSpaceWeightedMap, AllReport

\* A node that the space weighted scheduler may pick has at least as much free
\* space as any other one, unless nodes without a weight come first.
LEMMA LightestHasMost ==
    ASSUME NEW reports, AllReport(reports), NEW pattern,
           NEW nodes \in SUBSET Nodes, NEW first,
           NEW owner \in Scheduler(getSpaceWeightedMap(reports, pattern), nodes, first)
    PROVE  /\ owner \in nodes
           /\ \/ first /\ MaxFree(reports[owner], pattern) = 0
              \/ \A n \in nodes : MaxFree(reports[n], pattern)
                                  <= MaxFree(reports[owner], pattern)
<1> DEFINE nmap == getSpaceWeightedMap(reports, pattern)
           F(n) == MaxFree(reports[n], pattern)
           listed == nodes \cap DOMAIN nmap
           absent == nodes \ DOMAIN nmap
<1>1. \A n \in Nodes : F(n) \in Nat
  BY MaxFreeOf, InventoryAssumption DEF AllReport
<1>2. /\ \A n \in Nodes : n \in DOMAIN nmap <=> F(n) > 0
      /\ \A n \in DOMAIN nmap : nmap[n] = MaxInt - F(n)
  BY SpaceMap, ZenonT(30)
<1>3. \/ /\ first \/ listed = {}
         /\ owner \in absent
      \/ /\ owner \in listed
         /\ \A m \in listed : nmap[owner] <= nmap[m]
  BY ZenonT(30) DEF Scheduler
<1> HIDE DEF nmap, F
<1>4. \A n \in Nodes : n \notin DOMAIN nmap => F(n) = 0
  BY <1>1, <1>2
<1>5. CASE (first \/ listed = {}) /\ owner \in absent
  <2>1. F(owner) = 0
    BY <1>4, <1>5, ZenonT(30)
  <2>2. listed = {} => \A n \in nodes : F(n) = 0
    BY <1>4, ZenonT(30)
  <2>3. listed = {} => \A n \in nodes : F(n) <= F(owner)
    BY <2>1, <2>2
  <2> QED
    BY <1>5, <2>1, <2>3, ZenonT(30) DEF F
<1>6. CASE owner \in listed /\ \A m \in listed : nmap[owner] <= nmap[m]
  <2>1. \A m \in listed : F(m) <= F(owner)
    <3>1. F(owner) \in Nat /\ nmap[owner] = MaxInt - F(owner)
      BY <1>1, <1>2, <1>6, ZenonT(30)
    <3>2. \A m \in listed : F(m) \in Nat /\ nmap[m] = MaxInt - F(m)
      BY <1>1, <1>2, ZenonT(30)
    <3>3. \A m \in listed : nmap[owner] <= nmap[m]
      BY <1>6
    <3> HIDE DEF listed
    <3> QED
      BY <3>1, <3>2, <3>3, MaxIntIsInt
  <2>2. \A m \in absent : F(m) = 0
    BY <1>4, ZenonT(30)
  <2>3. \A m \in absent : F(m) <= F(owner)
    BY <1>1, <1>6, <2>2
  <2> QED
    BY <1>6, <2>1, <2>3, ZenonT(30) DEF F
<1> QED
  BY <1>3, <1>5, <1>6, ZenonT(30)

\* GetCapacity answers the largest free space of a group on any of the nodes.
LEMMA CapacityOf ==
    ASSUME NEW reports, AllReport(reports), NEW pattern,
           NEW nodes \in SUBSET Nodes
    PROVE  LET cap == GetCapacity(reports, nodes, pattern) IN
           /\ cap \in Nat
           /\ \A n \in nodes : MaxFree(reports[n], pattern) <= cap
           /\ cap > 0 => \E n \in nodes : MaxFree(reports[n], pattern) = cap
<1> DEFINE S == {0} \cup {MaxFree(reports[n], pattern) :
                             n \in {m \in nodes : reports[m].exists}}
           F(n) == MaxFree(reports[n], pattern)
           cap == GetCapacity(reports, nodes, pattern)
<1>1. \A n \in Nodes : F(n) \in 0 .. Capacity
  BY MaxFreeOf, ZenonT(30) DEF AllReport
<1>2. /\ \A n \in nodes : F(n) \in S
      /\ \A x \in S : x = 0 \/ \E n \in nodes : F(n) = x
      /\ S # {}
  BY ZenonT(30) DEF AllReport
<1>3. cap = Max(S)
  BY ZenonT(30) DEF GetCapacity
<1> HIDE DEF S, F, cap
<1>4. Capacity \in Nat /\ 0 \in 0 .. Capacity
  BY InventoryAssumption
<1>5. S \in SUBSET (0 .. Capacity)
  BY <1>1, <1>2, <1>4, ZenonT(30)
<1>6. cap \in S /\ \A x \in S : x <= cap
  BY <1>2, <1>3, <1>4, <1>5, MaxOf, ZenonT(30)
<1>7. cap \in Nat /\ (cap > 0 => cap # 0)
  <2>1. cap \in 0 .. Capacity
    BY <1>5, <1>6, ZenonT(30)
  <2> QED
    BY <1>4, <2>1
<1> QED
  BY <1>2, <1>6, <1>7, ZenonT(30) DEF F, cap

-----------------------------------------------------------------------------
\* What is true of the nodes.

\* Every node has some free space in all groups, and Truth reports it.
LEMMA TruthReports ==
    ASSUME TypeInv, OthersInv
    PROVE  /\ \A n \in Nodes : FreeOf(n) \in Space
           /\ AllReport(Truth)
           /\ \A n \in Nodes : Truth[n].groups = FreeOf(n)
<1>1. \A n \in Nodes : FreeOf(n) \in Space
  BY ZenonT(30) DEF TypeInv, PlacementTypeOK, OthersInv, FreeOf, Space
<1>2. \A n \in Nodes : Truth[n] = [exists |-> TRUE, groups |-> FreeOf(n)]
  BY ZenonT(30) DEF Truth
<1>3. ASSUME NEW n \in Nodes
      PROVE  Truth[n].exists /\ Truth[n].groups = FreeOf(n)
  <2>1. Truth[n] = [exists |-> TRUE, groups |-> FreeOf(n)]
    BY <1>2, ZenonT(30)
  <2> HIDE DEF Truth
  <2> QED
    BY <2>1
<1> QED
  BY <1>1, <1>3, ZenonT(30) DEF AllReport

\* When the reports are true every node has one that shows its free space.
LEMMA TrueReports ==
    ASSUME TypeInv, OthersInv, ReportsTrue
    PROVE  /\ AllReport(lvmnode)
           /\ \A n \in Nodes : lvmnode[n].groups = FreeOf(n)
  BY TruthReports, ZenonT(30) DEF ReportsTrue, OthersInv, AllReport, FreeOf

\* Topologies are made of nodes.
LEMMA TopologyNodes ==
    ASSUME NEW segment
    PROVE  filterNodesByTopology(segment) \in SUBSET Nodes
  BY ZenonT(30) DEF filterNodesByTopology

\* A group is usable for a thick volume when its free space is enough.
LEMMA UsableThick ==
    ASSUME ~ class.thin, NEW n, NEW c
    PROVE  \A g : g \in Usable([node |-> n, cap |-> c]) <=>
                   /\ g \in Groups \cap class.pattern
                   /\ FreeOf(n)[g] >= c /\ c <= FreeOf(n)[g]
<1> DEFINE vol == [node |-> n, cap |-> c]
<1>1. vol.node = n /\ vol.cap = c
  OBVIOUS
<1>2. \A g : Taken(n, g, c) = c
  BY ZenonT(30) DEF Taken
<1> HIDE DEF vol
<1> QED
  BY <1>1, <1>2, ZenonT(30) DEF Usable, getVgPriorityList, LVCreate, vol

\* GetCapacity in a state in which the reports are true.
LEMMA CapacityPlaceable ==
    ASSUME TypeInv, OthersInv, ReportsTrue, ~ class.thin, NEW segment,
           NEW nodes, nodes = filterNodesByTopology(segment),
           NEW cap, cap = GetCapacity(lvmnode, nodes, class.pattern),
           NEW size \in Sizes, NEW need, need = getRoundedCapacity(size)
    PROVE  IF size <= Requestable(cap)
           THEN \A n \in Scheduler(getSpaceWeightedMap(lvmnode, class.pattern),
                                   nodes, FALSE) :
                   Usable([node |-> n, cap |-> need]) # {}
           ELSE \A n \in nodes : Usable([node |-> n, cap |-> need]) = {}
<1> DEFINE F(n) == MaxFree(lvmnode[n], class.pattern)
<1>1. /\ AllReport(lvmnode) /\ nodes \in SUBSET Nodes
      /\ \A n \in Nodes : lvmnode[n].groups = FreeOf(n)
  BY TrueReports, TopologyNodes, ZenonT(30)
<1>2. /\ cap \in Nat
      /\ \A n \in nodes : F(n) <= cap
      /\ cap > 0 => \E n \in nodes : F(n) = cap
  BY <1>1, CapacityOf, ZenonT(30)
<1>3. \A n \in Nodes :
         /\ F(n) \in Nat
         /\ \A g \in Groups \cap class.pattern : FreeOf(n)[g] <= F(n)
         /\ \A g \in Groups : FreeOf(n)[g] \in Nat
         /\ F(n) > 0 => \E g \in Groups \cap class.pattern : FreeOf(n)[g] = F(n)
  <2> SUFFICES ASSUME NEW n \in Nodes
               PROVE  /\ F(n) \in Nat
                      /\ \A g \in Groups \cap class.pattern : FreeOf(n)[g] <= F(n)
                      /\ \A g \in Groups : FreeOf(n)[g] \in Nat
                      /\ F(n) > 0 => \E g \in Groups \cap class.pattern :
                                        FreeOf(n)[g] = F(n)
    OBVIOUS
  <2>1. lvmnode[n].groups = FreeOf(n) /\ lvmnode[n].groups \in Space
    BY <1>1, ZenonT(30) DEF AllReport
  <2>2. F(n) \in Nat
    BY <2>1, MaxFreeOf, InventoryAssumption
  <2>3. \A g \in Groups : FreeOf(n)[g] \in Nat
    BY <2>1, InventoryAssumption DEF Space
  <2> QED
    BY <2>1, <2>2, <2>3, MaxFreeOf, ZenonT(30)
<1>4. need \in Nat \ {0} /\ (need <= cap <=> size <= Requestable(cap))
  BY <1>2, RoundedFits, ZenonT(30)
<1>5. ASSUME need <= cap,
             NEW n \in Scheduler(getSpaceWeightedMap(lvmnode, class.pattern),
                                 nodes, FALSE)
      PROVE  Usable([node |-> n, cap |-> need]) # {}
  <2>1. n \in nodes /\ \A m \in nodes : F(m) <= F(n)
    BY <1>1, LightestHasMost, ZenonT(30)
  <2> HIDE DEF F
  <2>2. PICK m \in nodes : F(m) = cap
    <3>1. cap > 0
      BY <1>2, <1>4, <1>5
    <3> QED
      BY <1>2, <3>1, ZenonT(30)
  <2>3. F(n) > 0 /\ cap <= F(n) /\ n \in Nodes
    BY <1>1, <1>2, <1>3, <1>4, <1>5, <2>1, <2>2
  <2>4. PICK g \in Groups \cap class.pattern : FreeOf(n)[g] = F(n)
    BY <1>3, <2>3, ZenonT(30)
  <2>5. FreeOf(n)[g] >= need /\ need <= FreeOf(n)[g]
    BY <1>2, <1>3, <1>4, <1>5, <2>3, <2>4
  <2> QED
    BY <2>4, <2>5, UsableThick, ZenonT(30)
<1>6. ASSUME ~ (need <= cap), NEW n \in nodes, NEW g \in Groups \cap class.pattern,
             need <= FreeOf(n)[g]
      PROVE  FALSE
  <2> HIDE DEF F
  <2>1. /\ FreeOf(n)[g] \in Nat /\ F(n) \in Nat
        /\ FreeOf(n)[g] <= F(n) /\ F(n) <= cap
    BY <1>1, <1>2, <1>3, ZenonT(30)
  <2> QED
    BY <1>2, <1>4, <1>6, <2>1
<1>7. ASSUME ~ (need <= cap), NEW n \in nodes
      PROVE  Usable([node |-> n, cap |-> need]) = {}
  BY <1>6, <1>7, UsableThick, ZenonT(30)
<1> QED
  BY <1>4, <1>5, <1>7, ZenonT(30)

\* PlacementInv implies CapacityIsPlaceable.
LEMMA InvPlaceable == PlacementInv => CapacityIsPlaceable
<1> SUFFICES ASSUME PlacementInv, ReportsTrue, ~ class.thin,
                    NEW segment \in Segments, NEW size \in Sizes
             PROVE  LET nodes == filterNodesByTopology(segment)
                        cap == GetCapacity(lvmnode, nodes, class.pattern)
                        vol(n) == [node |-> n, cap |-> getRoundedCapacity(size)]
                    IN  IF size <= Requestable(cap)
                        THEN \A n \in Scheduler(getSpaceWeightedMap(lvmnode, class.pattern),
                                                nodes, FALSE) : Usable(vol(n)) # {}
                        ELSE \A n \in nodes : Usable(vol(n)) = {}
  BY ZenonT(30) DEF CapacityIsPlaceable
<1> QED
  BY CapacityPlaceable, ZenonT(30) DEF PlacementInv

\* PlacementInv implies OneBuilds.
LEMMA InvOneBuilds == PlacementInv => OneBuilds
  BY ZenonT(30) DEF PlacementInv, LockInv, OneBuilds

-----------------------------------------------------------------------------
\* The agent of This.

\* What the agent keeps.
InventoryInv ==
    /\ free \in Space
    /\ lvmnode \in [Nodes -> Report]
    /\ cache \in [copy : Report, fresh : BOOLEAN, synced : BOOLEAN]
    /\ sync \in Syncs
    /\ sync.pc = "write" => sync.vgs \in Space
    /\ ctl \in [Controllers -> {"off", "start", "building", "running"}]
    /\ lock \in Controllers \cup {NoOne}

\* And what the volumes are.
VolumesInv ==
    /\ pools \in [Nodes -> SUBSET Groups]
    /\ \A v \in vols : /\ v.node \in Nodes
                       /\ v.group \in Groups \cup {NoGroup}

\* TypeInv, in its parts.
LEMMA TypeParts == CallInv => (TypeInv <=> InventoryInv /\ VolumesInv)
<1>1. sync \in Syncs => sync.pc \in {"idle", "list", "write"} /\ sync.copy \in Report
  BY DEF Syncs
<1> QED
  BY <1>1, ZenonT(30) DEF TypeInv, PlacementTypeOK, InventoryInv, VolumesInv, CallInv,
                          IsCall, Space

\* Reports: none, one of the agent, and one that was edited.
LEMMA ReportTypes ==
    /\ NoReport \in Report
    /\ \A vgs \in Space : [exists |-> TRUE, groups |-> vgs, owner |-> "ours"] \in Report
    /\ \A r \in Report : /\ [r EXCEPT !.owner = "none"] \in Report
                         /\ [r EXCEPT !.owner = "notController"] \in Report
  BY DEF NoReport, Report, Space

\* A report replaced.
LEMMA ReplaceReport ==
    ASSUME NEW f \in [Nodes -> Report], NEW n \in Nodes, NEW report \in Report
    PROVE  /\ [f EXCEPT ![n] = report] \in [Nodes -> Report]
           /\ [f EXCEPT ![n] = report][n] = report
           /\ \A m \in Nodes \ {n} : [f EXCEPT ![n] = report][m] = f[m]
  OBVIOUS

\* What becomes of the worker's record and of the cache.
LEMMA SyncTypes ==
    /\ Idle \in Syncs /\ Idle.pc # "write"
    /\ \A s \in Syncs, vgs \in Space : \A t :
          t = [s EXCEPT !.pc = "write", !.vgs = vgs] => t \in Syncs /\ t.vgs = vgs
    /\ \A s \in Syncs : /\ [s EXCEPT !.fresh = FALSE] \in Syncs
                         /\ [s EXCEPT !.fresh = FALSE].pc = s.pc
                         /\ [s EXCEPT !.fresh = FALSE].vgs = s.vgs
    /\ \A c \in [copy : Report, fresh : BOOLEAN, synced : BOOLEAN] :
          [c EXCEPT !.fresh = FALSE]
          \in [copy : Report, fresh : BOOLEAN, synced : BOOLEAN]
<1>1. Idle \in Syncs /\ Idle.pc # "write"
  BY ReportTypes DEF Syncs, Idle
<1>2. ASSUME NEW s \in Syncs, NEW vgs \in Space, NEW t,
             t = [s EXCEPT !.pc = "write", !.vgs = vgs]
      PROVE  t \in Syncs /\ t.vgs = vgs
  <2>1. /\ [s EXCEPT !.pc = "write", !.vgs = vgs] \in Syncs
        /\ [s EXCEPT !.pc = "write", !.vgs = vgs].vgs = vgs
    BY ZenonT(30) DEF Syncs
  <2> QED
    BY <1>2, <2>1
<1>3. ASSUME NEW s \in Syncs
      PROVE  /\ [s EXCEPT !.fresh = FALSE] \in Syncs
             /\ [s EXCEPT !.fresh = FALSE].pc = s.pc
             /\ [s EXCEPT !.fresh = FALSE].vgs = s.vgs
  BY ZenonT(30) DEF Syncs
<1>4. \A c \in [copy : Report, fresh : BOOLEAN, synced : BOOLEAN] :
         [c EXCEPT !.fresh = FALSE]
         \in [copy : Report, fresh : BOOLEAN, synced : BOOLEAN]
  BY ZenonT(30)
<1> QED
  BY <1>1, <1>2, <1>3, <1>4, ZenonT(30)

\* The process starts, one controller after the other, and dies.
LEMMA StartKeeps ==
    ASSUME InventoryInv, LockInv,
           \/ NewNode
           \/ \E c \in Controllers : Lock(c) \/ Build(c)
           \/ Restart
    PROVE  InventoryInv' /\ LockInv' /\ free' = free /\ lvmnode' = lvmnode
<1>1. CASE NewNode
  <2>1. ctl' \in [Controllers -> {"off", "start", "building", "running"}] /\ LockInv'
    BY <1>1 DEF NewNode, LockInv
  <2> QED
    BY <1>1, <2>1, ZenonT(30) DEF NewNode, InventoryInv, agentVars
<1>2. ASSUME NEW c \in Controllers, Lock(c)
      PROVE  InventoryInv' /\ LockInv' /\ free' = free /\ lvmnode' = lvmnode
  <2>1. /\ ctl' \in [Controllers -> {"off", "start", "building", "running"}]
        /\ LockInv' /\ lock' \in Controllers \cup {NoOne}
    BY <1>2, InventoryAssumption DEF Lock, LockInv, InventoryInv
  <2> QED
    BY <1>2, <2>1, ZenonT(30) DEF Lock, InventoryInv, agentVars
<1>3. ASSUME NEW c \in Controllers, Build(c)
      PROVE  InventoryInv' /\ LockInv' /\ free' = free /\ lvmnode' = lvmnode
  <2>1. /\ ctl' \in [Controllers -> {"off", "start", "building", "running"}]
        /\ LockInv' /\ lock' \in Controllers \cup {NoOne}
    BY <1>3, InventoryAssumption DEF Build, LockInv, InventoryInv
  <2> QED
    BY <1>3, <2>1, ZenonT(30) DEF Build, InventoryInv, agentVars
<1>4. CASE Restart
  <2>1. /\ ctl' \in [Controllers -> {"off", "start", "building", "running"}]
        /\ LockInv' /\ lock' \in Controllers \cup {NoOne}
    BY <1>4, InventoryAssumption DEF Restart, LockInv
  <2>2. /\ NoCache \in [copy : Report, fresh : BOOLEAN, synced : BOOLEAN]
        /\ Idle \in Syncs /\ Idle.pc # "write"
    BY ReportTypes DEF NoCache, Idle, Syncs
  <2> QED
    BY <1>4, <2>1, <2>2, ZenonT(30) DEF Restart, InventoryInv
<1> QED
  BY <1>1, <1>2, <1>3, <1>4, ZenonT(30)

\* Events, the timer and the worker change the agent's report at most.
LEMMA WorkKeeps ==
    ASSUME InventoryInv, LockInv,
           \/ Deliver \/ Poll \/ Take \/ ListLVMVolumeGroup \/ ListFaulty
           \/ SyncNode \/ SyncNodeFails \/ EditLVMNode
    PROVE  /\ InventoryInv' /\ LockInv' /\ free' = free
           /\ \A n \in Nodes \ {This} : lvmnode'[n] = lvmnode[n]
<1> DEFINE SyncOK == /\ sync \in Syncs
                     /\ sync.pc = "write" => sync.vgs \in Space
           CacheOK == cache \in [copy : Report, fresh : BOOLEAN, synced : BOOLEAN]
           Goal == /\ SyncOK' /\ CacheOK'
                   /\ lvmnode' \in [Nodes -> Report]
                   /\ \A n \in Nodes \ {This} : lvmnode'[n] = lvmnode[n]
<1>0. SUFFICES ASSUME /\ SyncOK /\ CacheOK
                      /\ lvmnode \in [Nodes -> Report]
                      /\ lvmnode[This] \in Report
               PROVE  Goal /\ free' = free /\ UNCHANGED startVars
  <2>1. InventoryInv => SyncOK /\ CacheOK /\ lvmnode \in [Nodes -> Report]
    BY ZenonT(30) DEF InventoryInv
  <2>2. lvmnode[This] \in Report
    BY <2>1, InventoryAssumption
  <2>3. ASSUME Goal /\ free' = free /\ UNCHANGED startVars
        PROVE  InventoryInv' /\ LockInv'
    BY <2>3, ZenonT(30) DEF InventoryInv, LockInv, startVars
  <2> QED
    BY <2>1, <2>2, <2>3, ZenonT(30)
<1>1. CASE Deliver
  <2>1. CacheOK'
    BY <1>0, <1>1 DEF Deliver
  <2> QED
    BY <1>0, <1>1, <2>1, ZenonT(30) DEF Deliver
<1>2. CASE Poll
  BY <1>0, <1>2, ZenonT(30) DEF Poll
<1>3. CASE Take
  <2>1. SyncOK'
    BY <1>0, <1>3 DEF Take, Syncs
  <2> QED
    BY <1>0, <1>3, <2>1, ZenonT(30) DEF Take
<1>4. ASSUME NEW vgs \in Space, sync' = [sync EXCEPT !.pc = "write", !.vgs = vgs]
      PROVE  SyncOK'
  <2> DEFINE new == [sync EXCEPT !.pc = "write", !.vgs = vgs]
  <2>0. sync \in Syncs /\ sync' = new
    BY <1>0, <1>4, ZenonT(30)
  <2>2. \A t : t = new => t \in Syncs /\ t.vgs = vgs
    BY <2>0, SyncTypes, ZenonT(60)
  <2> HIDE DEF new
  <2>1. sync' \in Syncs /\ sync'.vgs = vgs
    BY <2>0, <2>2, ZenonT(30)
  <2> QED
    BY <1>4, <2>1, ZenonT(30)
<1>5. \A bad : decodeVgsJSON(bad) \subseteq Space
  BY ZenonT(30) DEF decodeVgsJSON, Space
<1>6. ASSUME Requeue PROVE SyncOK'
  BY <1>6, SyncTypes, ZenonT(30) DEF Requeue
<1>7. ASSUME sync' = Idle PROVE SyncOK'
  BY <1>7, SyncTypes, ZenonT(30)
<1>13. ASSUME NEW report \in Report, lvmnode' = [lvmnode EXCEPT ![This] = report]
       PROVE  /\ lvmnode' \in [Nodes -> Report]
              /\ \A n \in Nodes \ {This} : lvmnode'[n] = lvmnode[n]
  BY <1>0, <1>13, ReplaceReport, InventoryAssumption, ZenonT(30)
<1>8. CASE ListLVMVolumeGroup
  <2>1. SyncOK'
    BY <1>4, <1>5, <1>8, ZenonT(30) DEF ListLVMVolumeGroup
  <2> QED
    BY <1>0, <1>8, <2>1, ZenonT(30) DEF ListLVMVolumeGroup
<1>9. CASE ListFaulty
  <2>1. SyncOK'
    BY <1>4, <1>5, <1>6, <1>9, ZenonT(30) DEF ListFaulty
  <2> QED
    BY <1>0, <1>9, <2>1, ZenonT(30) DEF ListFaulty
<1>10. CASE SyncNode
  <2>1. SyncOK'
    BY <1>6, <1>7, <1>10, ZenonT(30) DEF SyncNode
  <2>2. CacheOK'
    BY <1>0, <1>10, SyncTypes, ZenonT(30) DEF SyncNode
  <2>3. /\ lvmnode' \in [Nodes -> Report]
        /\ \A n \in Nodes \ {This} : lvmnode'[n] = lvmnode[n]
    BY <1>0, <1>10, <1>13, ReportTypes, ZenonT(30) DEF SyncNode
  <2> QED
    BY <1>10, <2>1, <2>2, <2>3, ZenonT(30) DEF SyncNode
<1>11. CASE SyncNodeFails
  BY <1>0, <1>6, <1>11, ZenonT(30) DEF SyncNodeFails
<1>12. CASE EditLVMNode
  <2>1. SyncOK' /\ CacheOK'
    BY <1>0, <1>12, SyncTypes, ZenonT(30) DEF EditLVMNode, Outdated
  <2>2. PICK new \in Report : lvmnode' = [lvmnode EXCEPT ![This] = new]
    BY <1>0, <1>12, ReportTypes, ZenonT(30) DEF EditLVMNode
  <2>3. /\ lvmnode' \in [Nodes -> Report]
        /\ \A n \in Nodes \ {This} : lvmnode'[n] = lvmnode[n]
    BY <1>13, <2>2, ZenonT(30)
  <2> QED
    BY <1>12, <2>1, <2>3, ZenonT(30) DEF EditLVMNode
<1> QED
  BY <1>1, <1>2, <1>3, <1>8, <1>9, <1>10, <1>11, <1>12, ZenonT(30)

\* The free space changes by hand.
LEMMA ChangeKeeps ==
    ASSUME InventoryInv, LockInv, ChangeFree
    PROVE  InventoryInv' /\ LockInv' /\ lvmnode' = lvmnode
<1>1. free' \in Space
  BY DEF InventoryInv, ChangeFree, Space
<1> QED
  BY <1>1, ZenonT(30) DEF InventoryInv, LockInv, ChangeFree, agentVars, startVars

\* The agent never touches the reports of other nodes.
LEMMA AgentKeeps ==
    ASSUME InventoryInv, LockInv, AgentNext
    PROVE  /\ InventoryInv' /\ LockInv'
           /\ \A n \in Nodes \ {This} : lvmnode'[n] = lvmnode[n]
  BY StartKeeps, WorkKeeps, ChangeKeeps, ZenonT(30) DEF AgentNext

-----------------------------------------------------------------------------
\* The handler records.

\* Requests are rounded to something.
LEMMA RoundedPositive ==
    ASSUME NEW v \in Volumes, NEW request \in Requests[v]
    PROVE  getRoundedCapacity(request.size) \in Nat \ {0}
  BY RoundedFits, PlacementAssumption, ZenonT(30)

\* A call keeps what it knows when it is disturbed.
LEMMA CallDisturbed ==
    ASSUME NEW c, IsCall(c), NEW b \in BOOLEAN, NEW d,
           d = [c EXCEPT !.undisturbed = b]
    PROVE  /\ IsCall(d) /\ d.pc = c.pc /\ d.cap = c.cap /\ d.segment = c.segment
           /\ d.nmap = c.nmap /\ d.undisturbed = b
<1>1. /\ c = [pc |-> c.pc, cap |-> c.cap, segment |-> c.segment,
              nmap |-> c.nmap, undisturbed |-> c.undisturbed]
  BY ZenonT(30) DEF IsCall
<1>2. d = [pc |-> c.pc, cap |-> c.cap, segment |-> c.segment,
           nmap |-> c.nmap, undisturbed |-> b]
  BY <1>1
<1>3. /\ d.pc = c.pc /\ d.cap = c.cap /\ d.segment = c.segment
      /\ d.nmap = c.nmap /\ d.undisturbed = b
  BY <1>2
<1>4. d = [pc |-> d.pc, cap |-> d.cap, segment |-> d.segment,
           nmap |-> d.nmap, undisturbed |-> d.undisturbed]
  BY <1>2, <1>3, ZenonT(30)
<1> QED
  BY <1>3, <1>4, ZenonT(30) DEF IsCall

\* A call that waits for its volume.
LEMMA CallWaits ==
    ASSUME NEW c, IsCall(c), c.pc = "mapped", NEW nmap, NEW d,
           d = [c EXCEPT !.pc = "wait", !.nmap = nmap]
    PROVE  /\ IsCall(d) /\ d.pc = "wait" /\ d.cap = c.cap
           /\ d.segment = c.segment /\ d.undisturbed = c.undisturbed
<1>1. c = [pc |-> c.pc, cap |-> c.cap, segment |-> c.segment,
           nmap |-> c.nmap, undisturbed |-> c.undisturbed]
  BY ZenonT(30) DEF IsCall
<1>2. d = [pc |-> "wait", cap |-> c.cap, segment |-> c.segment,
           nmap |-> nmap, undisturbed |-> c.undisturbed]
  BY <1>1, ZenonT(30)
<1>3. /\ d.pc = "wait" /\ d.cap = c.cap /\ d.segment = c.segment
      /\ d.nmap = nmap /\ d.undisturbed = c.undisturbed
  BY <1>2
<1>4. d = [pc |-> d.pc, cap |-> d.cap, segment |-> d.segment,
           nmap |-> d.nmap, undisturbed |-> d.undisturbed]
  BY <1>2, <1>3, ZenonT(30)
<1> QED
  BY <1>3, <1>4, ZenonT(30) DEF IsCall

\* No call, and one that is answered.
LEMMA CallEnds ==
    /\ IsCall(NoCall) /\ NoCall.pc = "idle" /\ ~ NoCall.undisturbed
    /\ \A d : d = [NoCall EXCEPT !.pc = "done"] =>
                 IsCall(d) /\ d.pc = "done" /\ ~ d.undisturbed
<1>1. NoCall = [pc |-> "idle", cap |-> 0, segment |-> NoSegment, nmap |-> <<>>,
                undisturbed |-> FALSE]
  BY DEF NoCall
<1>2. ASSUME NEW d, NEW pc \in {"idle", "done"},
             d = [pc |-> pc, cap |-> 0, segment |-> NoSegment, nmap |-> <<>>,
                  undisturbed |-> FALSE]
      PROVE  IsCall(d) /\ d.pc = pc /\ ~ d.undisturbed
  BY <1>2 DEF IsCall
<1>3. [NoCall EXCEPT !.pc = "done"]
      = [pc |-> "done", cap |-> 0, segment |-> NoSegment, nmap |-> <<>>,
         undisturbed |-> FALSE]
  <2>1. ASSUME NEW f, NEW c, NEW nmap,
               c = [pc |-> "idle", cap |-> 0, segment |-> NoSegment,
                    nmap |-> nmap, undisturbed |-> f]
        PROVE  [c EXCEPT !.pc = "done"]
               = [pc |-> "done", cap |-> 0, segment |-> NoSegment,
                  nmap |-> nmap, undisturbed |-> f]
    BY <2>1
  <2> QED
    BY <1>1, <2>1, ZenonT(30)
<1> QED
  BY <1>1, <1>2, <1>3

\* Disturb gives v its record and spoils what all others listed.
LEMMA DisturbCalls ==
    ASSUME CallInv, NEW v \in Volumes, NEW record, IsCall(record),
           Disturb(v, record)
    PROVE  /\ CallInv'
           /\ calls'[v] = record
           /\ \A w \in Volumes \ {v} :
                 /\ calls'[w].pc = calls[w].pc /\ calls'[w].cap = calls[w].cap
                 /\ calls'[w].undisturbed = FALSE
<1>1. /\ calls'[v] = record
      /\ \A w \in Volumes \ {v} : calls'[w] = [calls[w] EXCEPT !.undisturbed = FALSE]
      /\ DOMAIN calls' = Volumes
      /\ calls' = [w \in Volumes |-> calls'[w]]
  BY DEF Disturb
<1>2. ASSUME NEW w \in Volumes \ {v}
      PROVE  /\ IsCall(calls'[w])
             /\ calls'[w].pc = calls[w].pc /\ calls'[w].cap = calls[w].cap
             /\ calls'[w].undisturbed = FALSE
  <2>1. calls'[w] = [calls[w] EXCEPT !.undisturbed = FALSE] /\ IsCall(calls[w])
    BY <1>1, ZenonT(30) DEF CallInv
  <2> DEFINE c == calls[w]
             d == calls'[w]
  <2>2. d = [c EXCEPT !.undisturbed = FALSE] /\ IsCall(c)
    BY <2>1
  <2> HIDE DEF c, d
  <2>3. /\ IsCall(d) /\ d.pc = c.pc /\ d.cap = c.cap
        /\ d.undisturbed = FALSE
    BY <2>2, CallDisturbed, ZenonT(30)
  <2> QED
    BY <2>3, ZenonT(30) DEF c, d
<1>3. \A w \in Volumes : IsCall(calls'[w])
  BY <1>1, <1>2, ZenonT(30)
<1> QED
  BY <1>1, <1>2, <1>3, ZenonT(30) DEF CallInv

\* One record is replaced.
LEMMA ReplaceCall ==
    ASSUME CallInv, NEW v \in Volumes, NEW record, IsCall(record),
           calls' = [calls EXCEPT ![v] = record]
    PROVE  /\ CallInv'
           /\ calls'[v] = record
           /\ \A w \in Volumes \ {v} : calls'[w] = calls[w]
<1>1. /\ calls'[v] = record
      /\ \A w \in Volumes \ {v} : calls'[w] = calls[w]
      /\ DOMAIN calls' = Volumes
      /\ calls' = [w \in Volumes |-> calls'[w]]
  BY DEF CallInv
<1>2. \A w \in Volumes : IsCall(calls'[w])
  BY <1>1, ZenonT(30) DEF CallInv
<1> QED
  BY <1>1, <1>2, ZenonT(30) DEF CallInv

\* What is true depends on the free space of This and the reports of others.
LEMMA SameTruth ==
    ASSUME free' = free, \A n \in Nodes \ {This} : lvmnode'[n] = lvmnode[n]
    PROVE  Truth' = Truth
<1>1. \A n \in Nodes : FreeOf(n)' = FreeOf(n)
  BY ZenonT(30) DEF FreeOf
<1> QED
  BY <1>1, ZenonT(30) DEF Truth

\* The weights that true reports give are those of the truth.
LEMMA TrueWeights ==
    ASSUME TypeInv, OthersInv, ReportsTrue
    PROVE  getNodeMap(class.schd, vols, lvmnode, class.pattern)
           = getNodeMap(class.schd, vols, Truth, class.pattern)
<1>1. \A n \in Nodes : /\ lvmnode[n].groups = Truth[n].groups
                       /\ lvmnode[n].exists /\ Truth[n].exists
  BY TruthReports, TrueReports, ZenonT(30) DEF AllReport
<1>2. \A n \in Nodes : MaxFree(lvmnode[n], class.pattern) = MaxFree(Truth[n], class.pattern)
  BY <1>1, ZenonT(30) DEF MaxFree
<1>3. {m \in Nodes : lvmnode[m].exists /\ MaxFree(lvmnode[m], class.pattern) > 0}
      = {m \in Nodes : Truth[m].exists /\ MaxFree(Truth[m], class.pattern) > 0}
  BY <1>1, <1>2, ZenonT(30)
<1>4. getSpaceWeightedMap(lvmnode, class.pattern) = getSpaceWeightedMap(Truth, class.pattern)
  BY <1>2, <1>3, ZenonT(30) DEF getSpaceWeightedMap
<1> QED
  BY <1>4, ZenonT(30) DEF getNodeMap

-----------------------------------------------------------------------------
\* The steps.

\* The parts of PlacementInv that most steps leave alone.
LEMMA SameInventory ==
    ASSUME InventoryInv, OthersInv, LockInv, UNCHANGED inventoryVars
    PROVE  InventoryInv' /\ OthersInv' /\ LockInv' /\ Truth' = Truth
  BY ZenonT(30) DEF InventoryInv, OthersInv, LockInv, Truth, FreeOf, inventoryVars

\* The first state.
LEMMA PlacementInit == Init => PlacementInv
<1> SUFFICES ASSUME Init PROVE PlacementInv
  OBVIOUS
<1>1. InventoryInv
  <2>1. Capacity \in 0 .. Capacity /\ Capacity - 1 \in 0 .. Capacity
    BY InventoryAssumption
  <2>2. free \in Space
    BY <2>1, ZenonT(30) DEF Init, InventoryInit, Space
  <2>3. [g \in Groups |-> Capacity - 1] \in Space
    BY <2>1, ZenonT(30) DEF Space
  <2>4. lvmnode \in [Nodes -> Report]
    BY <2>3, ReportTypes, ZenonT(30) DEF Init, InventoryInit
  <2>5. /\ cache \in [copy : Report, fresh : BOOLEAN, synced : BOOLEAN]
        /\ sync \in Syncs /\ (sync.pc = "write" => sync.vgs \in Space)
    <3>1. NoCache \in [copy : Report, fresh : BOOLEAN, synced : BOOLEAN]
      BY ReportTypes, ZenonT(30) DEF NoCache
    <3> QED
      BY <3>1, SyncTypes, ZenonT(30) DEF Init, InventoryInit
  <2>6. /\ ctl \in [Controllers -> {"off", "start", "building", "running"}]
        /\ lock \in Controllers \cup {NoOne}
    BY DEF Init, InventoryInit
  <2> QED
    BY <2>2, <2>4, <2>5, <2>6, ZenonT(30) DEF InventoryInv
<1>2. OthersInv
  <2> SUFFICES ASSUME NEW n \in Nodes \ {This}
               PROVE  lvmnode[n].exists /\ lvmnode[n].groups \in Space
    BY ZenonT(30) DEF OthersInv
  <2>1. Capacity - 1 \in 0 .. Capacity
    BY InventoryAssumption
  <2>2. [g \in Groups |-> Capacity - 1] \in Space
    BY <2>1, ZenonT(30) DEF Space
  <2> DEFINE s == [g \in Groups |-> Capacity - 1]
  <2>3. lvmnode[n] = [exists |-> TRUE, groups |-> s, owner |-> "ours"]
    BY ZenonT(30) DEF Init, InventoryInit
  <2> HIDE DEF s
  <2>4. lvmnode[n].exists /\ lvmnode[n].groups = s
    BY <2>3
  <2> QED
    BY <2>2, <2>4, ZenonT(30) DEF s
<1>3. LockInv
  BY InventoryAssumption DEF Init, InventoryInit, LockInv
<1>4. CallInv /\ \A v \in Volumes : calls[v] = NoCall
  BY CallEnds, ZenonT(30) DEF Init, CallInv
<1>5. /\ pools \in [Nodes -> SUBSET Groups]
      /\ \A vol \in vols : vol.node \in Nodes /\ vol.group \in Groups
  BY PlacementAssumption, ZenonT(30) DEF Init
<1>6. \A vol \in vols : vol.group # NoGroup
  BY <1>5, PlacementAssumption, ZenonT(30)
<1>7. TypeInv
  BY <1>1, <1>4, <1>5, TypeParts, ZenonT(30) DEF VolumesInv
<1>8. PendingInv
  BY <1>6, ZenonT(30) DEF PendingInv
<1>9. ListedInv
  BY <1>4, CallEnds, ZenonT(30) DEF ListedInv
<1> QED
  BY <1>2, <1>3, <1>4, <1>7, <1>8, <1>9, ZenonT(30) DEF PlacementInv

\* A step of the agent leaves the calls alone, or disturbs them.
LEMMA AgentCalls ==
    ASSUME CallInv, Agent, NEW v \in Volumes
    PROVE  /\ IsCall(calls'[v])
           /\ calls'[v].pc = calls[v].pc /\ calls'[v].cap = calls[v].cap
           /\ calls'[v].segment = calls[v].segment /\ calls'[v].nmap = calls[v].nmap
           /\ calls'[v].undisturbed = (calls[v].undisturbed /\ free' = free)
<1> DEFINE c == calls[v]
           d == calls'[v]
           b == calls[v].undisturbed /\ free' = free
<1>1. d = [c EXCEPT !.undisturbed = b] /\ IsCall(c)
  BY ZenonT(30) DEF Agent, CallInv
<1>2. b \in BOOLEAN
  BY ZenonT(30)
<1> HIDE DEF c, d, b
<1>3. /\ IsCall(d) /\ d.pc = c.pc /\ d.cap = c.cap /\ d.segment = c.segment
      /\ d.nmap = c.nmap /\ d.undisturbed = b
  BY <1>1, <1>2, CallDisturbed, ZenonT(30)
<1> QED
  BY <1>3, ZenonT(30) DEF c, d, b

\* A step of the agent disturbs the calls exactly when the truth may change.
LEMMA AgentStep ==
    ASSUME PlacementInv, Agent
    PROVE  PlacementInv'
<1>1. InventoryInv /\ OthersInv /\ LockInv /\ CallInv /\ PendingInv /\ ListedInv
  BY TypeParts, ZenonT(30) DEF PlacementInv
<1>2. /\ InventoryInv' /\ LockInv'
      /\ \A n \in Nodes \ {This} : lvmnode'[n] = lvmnode[n]
  BY <1>1, AgentKeeps, ZenonT(30) DEF Agent
<1>3. OthersInv'
  BY <1>1, <1>2, ZenonT(30) DEF OthersInv
<1>4. \A v \in Volumes :
         /\ IsCall(calls'[v])
         /\ calls'[v].pc = calls[v].pc /\ calls'[v].cap = calls[v].cap
         /\ calls'[v].segment = calls[v].segment /\ calls'[v].nmap = calls[v].nmap
         /\ calls'[v].undisturbed = (calls[v].undisturbed /\ free' = free)
  BY <1>1, AgentCalls, ZenonT(30)
<1>5. CallInv'
  <2>1. DOMAIN calls' = Volumes /\ calls' = [v \in Volumes |-> calls'[v]]
    BY ZenonT(30) DEF Agent
  <2> QED
    BY <1>4, <2>1, ZenonT(30) DEF CallInv
<1>6. vols' = vols /\ pools' = pools /\ class' = class /\ absentFirst' = absentFirst
  BY ZenonT(30) DEF Agent, classVars
<1>7. TypeInv'
  <2>1. VolumesInv'
    BY <1>6, TypeParts, ZenonT(30) DEF PlacementInv, VolumesInv
  <2>2. (CallInv => (TypeInv <=> InventoryInv /\ VolumesInv))'
    BY TypeParts, PTL
  <2> QED
    BY <1>2, <1>5, <2>1, <2>2, ZenonT(30)
<1>8. PendingInv'
  BY <1>1, <1>4, <1>6, ZenonT(30) DEF PendingInv
<1>9. ListedInv'
  <2> SUFFICES ASSUME NEW v \in Volumes, calls'[v].undisturbed
               PROVE  /\ calls'[v].pc \in {"mapped", "wait"}
                      /\ \A vol \in vols' : vol.group = NoGroup => vol.name = v
                      /\ calls'[v].pc = "mapped" =>
                            calls'[v].nmap
                            = getNodeMap(class'.schd, vols', Truth', class'.pattern)
                      /\ calls'[v].pc = "wait" /\ BySpace' =>
                            \A vol \in vols' : vol.group = NoGroup =>
                               vol.node \in Scheduler(
                                  getSpaceWeightedMap(Truth', class'.pattern),
                                  filterNodesByTopology(calls'[v].segment), absentFirst')
    BY ZenonT(30) DEF ListedInv
  <2>1. calls[v].undisturbed /\ free' = free
    BY <1>4, ZenonT(30)
  <2>2. Truth' = Truth
    BY <1>2, <2>1, SameTruth, ZenonT(30)
  <2>3. BySpace' = BySpace
    BY <1>6, ZenonT(30) DEF BySpace
  <2> QED
    BY <1>1, <1>4, <1>6, <2>1, <2>2, <2>3, ZenonT(30) DEF ListedInv
<1> QED
  BY <1>2, <1>3, <1>5, <1>7, <1>8, <1>9, ZenonT(30) DEF PlacementInv

\* PlacementInv, in its parts.
LEMMA InvParts ==
    PlacementInv <=> /\ InventoryInv /\ VolumesInv /\ OthersInv /\ LockInv
                     /\ CallInv /\ PendingInv /\ ListedInv
  BY TypeParts, ZenonT(30) DEF PlacementInv

\* The same for the state after a step.
LEMMA InvPartsNext ==
    PlacementInv' <=> /\ InventoryInv' /\ VolumesInv' /\ OthersInv' /\ LockInv'
                      /\ CallInv' /\ PendingInv' /\ ListedInv'
  BY InvParts, PTL

\* A volume without a group: who waits for it, and with what capacity.
LEMMA PendingVolume ==
    ASSUME PlacementInv, NEW vol \in vols, vol.group = NoGroup
    PROVE  /\ vol.node \in Nodes /\ vol.name \in Volumes /\ vol.cap \in Nat \ {0}
           /\ vol = [name |-> vol.name, node |-> vol.node, group |-> NoGroup,
                     cap |-> vol.cap]
           /\ calls[vol.name].pc = "wait" /\ vol.cap = calls[vol.name].cap
           /\ \A w \in vols : w.group = NoGroup /\ w.name = vol.name => w = vol
  BY InvParts, ZenonT(30) DEF VolumesInv, PendingInv, CallInv, IsCall

\* The listing: it is what the truth gives when the reports are true.
LEMMA GetNodeMapStep ==
    ASSUME PlacementInv, NEW v \in Volumes, GetNodeMap(v)
    PROVE  PlacementInv'
<1>1. /\ InventoryInv /\ VolumesInv /\ OthersInv /\ LockInv
      /\ CallInv /\ PendingInv /\ ListedInv /\ TypeInv
  BY InvParts, ZenonT(30) DEF PlacementInv
<1>2. UNCHANGED inventoryVars /\ class' = class /\ absentFirst' = absentFirst
      /\ vols' = vols /\ pools' = pools
  BY ZenonT(30) DEF GetNodeMap, classVars
<1>3. InventoryInv' /\ OthersInv' /\ LockInv' /\ Truth' = Truth /\ VolumesInv'
      /\ BySpace' = BySpace
  BY <1>1, <1>2, SameInventory, ZenonT(30) DEF VolumesInv, BySpace
<1> DEFINE nmap == getNodeMap(class.schd, vols, lvmnode, class.pattern)
           b == ReportsTrue /\ NonePending
<1>4. PICK request \in Requests[v] :
         calls' = [calls EXCEPT ![v] =
                      [pc |-> "mapped", cap |-> getRoundedCapacity(request.size),
                       segment |-> request.segment, nmap |-> nmap, undisturbed |-> b]]
  BY ZenonT(30) DEF GetNodeMap
<1> DEFINE record == [pc |-> "mapped", cap |-> getRoundedCapacity(request.size),
                      segment |-> request.segment, nmap |-> nmap, undisturbed |-> b]
<1>5. IsCall(record) /\ record.pc = "mapped" /\ record.nmap = nmap /\ record.undisturbed = b
  <2>1. b \in BOOLEAN
    BY ZenonT(30)
  <2>2. getRoundedCapacity(request.size) \in Nat \ {0}
    BY RoundedPositive, ZenonT(30)
  <2> DEFINE cap == getRoundedCapacity(request.size)
             segment == request.segment
  <2> HIDE DEF nmap, b, cap, segment
  <2>3. record = [pc |-> "mapped", cap |-> cap, segment |-> segment, nmap |-> nmap,
                  undisturbed |-> b]
    BY ZenonT(30) DEF cap, segment
  <2> HIDE DEF record
  <2>4. /\ record.pc = "mapped" /\ record.cap = cap /\ record.segment = segment
        /\ record.nmap = nmap /\ record.undisturbed = b
    BY <2>3
  <2> QED
    BY <2>1, <2>2, <2>3, <2>4, ZenonT(30) DEF IsCall, cap
<1> HIDE DEF record, nmap, b
<1>6. /\ CallInv' /\ calls'[v] = record
      /\ \A w \in Volumes \ {v} : calls'[w] = calls[w]
  <2>1. calls' = [calls EXCEPT ![v] = record]
    BY <1>4, ZenonT(30) DEF record
  <2> QED
    BY <1>1, <1>5, <2>1, ReplaceCall, ZenonT(30)
<1>7. PendingInv'
  <2>1. \A vol \in vols : vol.group = NoGroup => vol.name # v
    <3>1. calls[v].pc = "idle"
      BY ZenonT(30) DEF GetNodeMap
    <3> QED
      BY <1>1, <3>1, ZenonT(30) DEF PendingInv
  <2> QED
    BY <1>1, <1>2, <1>6, <2>1, ZenonT(30) DEF PendingInv
<1>8. ListedInv'
  <2>1. ASSUME b PROVE nmap = getNodeMap(class.schd, vols, Truth, class.pattern)
    BY <1>1, <2>1, TrueWeights, ZenonT(30) DEF b, nmap
  <2>2. b => \A vol \in vols : vol.group # NoGroup
    BY ZenonT(30) DEF b, NonePending
  <2>3. ASSUME NEW w \in Volumes, calls'[w].undisturbed
        PROVE  /\ calls'[w].pc \in {"mapped", "wait"}
               /\ \A vol \in vols : vol.group = NoGroup => vol.name = w
               /\ calls'[w].pc = "mapped" =>
                     calls'[w].nmap = getNodeMap(class.schd, vols, Truth, class.pattern)
               /\ calls'[w].pc = "wait" /\ BySpace =>
                     \A vol \in vols : vol.group = NoGroup =>
                        vol.node \in Scheduler(
                           getSpaceWeightedMap(Truth, class.pattern),
                           filterNodesByTopology(calls'[w].segment), absentFirst)
    <3>1. CASE w = v
      BY <1>5, <1>6, <2>1, <2>2, <2>3, <3>1, ZenonT(30)
    <3>2. CASE w # v
      <4>1. calls'[w] = calls[w]
        BY <1>6, <3>2, ZenonT(30)
      <4> QED
        BY <1>1, <2>3, <4>1, ZenonT(30) DEF ListedInv
    <3> QED
      BY <3>1, <3>2, ZenonT(30)
  <2> QED
    BY <1>2, <1>3, <2>3, ZenonT(30) DEF ListedInv
<1> QED
  BY <1>3, <1>6, <1>7, <1>8, InvPartsNext, ZenonT(30)

\* The volume is created on the node that the listing led to.
LEMMA CreateLVMVolumeStep ==
    ASSUME PlacementInv, NEW v \in Volumes, CreateLVMVolume(v)
    PROVE  PlacementInv'
<1>1. /\ InventoryInv /\ VolumesInv /\ OthersInv /\ LockInv
      /\ CallInv /\ PendingInv /\ ListedInv /\ IsCall(calls[v])
  BY InvParts, ZenonT(30) DEF CallInv
<1>2. /\ UNCHANGED inventoryVars /\ class' = class /\ absentFirst' = absentFirst
      /\ pools' = pools /\ calls[v].pc = "mapped"
  BY ZenonT(30) DEF CreateLVMVolume, classVars
<1>3. InventoryInv' /\ OthersInv' /\ LockInv' /\ Truth' = Truth /\ BySpace' = BySpace
  BY <1>1, <1>2, SameInventory, ZenonT(30) DEF BySpace
<1> DEFINE nodes == filterNodesByTopology(calls[v].segment)
<1>4. PICK owner \in Scheduler(calls[v].nmap, nodes, absentFirst) :
         vols' = vols \cup {[name |-> v, node |-> owner, group |-> NoGroup,
                             cap |-> calls[v].cap]}
  BY ZenonT(30) DEF CreateLVMVolume
<1> DEFINE new == [name |-> v, node |-> owner, group |-> NoGroup, cap |-> calls[v].cap]
<1>5. owner \in Nodes
  <2>1. nodes \in SUBSET Nodes
    BY TopologyNodes, ZenonT(30)
  <2> HIDE DEF nodes
  <2> QED
    BY <2>1, ZenonT(30) DEF Scheduler
<1>6. /\ new.name = v /\ new.node = owner /\ new.group = NoGroup
      /\ new.cap = calls[v].cap
      /\ new = [name |-> new.name, node |-> new.node, group |-> NoGroup, cap |-> new.cap]
  OBVIOUS
<1>7. vols' = vols \cup {new}
  BY <1>4, ZenonT(30)
<1> HIDE DEF new, nodes
<1>8. VolumesInv'
  BY <1>1, <1>2, <1>5, <1>6, <1>7, ZenonT(30) DEF VolumesInv
<1> DEFINE record == [calls[v] EXCEPT !.pc = "wait", !.nmap = <<>>]
<1>9. /\ IsCall(record) /\ record.pc = "wait" /\ record.cap = calls[v].cap
      /\ record.segment = calls[v].segment /\ record.undisturbed = calls[v].undisturbed
  <2> DEFINE c == calls[v]
  <2>1. IsCall(c) /\ c.pc = "mapped"
    BY <1>1, <1>2, ZenonT(30)
  <2> DEFINE none == <<>>
             waiting == [c EXCEPT !.pc = "wait", !.nmap = none]
  <2>a. record = waiting
    BY ZenonT(30)
  <2> HIDE DEF c, record, none
  <2>b. \A d : d = waiting =>
           /\ IsCall(d) /\ d.pc = "wait" /\ d.cap = c.cap
           /\ d.segment = c.segment /\ d.undisturbed = c.undisturbed
    BY <2>1, CallWaits, ZenonT(60)
  <2> HIDE DEF waiting
  <2>2. /\ IsCall(record) /\ record.pc = "wait" /\ record.cap = c.cap
        /\ record.segment = c.segment /\ record.undisturbed = c.undisturbed
    BY <2>a, <2>b, ZenonT(30)
  <2> QED
    BY <2>2, ZenonT(30) DEF c
<1> HIDE DEF record
<1>10. /\ CallInv' /\ calls'[v] = record
       /\ \A w \in Volumes \ {v} :
             /\ calls'[w].pc = calls[w].pc /\ calls'[w].cap = calls[w].cap
             /\ calls'[w].undisturbed = FALSE
  <2>1. Disturb(v, record)
    BY ZenonT(30) DEF CreateLVMVolume, record
  <2> QED
    BY <1>1, <1>9, <2>1, DisturbCalls, ZenonT(30)
<1>11. \A vol \in vols : vol.group = NoGroup => vol.name # v
  BY <1>1, <1>2, ZenonT(30) DEF PendingInv
<1>12. PendingInv'
  BY <1>1, <1>6, <1>7, <1>9, <1>10, <1>11, ZenonT(60) DEF PendingInv
<1>13. ListedInv'
  <2>1. ASSUME calls[v].undisturbed
        PROVE  /\ calls[v].nmap = getNodeMap(class.schd, vols, Truth, class.pattern)
               /\ \A vol \in vols : vol.group # NoGroup
    BY <1>1, <1>2, <1>11, <2>1, ZenonT(30) DEF ListedInv
  <2>2. ASSUME calls[v].undisturbed, BySpace
        PROVE  owner \in Scheduler(getSpaceWeightedMap(Truth, class.pattern),
                                   nodes, absentFirst)
    <3>1. calls[v].nmap = getSpaceWeightedMap(Truth, class.pattern)
      BY <2>1, <2>2, ZenonT(30) DEF BySpace, getNodeMap
    <3> QED
      BY <3>1, ZenonT(30)
  <2>3. ASSUME NEW w \in Volumes, calls'[w].undisturbed
        PROVE  w = v /\ calls[v].undisturbed
    BY <1>9, <1>10, <2>3, ZenonT(30)
  <2>4. calls'[v].pc = "wait" /\ calls'[v].segment = calls[v].segment
    BY <1>9, <1>10, ZenonT(30)
  <2>5. ASSUME calls[v].undisturbed, NEW vol \in vols', vol.group = NoGroup
        PROVE  vol = new
    BY <1>7, <2>1, <2>5, ZenonT(30)
  <2>6. "wait" # "mapped"
    OBVIOUS
  <2> QED
    BY <1>2, <1>3, <1>6, <2>2, <2>3, <2>4, <2>5, <2>6, ZenonT(30) DEF ListedInv, nodes
<1> QED
  BY <1>3, <1>8, <1>10, <1>12, <1>13, InvPartsNext, ZenonT(30)

\* What lvcreate takes is there.
LEMMA TakenFits ==
    ASSUME PlacementInv, NEW vol \in vols, vol.group = NoGroup, NEW g \in Best(vol)
    PROVE  /\ g \in Groups /\ FreeOf(vol.node)[g] \in 0 .. Capacity
           /\ FreeOf(vol.node)[g] - Taken(vol.node, g, vol.cap) \in 0 .. Capacity
<1> DEFINE f == FreeOf(vol.node)[g]
           t == Taken(vol.node, g, vol.cap)
<1>1. vol.node \in Nodes /\ vol.cap \in Nat \ {0}
  BY PendingVolume, ZenonT(30)
<1>2. FreeOf(vol.node) \in Space
  BY <1>1, TruthReports, ZenonT(30) DEF PlacementInv
<1>3. g \in Groups /\ LVCreate(vol.node, g, vol.cap)
  BY ZenonT(30) DEF Best, Usable, getVgPriorityList
<1>4. f \in 0 .. Capacity
  BY <1>2, <1>3, ZenonT(30) DEF Space
<1>5. t <= f /\ (class.thin /\ g \notin pools[vol.node] => t > PoolMeta)
  BY <1>3, ZenonT(30) DEF LVCreate
<1>6. \/ t = vol.cap /\ ~ class.thin
      \/ t = 0
      \/ class.thin /\ g \notin pools[vol.node]
         /\ t = getThinPoolSize(f, vol.cap) + PoolMeta
  BY ZenonT(30) DEF Taken
<1>7. getThinPoolSize(f, vol.cap) + PoolMeta \in Int /\ PoolMeta \in Nat
  BY <1>1, <1>4, InventoryAssumption, SizingAssumption, PlacementAssumption
     DEF getThinPoolSize
<1> HIDE DEF f, t
<1>8. t \in Nat
  <2>1. CASE t = vol.cap \/ t = 0
    BY <1>1, <2>1
  <2>2. CASE class.thin /\ g \notin pools[vol.node]
             /\ t = getThinPoolSize(f, vol.cap) + PoolMeta
    <3>1. t > PoolMeta /\ t \in Int
      BY <1>5, <1>7, <2>2, ZenonT(30)
    <3> QED
      BY <1>7, <3>1
  <2> QED
    BY <1>6, <2>1, <2>2, ZenonT(30)
<1>9. f - t \in 0 .. Capacity
  BY <1>4, <1>5, <1>8, InventoryAssumption
<1> QED
  BY <1>3, <1>4, <1>9, ZenonT(30) DEF f, t

\* A group's free space changes.
LEMMA ReplaceSpace ==
    ASSUME NEW s \in Space, NEW g \in Groups, NEW x \in 0 .. Capacity
    PROVE  [s EXCEPT ![g] = x] \in Space
  BY DEF Space

\* A volume gets its group; everyone who listed must expect something else.
LEMMA ProvisionStep ==
    ASSUME PlacementInv, NEW v \in Volumes, Provision(v)
    PROVE  PlacementInv'
<1>1. /\ InventoryInv /\ VolumesInv /\ OthersInv /\ LockInv
      /\ CallInv /\ PendingInv
  BY InvParts, ZenonT(30)
<1>2. PICK vol \in vols :
         /\ vol.name = v /\ vol.group = NoGroup
         /\ \E g \in Best(vol) :
               LET left == FreeOf(vol.node)[g] - Taken(vol.node, g, vol.cap) IN
               /\ vols' = (vols \ {vol}) \cup {[vol EXCEPT !.group = g]}
               /\ IF vol.node = This
                  THEN /\ free' = [free EXCEPT ![g] = left]
                       /\ UNCHANGED lvmnode
                  ELSE /\ lvmnode' = [lvmnode EXCEPT ![vol.node].groups[g] = left]
                       /\ UNCHANGED free
               /\ pools' = [pools EXCEPT ![vol.node] =
                               IF class.thin THEN @ \cup {g} ELSE @]
         /\ Disturb(v, [NoCall EXCEPT !.pc = "done"])
         /\ UNCHANGED <<agentVars, startVars, trouble, classVars>>
  BY ZenonT(30) DEF Provision
<1>3. PICK g \in Best(vol) :
         LET left == FreeOf(vol.node)[g] - Taken(vol.node, g, vol.cap) IN
         /\ vols' = (vols \ {vol}) \cup {[vol EXCEPT !.group = g]}
         /\ IF vol.node = This
            THEN /\ free' = [free EXCEPT ![g] = left]
                 /\ UNCHANGED lvmnode
            ELSE /\ lvmnode' = [lvmnode EXCEPT ![vol.node].groups[g] = left]
                 /\ UNCHANGED free
         /\ pools' = [pools EXCEPT ![vol.node] =
                         IF class.thin THEN @ \cup {g} ELSE @]
  BY <1>2, ZenonT(30)
<1> DEFINE left == FreeOf(vol.node)[g] - Taken(vol.node, g, vol.cap)
           n == vol.node
<1>4. g \in Groups /\ left \in 0 .. Capacity
  BY <1>2, TakenFits, ZenonT(30)
<1>5. /\ n \in Nodes
      /\ vol = [name |-> vol.name, node |-> vol.node, group |-> NoGroup, cap |-> vol.cap]
      /\ \A w \in vols : w.group = NoGroup /\ w.name = v => w = vol
  BY <1>2, PendingVolume, ZenonT(30)
<1>6. /\ IF n = This THEN free' = [free EXCEPT ![g] = left] /\ lvmnode' = lvmnode
         ELSE lvmnode' = [lvmnode EXCEPT ![n].groups[g] = left] /\ free' = free
      /\ pools' = [pools EXCEPT ![n] = IF class.thin THEN @ \cup {g} ELSE @]
      /\ vols' = (vols \ {vol}) \cup {[vol EXCEPT !.group = g]}
  BY <1>3, ZenonT(30)
<1> HIDE DEF left, n
<1>7. /\ free' \in Space /\ lvmnode' \in [Nodes -> Report] /\ OthersInv'
  <2>1. CASE n = This
    <3>1. free' = [free EXCEPT ![g] = left] /\ lvmnode' = lvmnode
      BY <1>6, <2>1, ZenonT(30)
    <3>2. free' \in Space
      BY <1>1, <1>4, <3>1, ReplaceSpace, ZenonT(30) DEF InventoryInv
    <3> QED
      BY <1>1, <3>1, <3>2, ZenonT(30) DEF InventoryInv, OthersInv
  <2>2. CASE n # This
    <3>1. lvmnode' = [lvmnode EXCEPT ![n].groups[g] = left] /\ free' = free
      BY <1>6, <2>2, ZenonT(30)
    <3>2. lvmnode \in [Nodes -> Report] /\ lvmnode[n] \in Report
          /\ lvmnode[n].exists /\ lvmnode[n].groups \in Space
      BY <1>1, <1>5, <2>2, ZenonT(30) DEF InventoryInv, OthersInv
    <3> DEFINE s == [lvmnode[n].groups EXCEPT ![g] = left]
               r == [lvmnode[n] EXCEPT !.groups = s]
    <3>3. s \in Space
      BY <1>4, <3>2, ReplaceSpace, ZenonT(30)
    <3>4. lvmnode' = [lvmnode EXCEPT ![n] = r]
      BY <3>1
    <3> HIDE DEF s
    <3>5. r \in Report /\ r.exists = lvmnode[n].exists /\ r.groups = s
      <4>1. \A x \in Report : /\ [x EXCEPT !.groups = s] \in Report
                              /\ [x EXCEPT !.groups = s].exists = x.exists
                              /\ [x EXCEPT !.groups = s].groups = s
        BY <3>3, ZenonT(30) DEF Report, Space
      <4> QED
        BY <3>2, <4>1, ZenonT(30)
    <3> HIDE DEF r
    <3>6. /\ lvmnode' \in [Nodes -> Report] /\ lvmnode'[n] = r
          /\ \A m \in Nodes \ {n} : lvmnode'[m] = lvmnode[m]
      BY <1>5, <3>2, <3>4, <3>5, ReplaceReport, ZenonT(30)
    <3>7. OthersInv'
      BY <1>1, <3>2, <3>3, <3>5, <3>6, ZenonT(30) DEF OthersInv
    <3> QED
      BY <1>1, <3>1, <3>6, <3>7, ZenonT(30) DEF InventoryInv
  <2> QED
    BY <2>1, <2>2, ZenonT(30)
<1>8. InventoryInv' /\ LockInv'
  BY <1>1, <1>2, <1>7, ZenonT(30) DEF InventoryInv, LockInv, agentVars, startVars
<1> DEFINE new == [vol EXCEPT !.group = g]
<1>9. new.node = n /\ new.group = g
  BY <1>5 DEF n
<1>10. vols' = (vols \ {vol}) \cup {new}
  BY <1>6, ZenonT(30)
<1> HIDE DEF new
<1>11. VolumesInv'
  <2>1. pools' \in [Nodes -> SUBSET Groups]
    <3> DEFINE p == IF class.thin THEN pools[n] \cup {g} ELSE pools[n]
    <3>1. pools' = [pools EXCEPT ![n] = p] /\ pools \in [Nodes -> SUBSET Groups]
      BY <1>1, <1>6, ZenonT(30) DEF VolumesInv
    <3>2. pools[n] \in SUBSET Groups
      BY <1>5, <3>1, ZenonT(30)
    <3>3. p \in SUBSET Groups
      BY <1>4, <3>2, ZenonT(30)
    <3> HIDE DEF p
    <3> QED
      BY <3>1, <3>3, ZenonT(30)
  <2> QED
    BY <1>1, <1>4, <1>5, <1>9, <1>10, <2>1, ZenonT(30) DEF VolumesInv
<1> DEFINE record == [NoCall EXCEPT !.pc = "done"]
<1>12. IsCall(record) /\ ~ record.undisturbed
  BY CallEnds, ZenonT(30)
<1>13. Disturb(v, record)
  BY <1>2, ZenonT(30)
<1> HIDE DEF record
<1>14. /\ CallInv' /\ calls'[v] = record
       /\ \A w \in Volumes \ {v} :
             /\ calls'[w].pc = calls[w].pc /\ calls'[w].cap = calls[w].cap
             /\ calls'[w].undisturbed = FALSE
  BY <1>1, <1>12, <1>13, DisturbCalls, ZenonT(30)
<1>15. PendingInv'
  <2>1. \A w \in vols' : w.group = NoGroup => w \in vols /\ w.name # v
    BY <1>4, <1>5, <1>9, <1>10, PlacementAssumption, ZenonT(30)
  <2> QED
    BY <1>1, <1>14, <2>1, ZenonT(30) DEF PendingInv
<1>16. ListedInv'
  <2>1. \A w \in Volumes : ~ calls'[w].undisturbed
    BY <1>12, <1>14, ZenonT(30)
  <2> QED
    BY <2>1, ZenonT(30) DEF ListedInv
<1> QED
  BY <1>7, <1>8, <1>11, <1>14, <1>15, <1>16, InvPartsNext, ZenonT(30)

\* A volume is refused: no one else has a listing that is still good.
LEMMA RefuseStep ==
    ASSUME PlacementInv, NEW v \in Volumes, Refuse(v)
    PROVE  PlacementInv'
<1>1. /\ InventoryInv /\ VolumesInv /\ OthersInv /\ LockInv
      /\ CallInv /\ PendingInv /\ ListedInv
  BY InvParts, ZenonT(30)
<1>2. PICK vol \in vols :
         /\ vol.name = v /\ vol.group = NoGroup
         /\ vols' = vols \ {vol}
         /\ calls' = [calls EXCEPT ![v] = NoCall]
         /\ UNCHANGED <<inventoryVars, classVars, pools>>
  BY ZenonT(30) DEF Refuse
<1>3. InventoryInv' /\ OthersInv' /\ LockInv' /\ VolumesInv'
  BY <1>1, <1>2, SameInventory, ZenonT(30) DEF VolumesInv
<1>4. /\ CallInv' /\ calls'[v] = NoCall
      /\ \A w \in Volumes \ {v} : calls'[w] = calls[w]
  BY <1>1, <1>2, CallEnds, ReplaceCall, ZenonT(30)
<1>5. \A w \in vols : w.group = NoGroup /\ w.name = v => w = vol
  BY <1>2, PendingVolume, ZenonT(30)
<1>6. PendingInv'
  <2>1. \A w \in vols' : w.group = NoGroup => w \in vols /\ w.name # v
    BY <1>2, <1>5, ZenonT(30)
  <2> QED
    BY <1>1, <1>4, <2>1, ZenonT(30) DEF PendingInv
<1>7. ListedInv'
  <2>1. ~ calls'[v].undisturbed
    BY <1>4, CallEnds
  <2>2. \A w \in Volumes \ {v} : ~ calls[w].undisturbed
    BY <1>1, <1>2, ZenonT(30) DEF ListedInv
  <2>3. \A w \in Volumes : ~ calls'[w].undisturbed
    BY <1>4, <2>1, <2>2, ZenonT(30)
  <2> QED
    BY <2>3, ZenonT(30) DEF ListedInv
<1> QED
  BY <1>3, <1>4, <1>6, <1>7, InvPartsNext, ZenonT(30)

\* A step that changes nothing.
LEMMA PlacementStutter ==
    ASSUME PlacementInv, UNCHANGED vars
    PROVE  PlacementInv'
<1>1. UNCHANGED inventoryVars /\ UNCHANGED <<class, absentFirst, vols, pools, calls>>
  BY ZenonT(30) DEF vars, inventoryVars
<1>2. InventoryInv' /\ OthersInv' /\ LockInv' /\ Truth' = Truth
  BY <1>1, InvParts, SameInventory, ZenonT(30)
<1>3. BySpace' = BySpace
  BY <1>1, ZenonT(30) DEF BySpace
<1>4. VolumesInv' /\ CallInv' /\ PendingInv' /\ ListedInv'
  BY <1>1, <1>2, <1>3, InvParts, ZenonT(30) DEF VolumesInv, CallInv, PendingInv, ListedInv
<1> QED
  BY <1>2, <1>4, InvPartsNext, ZenonT(30)

\* Every step keeps PlacementInv.
LEMMA PlacementNext == PlacementInv /\ [Next]_vars => PlacementInv'
  BY AgentStep, GetNodeMapStep, CreateLVMVolumeStep, ProvisionStep, RefuseStep,
     PlacementStutter, ZenonT(30) DEF Next

-----------------------------------------------------------------------------
\* The theorems about the states.

\* PlacementInv is an invariant of the controllers' start, the reports, the
\* scheduler and the agents together.
THEOREM PlacementInvariant == Spec => []PlacementInv
  BY PlacementInit, PlacementNext, PTL DEF Spec

\* Resources, caches and handler records have their types, and the free space
\* of a group stays between nothing and its size, whoever provisions from it.
THEOREM PlacementTypeCorrect == Spec => []PlacementTypeOK
<1>1. PlacementInv => PlacementTypeOK
  BY ZenonT(30) DEF PlacementInv, TypeInv
<1> QED
  BY <1>1, PlacementInvariant, PTL

\* However the goroutines of Start interleave, and whenever the process dies,
\* one controller at most registers its types: ControllerMutex is enough.
THEOREM OneControllerBuilds == Spec => []OneBuilds
  BY InvOneBuilds, PlacementInvariant, PTL

\* A request within the whole Gi, or Mi below one Gi, of what GetCapacity
\* answers from true reports fits the node that SpaceWeighted picks once
\* CreateVolume has rounded it; a larger one fits no node of the topology.
THEOREM CapacityAnswered == Spec => []CapacityIsPlaceable
  BY InvPlaceable, PlacementInvariant, PTL

-----------------------------------------------------------------------------
\* Refusals.

\* A call ends without a volume only when the agent refuses it.
LEMMA OnlyRefuse ==
    ASSUME PlacementInv, Next, NEW v \in Volumes,
           calls[v].pc = "wait", calls'[v].pc = "idle"
    PROVE  Refuse(v)
<1>0. "wait" # "idle" /\ "wait" # "mapped"
  OBVIOUS
<1>1. CallInv
  BY InvParts, ZenonT(30)
<1>2. ~ Agent
  BY <1>0, <1>1, AgentCalls, ZenonT(30)
<1>3. ASSUME NEW w \in Volumes, NEW record, Disturb(w, record), w # v
      PROVE  FALSE
  <2> DEFINE c == calls[v]
             d == calls'[v]
  <2>1. d = [c EXCEPT !.undisturbed = FALSE] /\ IsCall(c)
    BY <1>1, <1>3, ZenonT(30) DEF Disturb, CallInv
  <2> HIDE DEF c, d
  <2>2. d.pc = c.pc
    BY <2>1, CallDisturbed, ZenonT(30)
  <2> QED
    BY <1>0, <2>2, ZenonT(30) DEF c, d
<1>4. ASSUME NEW w \in Volumes, NEW record, calls' = [calls EXCEPT ![w] = record], w # v
      PROVE  FALSE
  <2>1. calls'[v] = calls[v]
    BY <1>1, <1>4 DEF CallInv
  <2> QED
    BY <1>0, <2>1, ZenonT(30)
<1>5. ASSUME NEW w \in Volumes, GetNodeMap(w) PROVE FALSE
  <2>1. w # v
    BY <1>0, <1>5, ZenonT(30) DEF GetNodeMap
  <2> QED
    BY <1>4, <1>5, <2>1, ZenonT(30) DEF GetNodeMap
<1>6. ASSUME NEW w \in Volumes, CreateLVMVolume(w) PROVE FALSE
  <2>1. w # v
    BY <1>0, <1>6, ZenonT(30) DEF CreateLVMVolume
  <2> QED
    BY <1>3, <1>6, <2>1, ZenonT(30) DEF CreateLVMVolume
<1>7. ASSUME NEW w \in Volumes, Provision(w) PROVE FALSE
  <2> DEFINE done == [NoCall EXCEPT !.pc = "done"]
  <2>1. Disturb(w, done) /\ done.pc # "idle"
    BY <1>7, ZenonT(30) DEF Provision, NoCall
  <2> HIDE DEF done
  <2>2. w = v
    BY <1>3, <2>1, ZenonT(30)
  <2>3. calls'[v] = done
    BY <2>1, <2>2, ZenonT(30) DEF Disturb
  <2> QED
    BY <2>1, <2>3, ZenonT(30)
<1>8. ASSUME NEW w \in Volumes, Refuse(w) PROVE w = v
  BY <1>4, <1>8, ZenonT(30) DEF Refuse
<1> QED
  BY <1>2, <1>5, <1>6, <1>7, <1>8, ZenonT(30) DEF Next

\* A group with m free has no room: for a thick volume that is larger; for a
\* thin one and the metadata of its pool, nor for a smaller pool.
NoRoom(m, cap) ==
    IF class.thin THEN m < cap + PoolMeta /\ (m < cap => m <= PoolSlack)
    ELSE m < cap

\* A group that does not serve the volume has no room for it.
LEMMA GroupRefuses ==
    ASSUME PlacementInv, NEW vol \in vols, vol.group = NoGroup, Usable(vol) = {},
           NEW g \in Groups \cap class.pattern,
           NEW m, m = FreeOf(vol.node)[g]
    PROVE  m \in Nat /\ NoRoom(m, vol.cap)
<1>1. vol.node \in Nodes /\ vol.cap \in Nat \ {0}
  BY PendingVolume, ZenonT(30)
<1>2. m \in Nat
  <2>1. FreeOf(vol.node) \in Space
    BY <1>1, TruthReports, ZenonT(30) DEF PlacementInv
  <2> QED
    BY <2>1, InventoryAssumption DEF Space
<1>3. ~ ((class.thin \/ m >= vol.cap) /\ LVCreate(vol.node, g, vol.cap))
  BY ZenonT(30) DEF Usable, getVgPriorityList
<1> DEFINE t == Taken(vol.node, g, vol.cap)
<1>4. LVCreate(vol.node, g, vol.cap)
      <=> t <= m /\ (class.thin /\ g \notin pools[vol.node] => t > PoolMeta)
  BY ZenonT(30) DEF LVCreate
<1>5. CASE ~ class.thin
  <2>1. t = vol.cap
    BY <1>5, ZenonT(30) DEF Taken
  <2> HIDE DEF t
  <2>2. ~ (m >= vol.cap /\ t <= m)
    BY <1>3, <1>4, <1>5, ZenonT(30)
  <2>3. m < vol.cap
    BY <1>1, <1>2, <2>1, <2>2
  <2> QED
    BY <1>2, <1>5, <2>3, ZenonT(30) DEF NoRoom
<1>6. CASE class.thin
  <2>1. CASE g \in pools[vol.node]
    <3>1. t = 0
      BY <1>6, <2>1, ZenonT(30) DEF Taken
    <3> HIDE DEF t
    <3>2. t <= m
      BY <1>2, <3>1
    <3> QED
      BY <1>3, <1>4, <1>6, <2>1, <3>2, ZenonT(30)
  <2>2. CASE g \notin pools[vol.node]
    <3>1. t = getThinPoolSize(m, vol.cap) + PoolMeta
      BY <1>6, <2>2, ZenonT(30) DEF Taken
    <3> HIDE DEF t
    <3>2. ~ (t <= m /\ t > PoolMeta)
      BY <1>3, <1>4, <1>6, ZenonT(30)
    <3>3. PoolMeta \in Nat \ {0} /\ PoolSlack \in Nat /\ PoolMeta <= PoolSlack
      BY SizingAssumption, PlacementAssumption
    <3>4. m < vol.cap + PoolMeta /\ (m < vol.cap => m <= PoolSlack)
      BY <1>1, <1>2, <3>1, <3>2, <3>3 DEF getThinPoolSize
    <3> QED
      BY <1>2, <1>6, <3>4, ZenonT(30) DEF NoRoom
  <2> QED
    BY <2>1, <2>2, ZenonT(30)
<1> QED
  BY <1>5, <1>6, ZenonT(30)

\* A refusal of what was listed from the truth means that the most free space
\* of any group in the topology is no room.
LEMMA RefuseMost ==
    ASSUME PlacementInv, NEW v \in Volumes, Refuse(v),
           calls[v].undisturbed, BySpace, ~ absentFirst,
           NEW nodes, nodes = filterNodesByTopology(calls[v].segment)
    PROVE  \E most \in Nat :
              /\ NoRoom(most, calls[v].cap)
              /\ calls[v].cap \in Nat \ {0}
              /\ \A n \in nodes, g \in Groups \cap class.pattern :
                    FreeOf(n)[g] \in Nat /\ FreeOf(n)[g] <= most
              /\ most > 0 => \E n \in nodes, g \in Groups \cap class.pattern :
                                FreeOf(n)[g] = most
<1> DEFINE F(m) == MaxFree(Truth[m], class.pattern)
<1>1. PICK vol \in vols : vol.name = v /\ vol.group = NoGroup /\ Usable(vol) = {}
  BY ZenonT(30) DEF Refuse
<1>2. /\ vol.node \in Nodes /\ calls[v].pc = "wait" /\ vol.cap = calls[v].cap
      /\ vol.cap \in Nat \ {0}
  BY <1>1, PendingVolume, ZenonT(30)
<1>3. /\ AllReport(Truth) /\ \A m \in Nodes : FreeOf(m) \in Space
      /\ \A m \in Nodes : Truth[m].groups = FreeOf(m)
  BY TruthReports, ZenonT(30) DEF PlacementInv
<1>4. nodes \in SUBSET Nodes
  BY TopologyNodes, ZenonT(30)
<1>5. vol.node \in Scheduler(getSpaceWeightedMap(Truth, class.pattern), nodes, absentFirst)
  BY <1>1, <1>2, ZenonT(30) DEF PlacementInv, ListedInv
<1>6. vol.node \in nodes /\ \A m \in nodes : F(m) <= F(vol.node)
  <2>1. \A owner \in Scheduler(getSpaceWeightedMap(Truth, class.pattern),
                              nodes, absentFirst) :
           /\ owner \in nodes
           /\ \/ absentFirst /\ F(owner) = 0
              \/ \A m \in nodes : F(m) <= F(owner)
    BY <1>3, <1>4, LightestHasMost
  <2> HIDE DEF F
  <2> QED
    BY <1>5, <2>1, ZenonT(30)
<1>7. \A m \in Nodes : Truth[m].groups \in Space
  BY <1>3, ZenonT(30)
<1>8. \A m \in Nodes :
         /\ F(m) \in 0 .. Capacity
         /\ \A g \in Groups \cap class.pattern : FreeOf(m)[g] <= F(m)
         /\ \A g \in Groups : FreeOf(m)[g] \in 0 .. Capacity
         /\ F(m) > 0 => \E g \in Groups \cap class.pattern : FreeOf(m)[g] = F(m)
  <2> SUFFICES ASSUME NEW m \in Nodes
               PROVE  /\ F(m) \in 0 .. Capacity
                      /\ \A g \in Groups \cap class.pattern : FreeOf(m)[g] <= F(m)
                      /\ \A g \in Groups : FreeOf(m)[g] \in 0 .. Capacity
                      /\ F(m) > 0 => \E g \in Groups \cap class.pattern :
                                        FreeOf(m)[g] = F(m)
    OBVIOUS
  <2>1. Truth[m].groups = FreeOf(m) /\ Truth[m].groups \in Space
    BY <1>3, <1>7, ZenonT(30)
  <2>2. \A g \in Groups : FreeOf(m)[g] \in 0 .. Capacity
    BY <2>1, ZenonT(30) DEF Space
  <2>3. /\ F(m) \in 0 .. Capacity
        /\ \A g \in Groups \cap class.pattern : Truth[m].groups[g] <= F(m)
        /\ F(m) > 0 => \E g \in Groups \cap class.pattern : Truth[m].groups[g] = F(m)
    BY <1>7, MaxFreeOf, ZenonT(30)
  <2> HIDE DEF F
  <2> QED
    BY <2>1, <2>2, <2>3, ZenonT(30)
<1> HIDE DEF F
<1>9. /\ F(vol.node) \in Nat
      /\ \A n \in nodes, g \in Groups \cap class.pattern :
            FreeOf(n)[g] \in Nat /\ FreeOf(n)[g] <= F(vol.node)
  <2>1. /\ Capacity \in Nat
        /\ F(vol.node) \in 0 .. Capacity
        /\ \A n \in nodes : F(n) \in 0 .. Capacity /\ F(n) <= F(vol.node)
        /\ \A n \in nodes, g \in Groups \cap class.pattern :
              FreeOf(n)[g] \in 0 .. Capacity /\ FreeOf(n)[g] <= F(n)
    BY <1>2, <1>4, <1>6, <1>8, InventoryAssumption, ZenonT(30)
  <2> QED
    BY <2>1
<1>10. NoRoom(F(vol.node), calls[v].cap)
  <2>1. CASE F(vol.node) > 0
    <3>1. PICK h \in Groups \cap class.pattern : FreeOf(vol.node)[h] = F(vol.node)
      BY <1>2, <1>8, <2>1, ZenonT(30)
    <3> QED
      BY <1>1, <1>2, <3>1, GroupRefuses, ZenonT(30)
  <2>2. CASE ~ (F(vol.node) > 0)
    BY <1>2, <1>9, <2>2, SizingAssumption, PlacementAssumption DEF NoRoom
  <2> QED
    BY <2>1, <2>2, ZenonT(30)
<1> QED
  BY <1>2, <1>6, <1>8, <1>9, <1>10, ZenonT(30)

\* And then no group of any node in the topology will do.
LEMMA RefuseReason ==
    ASSUME PlacementInv, NEW v \in Volumes, Refuse(v),
           calls[v].undisturbed, BySpace, ~ absentFirst
    PROVE  LET Below(size) ==
                 \A n \in filterNodesByTopology(calls[v].segment),
                    g \in Groups \cap class.pattern : FreeOf(n)[g] < size
           IN  IF class.thin
               THEN /\ Below(calls[v].cap + PoolMeta)
                    /\ Below(calls[v].cap) => Below(PoolSlack + 1)
               ELSE Below(calls[v].cap)
<1> DEFINE nodes == filterNodesByTopology(calls[v].segment)
           Below(size) == \A n \in nodes, g \in Groups \cap class.pattern :
                             FreeOf(n)[g] < size
           cap == calls[v].cap
<1>1. PICK most \in Nat :
         /\ NoRoom(most, cap)
         /\ cap \in Nat \ {0}
         /\ \A n \in nodes, g \in Groups \cap class.pattern :
               FreeOf(n)[g] \in Nat /\ FreeOf(n)[g] <= most
         /\ most > 0 => \E n \in nodes, g \in Groups \cap class.pattern :
                           FreeOf(n)[g] = most
  BY RefuseMost, ZenonT(30)
<1> HIDE DEF nodes, cap
<1>2. ASSUME NEW size \in Int, most < size PROVE Below(size)
  BY <1>1, <1>2
<1>3. ASSUME NEW size \in Nat \ {0}, Below(size) PROVE most < size
  BY <1>1, <1>3
<1> HIDE DEF Below
<1>4. PoolMeta \in Nat /\ PoolSlack \in Nat
  BY SizingAssumption, PlacementAssumption
<1>5. CASE class.thin
  <2>1. most < cap + PoolMeta /\ (most < cap => most <= PoolSlack)
    BY <1>1, <1>5, ZenonT(30) DEF NoRoom
  <2>2. most <= PoolSlack => most < PoolSlack + 1
    BY <1>1, <1>4
  <2>3. cap + PoolMeta \in Int /\ PoolSlack + 1 \in Int
    BY <1>1, <1>4
  <2>4. Below(cap + PoolMeta)
    BY <1>2, <2>1, <2>3, ZenonT(30)
  <2>5. Below(cap) => Below(PoolSlack + 1)
    BY <1>1, <1>2, <1>3, <2>1, <2>2, <2>3, ZenonT(30)
  <2> QED
    BY <1>5, <2>4, <2>5, ZenonT(30) DEF Below, nodes, cap
<1>6. CASE ~ class.thin
  <2>1. most < cap /\ cap \in Int
    BY <1>1, <1>6 DEF NoRoom
  <2>2. Below(cap)
    BY <1>2, <2>1, ZenonT(30)
  <2> QED
    BY <1>6, <2>2, ZenonT(30) DEF Below, nodes, cap
<1> QED
  BY <1>5, <1>6, ZenonT(30)

\* A volume that SpaceWeighted placed, by true reports and with nothing moved
\* since, is refused only when no node of the topology has a group for it; a
\* thin one with its pool's metadata, or, unless a group holds the volume
\* alone, in a pool made smaller by the slack.
THEOREM RefusalsJustified == Spec => RefusedForAReason
<1>1. ASSUME PlacementInv, [Next]_vars
      PROVE  [\A v \in Volumes :
                /\ calls[v].pc = "wait" /\ calls'[v].pc = "idle"
                /\ calls[v].undisturbed
                /\ BySpace /\ ~ absentFirst
                => LET Below(size) ==
                         \A n \in filterNodesByTopology(calls[v].segment),
                            g \in Groups \cap class.pattern : FreeOf(n)[g] < size
                   IN  IF class.thin
                       THEN /\ Below(calls[v].cap + PoolMeta)
                            /\ Below(calls[v].cap) => Below(PoolSlack + 1)
                       ELSE Below(calls[v].cap)]_vars
  BY <1>1, OnlyRefuse, RefuseReason, ZenonT(30)
<1> QED
  BY <1>1, PlacementInvariant, PTL DEF Spec, RefusedForAReason

-----------------------------------------------------------------------------
\* The least loaded node.

\* No volumes have no capacity.
LEMMA EmptySum == MapThenSumSet(LAMBDA v : v.cap, {}) = 0
<1> DEFINE Sums(f) == f = [s \in SUBSET {} |->
                             IF s = {} THEN 0
                             ELSE LET x == CHOOSE y \in s : TRUE
                                  IN  x.cap + f[s \ {x}]]
<1>1. \A s \in SUBSET {} : s = {}
  BY ZenonT(30)
<1>2. Sums([s \in SUBSET {} |-> 0])
  BY <1>1, ZenonT(30)
<1>3. Sums(CHOOSE f : Sums(f))
  BY <1>2, ZenonT(30)
<1>4. (CHOOSE f : Sums(f))[{}] = 0
  BY <1>3, ZenonT(30)
<1> QED
  BY <1>4, ZenonT(30) DEF MapThenSumSet, MapThenFoldSet

\* A volume without a group appears only when it is created.
LEMMA OnlyCreate ==
    ASSUME PlacementInv, Next, NEW vol \in vols' \ vols, vol.group = NoGroup
    PROVE  \E v \in Volumes :
              /\ vol.name = v /\ calls[v].pc = "mapped"
              /\ vol.node \in Scheduler(calls[v].nmap,
                                        filterNodesByTopology(calls[v].segment),
                                        absentFirst)
<1>1. ~ Agent /\ \A v \in Volumes : ~ GetNodeMap(v) /\ ~ Refuse(v)
  BY ZenonT(30) DEF Agent, GetNodeMap, Refuse
<1>2. ASSUME NEW v \in Volumes, Provision(v) PROVE FALSE
  <2>1. PICK u \in vols : u.group = NoGroup /\ \E g \in Best(u) :
           vols' = (vols \ {u}) \cup {[u EXCEPT !.group = g]}
    BY <1>2, ZenonT(30) DEF Provision
  <2>2. PICK g \in Best(u) : vols' = (vols \ {u}) \cup {[u EXCEPT !.group = g]}
    BY <2>1, ZenonT(30)
  <2>3. g \in Groups
    BY ZenonT(30) DEF Best, Usable, getVgPriorityList
  <2>4. u = [name |-> u.name, node |-> u.node, group |-> NoGroup, cap |-> u.cap]
    BY <2>1, PendingVolume, ZenonT(30)
  <2> DEFINE new == [u EXCEPT !.group = g]
  <2>5. new.group = g
    BY <2>4
  <2>6. vol = new
    BY <2>2, ZenonT(30)
  <2> HIDE DEF new
  <2> QED
    BY <2>3, <2>5, <2>6, PlacementAssumption, ZenonT(30)
<1>3. ASSUME NEW v \in Volumes, CreateLVMVolume(v)
      PROVE  /\ vol.name = v /\ calls[v].pc = "mapped"
             /\ vol.node \in Scheduler(calls[v].nmap,
                                       filterNodesByTopology(calls[v].segment),
                                       absentFirst)
  <2>1. PICK owner \in Scheduler(calls[v].nmap,
                                 filterNodesByTopology(calls[v].segment), absentFirst) :
           vols' = vols \cup {[name |-> v, node |-> owner, group |-> NoGroup,
                               cap |-> calls[v].cap]}
    BY <1>3, ZenonT(30) DEF CreateLVMVolume
  <2>2. vol = [name |-> v, node |-> owner, group |-> NoGroup, cap |-> calls[v].cap]
    BY <2>1, ZenonT(30)
  <2>3. vol.name = v /\ vol.node = owner
    BY <2>2
  <2> QED
    BY <1>3, <2>1, <2>3, ZenonT(30) DEF CreateLVMVolume
<1> QED
  BY <1>1, <1>2, <1>3, ZenonT(30) DEF Next

\* BestFree is what the weights are made of.
LEMMA BestFreeIsMaxFree ==
    ASSUME TypeInv, OthersInv, NEW n \in Nodes
    PROVE  BestFree(n) = MaxFree(Truth[n], class.pattern)
<1>1. Truth[n].groups = FreeOf(n) /\ FreeOf(n) \in Space
  BY TruthReports, ZenonT(30)
<1>2. DOMAIN FreeOf(n) = Groups
  BY <1>1, ZenonT(30) DEF Space
<1> QED
  BY <1>1, <1>2, ZenonT(30) DEF BestFree, MaxFree

\* By space: nobody has more free space than the owner.
LEMMA MostFree ==
    ASSUME PlacementInv, BySpace, NEW nodes \in SUBSET Nodes, NEW owner,
           owner \in Scheduler(getNodeMap(class.schd, vols, Truth, class.pattern),
                               nodes, absentFirst)
    PROVE  \/ absentFirst /\ BestFree(owner) = 0
           \/ \A n \in nodes : BestFree(n) <= BestFree(owner)
<1> DEFINE F(m) == MaxFree(Truth[m], class.pattern)
<1>1. AllReport(Truth) /\ \A n \in Nodes : BestFree(n) = F(n)
  BY TruthReports, BestFreeIsMaxFree, ZenonT(30) DEF PlacementInv
<1>2. getNodeMap(class.schd, vols, Truth, class.pattern)
      = getSpaceWeightedMap(Truth, class.pattern)
  BY ZenonT(30) DEF BySpace, getNodeMap
<1>3. \A o \in Scheduler(getSpaceWeightedMap(Truth, class.pattern), nodes, absentFirst) :
         /\ o \in nodes
         /\ \/ absentFirst /\ F(o) = 0
            \/ \A m \in nodes : F(m) <= F(o)
  BY <1>1, LightestHasMost
<1> HIDE DEF F
<1>4. /\ owner \in nodes
      /\ \/ absentFirst /\ F(owner) = 0
         \/ \A m \in nodes : F(m) <= F(owner)
  BY <1>2, <1>3, ZenonT(30)
<1>5. \A m \in nodes : BestFree(m) = F(m)
  BY <1>1, ZenonT(30)
<1> QED
  BY <1>4, <1>5, ZenonT(30)

\* Otherwise: no node with a load has less than the owner, when the loads are
\* in range and every volume has its group.
LEMMA LeastLoad ==
    ASSUME ~ BySpace, \A vol \in vols : vol.group # NoGroup,
           NEW nodes, NEW owner,
           owner \in Scheduler(getNodeMap(class.schd, vols, Truth, class.pattern),
                               nodes, absentFirst),
           \A n \in nodes : Load(n) \in 0 .. MaxInt,
           NEW n \in nodes, Load(n) > 0
    PROVE  Load(owner) <= Load(n)
<1> DEFINE nmap == getNodeMap(class.schd, vols, Truth, class.pattern)
           Here(m) == {v \in Matching(vols, class.pattern) : v.node = m}
           listed == nodes \cap DOMAIN nmap
           absent == nodes \ DOMAIN nmap
<1>1. \A m : {v \in vols : /\ v.node = m
                           /\ v.group \in class.pattern \cup {NoGroup}} = Here(m)
  BY ZenonT(30) DEF Matching
<1>2. \A m : Load(m) = IF class.schd = "VolumeWeighted" THEN Cardinality(Here(m))
                       ELSE MapThenSumSet(LAMBDA v : v.cap, Here(m))
  BY <1>1, ZenonT(30) DEF Load
<1>3. \A m : m \in DOMAIN nmap <=> Here(m) # {}
  <2>1. CASE class.schd = "VolumeWeighted"
    <3>1. nmap = getVolumeWeightedMap(vols, class.pattern)
      BY <2>1, ZenonT(30) DEF getNodeMap
    <3>2. DOMAIN nmap = {v.node : v \in Matching(vols, class.pattern)}
      BY <3>1, ZenonT(30) DEF getVolumeWeightedMap
    <3> HIDE DEF nmap
    <3> QED
      BY <3>2, ZenonT(30)
  <2>2. CASE class.schd = "CapacityWeighted"
    <3>1. nmap = getCapacityWeightedMap(vols, class.pattern)
      BY <2>2 DEF getNodeMap
    <3>2. DOMAIN nmap = {v.node : v \in Matching(vols, class.pattern)}
      BY <3>1, ZenonT(30) DEF getCapacityWeightedMap
    <3> HIDE DEF nmap
    <3> QED
      BY <3>2, ZenonT(30)
  <2> QED
    BY <2>1, <2>2, ZenonT(30) DEF BySpace
<1>4. \A m : Here(m) = {} => Load(m) = 0
  <2> SUFFICES ASSUME NEW m, Here(m) = {} PROVE Load(m) = 0
    OBVIOUS
  <2>1. Cardinality({}) = 0
    BY FS_EmptySet
  <2> QED
    BY <1>2, <2>1, EmptySum, ZenonT(30)
<1>5. ASSUME NEW m \in nodes, m \in DOMAIN nmap PROVE nmap[m] = Load(m)
  <2>1. CASE class.schd = "VolumeWeighted"
    <3>1. nmap[m] = Cardinality(Here(m))
      BY <1>5, <2>1, ZenonT(30) DEF getNodeMap, getVolumeWeightedMap
    <3> QED
      BY <1>2, <2>1, <3>1, ZenonT(30)
  <2>2. CASE class.schd = "CapacityWeighted"
    <3>0. class.schd # "VolumeWeighted"
      BY <2>2
    <3>1. nmap = getCapacityWeightedMap(vols, class.pattern)
      BY <2>2 DEF getNodeMap
    <3>2. nmap[m] = Wrap(MapThenSumSet(LAMBDA v : v.cap, Here(m)))
      BY <1>5, <3>1, ZenonT(30) DEF getCapacityWeightedMap
    <3>3. Load(m) = MapThenSumSet(LAMBDA v : v.cap, Here(m))
      BY <1>2, <3>0, ZenonT(30)
    <3>4. nmap[m] = Wrap(Load(m))
      BY <3>2, <3>3, ZenonT(30)
    <3> HIDE DEF nmap, Here
    <3>5. Wrap(Load(m)) = Load(m)
      <4> DEFINE x == Load(m)
      <4>1. x \in 0 .. MaxInt
        BY ZenonT(30)
      <4> HIDE DEF x
      <4>2. Wrap(x) = x
        BY <4>1, SizingAssumption DEF Wrap, MaxInt
      <4> QED
        BY <4>2, ZenonT(30) DEF x
    <3> QED
      BY <3>4, <3>5, ZenonT(30)
  <2> QED
    BY <2>1, <2>2, ZenonT(30) DEF BySpace
<1>6. \/ owner \in absent
      \/ owner \in listed /\ \A m \in listed : nmap[owner] <= nmap[m]
  BY ZenonT(30) DEF Scheduler
<1>7. Load(n) \in 0 .. MaxInt /\ (Load(owner) = 0 => Load(owner) <= Load(n))
  <2>1. Load(n) \in 0 .. MaxInt
    BY ZenonT(30)
  <2>2. 0 <= Load(n)
    BY <2>1, MaxIntIsInt
  <2> QED
    BY <2>1, <2>2, ZenonT(30)
<1> HIDE DEF nmap, Here
<1>8. n \in listed
  <2>1. Load(n) # 0
    BY <1>7, MaxIntIsInt
  <2> QED
    BY <1>3, <1>4, <2>1, ZenonT(30)
<1>9. CASE owner \in absent
  BY <1>3, <1>4, <1>7, <1>9, ZenonT(30)
<1>10. CASE owner \in listed /\ \A m \in listed : nmap[owner] <= nmap[m]
  BY <1>5, <1>8, <1>10, ZenonT(30)
<1> QED
  BY <1>6, <1>9, <1>10, ZenonT(30)

\* The owner of a volume that was placed by a true and undisturbed listing has
\* the most free space or, by the other algorithms, the least load.
THEOREM OwnersLeastLoaded == Spec => LeastLoaded
<1>1. ASSUME PlacementInv, Next, NEW vol \in vols' \ vols,
             vol.group = NoGroup, calls[vol.name].undisturbed,
             NEW nodes, nodes = filterNodesByTopology(calls[vol.name].segment)
      PROVE  IF BySpace
             THEN \/ absentFirst /\ BestFree(vol.node) = 0
                  \/ \A n \in nodes : BestFree(n) <= BestFree(vol.node)
             ELSE (\A n \in nodes : Load(n) \in 0 .. MaxInt)
                  => \A n \in nodes : Load(n) > 0 => Load(vol.node) <= Load(n)
  <2>1. PICK v \in Volumes :
           /\ vol.name = v /\ calls[v].pc = "mapped"
           /\ vol.node \in Scheduler(calls[v].nmap, nodes, absentFirst)
    BY <1>1, OnlyCreate, ZenonT(30)
  <2>2. "mapped" # "wait"
    OBVIOUS
  <2>3. /\ calls[v].nmap = getNodeMap(class.schd, vols, Truth, class.pattern)
        /\ \A u \in vols : u.group # NoGroup
    BY <1>1, <2>1, <2>2, PendingVolume, ZenonT(30) DEF PlacementInv, ListedInv
  <2>4. vol.node \in Scheduler(getNodeMap(class.schd, vols, Truth, class.pattern),
                               nodes, absentFirst)
    BY <2>1, <2>3, ZenonT(30)
  <2>5. nodes \in SUBSET Nodes
    BY <1>1, TopologyNodes, ZenonT(30)
  <2>6. CASE BySpace
    <3>1. \/ absentFirst /\ BestFree(vol.node) = 0
          \/ \A n \in nodes : BestFree(n) <= BestFree(vol.node)
      BY <1>1, <2>4, <2>5, <2>6, MostFree
    <3> QED
      BY <2>6, <3>1, ZenonT(30)
  <2>7. CASE ~ BySpace
    <3>1. ASSUME \A n \in nodes : Load(n) \in 0 .. MaxInt, NEW n \in nodes, Load(n) > 0
          PROVE  Load(vol.node) <= Load(n)
      BY <2>3, <2>4, <2>7, <3>1, LeastLoad
    <3> QED
      BY <2>7, <3>1, ZenonT(30)
  <2> QED
    BY <2>6, <2>7, ZenonT(30)
<1>2. ASSUME PlacementInv, [Next]_vars
      PROVE  [\A vol \in vols' \ vols :
                (vol.group = NoGroup /\ calls[vol.name].undisturbed) =>
                   LET nodes == filterNodesByTopology(calls[vol.name].segment) IN
                   IF BySpace
                   THEN \/ absentFirst /\ BestFree(vol.node) = 0
                        \/ \A n \in nodes : BestFree(n) <= BestFree(vol.node)
                   ELSE (\A n \in nodes : Load(n) \in 0 .. MaxInt)
                        => \A n \in nodes : Load(n) > 0 => Load(vol.node) <= Load(n)]_vars
  BY <1>1, <1>2, ZenonT(30)
<1> QED
  BY <1>2, PlacementInvariant, PTL DEF Spec, LeastLoaded
=============================================================================
