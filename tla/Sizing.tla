------------------------------- MODULE Sizing -------------------------------
(***************************************************************************)
(* The arithmetic of sizes: how requests are rounded, how large a snapshot *)
(* and a thin pool become, and the rates a volume is limited to.           *)
(*                                                                         *)
(* Mi and Gi are constants so that small instances can stand for 2^20 and  *)
(* 2^30; IntMod stands for 2^64, the number of values of an int64.         *)
(***************************************************************************)
EXTENDS Integers

CONSTANTS
    Mi, Gi,     \* the two units sizes are rounded to
    IntMod,     \* the number of values of an int64
    PoolSlack   \* what a thin pool leaves free in its volume group

ASSUME SizingAssumption ==
    /\ Mi \in Nat \ {0}
    /\ \E k \in 1 .. Gi : Gi = k * Mi
    /\ IntMod \in Nat \ {0}
    /\ IntMod % 2 = 0
    /\ PoolSlack \in Nat

MaxInt == (IntMod \div 2) - 1

\* What an int64 holds after an operation whose exact result is n.
Wrap(n) == ((n + IntMod \div 2) % IntMod) - IntMod \div 2

\* Division of int64 values, which truncates towards zero.
Quotient(n, unit) ==
    IF n >= 0 THEN n \div unit ELSE - ((- n) \div unit)

RoundUp(size, unit) == Quotient(Wrap(size + unit - 1), unit) * unit

getRoundedCapacity(size) ==
    IF size > Gi THEN RoundUp(size, Gi) ELSE RoundUp(size, Mi)

\* What a snapshot class says of the size: nothing, n percent or n bytes.
SnapClass == [unit : {"none", "percent", "bytes"}, n : Nat]

\* The classes NewSnapshotParams accepts ...
ValidSnapClass(class) ==
    \/ class.unit = "none"
    \/ class.unit = "percent" /\ class.n \in 1 .. 100
    \/ class.unit = "bytes" /\ class.n >= 1

\* ... and what it makes of them: no size is a percentage of 0.
NewSnapshotParams(class) ==
    [abs  |-> class.unit = "bytes",
     size |-> IF class.unit = "none" THEN 0 ELSE class.n]

\* Wrong getSnapSize: an absolute size is not capped by its origin.
getSnapSizeUncapped(params, capacity) ==
    getRoundedCapacity(IF params.abs THEN params.size
                       ELSE (capacity * params.size) \div 100)

\* The size of a snapshot, from a percentage or an absolute size.
getSnapSize(params, capacity) ==
    getRoundedCapacity(
        IF ~ params.abs THEN (capacity * params.size) \div 100
        ELSE IF params.size > capacity THEN capacity
        ELSE params.size)

\* The size written into the LVMSnapshot; NoSize for a thin snapshot.
NoSize == 0

SnapSize(params, capacity, thin) ==
    LET size == getSnapSize(params, capacity) IN
    IF size > 0 THEN size ELSE IF thin THEN NoSize ELSE capacity

\* The thin pool that is made with the first thin volume of a group.
getThinPoolSize(vgFree, volSize) ==
    IF vgFree < volSize THEN vgFree - PoolSlack ELSE volSize

\* setIOLimits counts every started Gi, ...
CapacityGB(bytes) == (bytes + Gi - 1) \div Gi

\* ... and multiplies as uint64.
IOLimit(rate, bytes) == (rate * CapacityGB(bytes)) % IntMod
=============================================================================
