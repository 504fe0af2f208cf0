--------------------------- MODULE MCNodeService ---------------------------
(***************************************************************************)
(* Small instances of NodeService.                                         *)
(***************************************************************************)
EXTENDS NodeService

\* Every mode and both kinds of sharing, and a volume of another node.
MCKinds ==
    {<<TRUE, "fs", FALSE>>, <<TRUE, "btrfs", TRUE>>, <<TRUE, "block", FALSE>>,
     <<FALSE, "fs", FALSE>>}

\* As much as the volume, a size above the smallest one, none, and two that are
\* refused.
MCSnapClasses ==
    {[unit |-> "percent", n |-> 100], [unit |-> "bytes", n |-> 3],
     [unit |-> "none", n |-> 0], [unit |-> "percent", n |-> 200],
     [unit |-> "bytes", n |-> 0]}

\* Rates for another group and for a prefix of the group, which is repeated.
CONSTANTS vg, v, other

MCRateConfig ==
    <<[key |-> vg, rate |-> 1], [key |-> other, rate |-> 2],
      [key |-> vg, rate |-> 3]>>

\* What the theorems on IO limits assume holds of these rates and sizes.
ASSUME MCRatesFit == RatesFit
=============================================================================
