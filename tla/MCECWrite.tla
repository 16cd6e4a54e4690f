------------------------------ MODULE MCECWrite ------------------------------
EXTENDS ECWrite

CONSTANTS p, a, c1, c2

MCCells == {c1, c2}

Plan(reads, writes, wiped) ==
  [to_read |-> reads, will_write |-> writes, wipes |-> wiped]

(* An overwrite of part of a stripe that goes on into another stripe, and  *)
(* a truncate.                                                             *)
RmwPlan       == Plan({c1}, {c1}, {})
OverlapPlan   == Plan({c1}, {c1, c2}, {})
TruncatePlan  == Plan({}, {c2}, {c1})

MixedPlans    == {RmwPlan, OverlapPlan, TruncatePlan}
=============================================================================
