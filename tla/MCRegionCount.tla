---------------------------- MODULE MCRegionCount -----------------------------
(* RegionCount as it stands; the instance is in MCRegionCount.cfg.           *)
EXTENDS RegionCount
===============================================================================
