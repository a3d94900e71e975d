------------------------------- MODULE MCOutcomes -------------------------------
(* One job of each kind: RPent, RATs, and RATs with a seed it cannot use.  *)
EXTENDS Outcomes

CONSTANTS p1, t1, t2

MCRpentJobs == {p1}
MCRatsJobs == {t1, t2}
MCOtherSeeds == {t2}
===============================================================================
