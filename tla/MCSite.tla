-------------------------------- MODULE MCSite --------------------------------
(* Small instances of Site for TLC.                                        *)
EXTENDS Site

CONSTANT MaxLines  \* bound: lines of an archived report

\* Every document of the subset, of up to MaxLines lines.
MCDocuments ==
  {d \in UNION {[1 .. n -> {"blank", "hr", "heading", "quote", "row", "divider", "item", "text"}]
                  : n \in 1 .. MaxLines} : InSubset(d)}

\* Probes run beside one archived report only, builds are made of every one.
MCInit == SiteInit /\ (left = 0 \/ results[Archived].report.lines = << "text" >>)

MCSpec == MCInit /\ [][SiteNext]_siteVars /\ WF_siteVars(BuildStep)
=============================================================================
