---------------------------- MODULE MCRoadmapPlan ----------------------------
EXTENDS RoadmapPlan

CONSTANTS shampoo, leave_in, r1, r2

\* A base step and an optional one.
MCRuleChain == <<shampoo, leave_in>>

\* The first rows of both steps.
MCReferences == {<<1, 1, 1>>, <<1, 2, 1>>}

=============================================================================
