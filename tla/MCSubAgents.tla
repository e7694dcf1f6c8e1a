----------------------------- MODULE MCSubAgents -----------------------------
EXTENDS SubAgents

\* A single request with a run id of its own, and a list whose first run id is given.
TwoLists ==
    LET Req(a, given) == [agent |-> a, given |-> given]
    IN  { <<Req("planner", FALSE)>>, <<Req("general", TRUE), Req("planner", FALSE)>> }

\* Nobody known, and a pipeline with an unknown name.
TwoRoutes == { <<"?">>, <<"planner", "?">> }
=============================================================================
