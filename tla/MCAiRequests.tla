---------------------------- MODULE MCAiRequests ----------------------------
EXTENDS AiRequests, TLC
CONSTANTS cl, fr, c1, c2, o1, none

MCRole == (cl :> "client") @@ (fr :> "freelancer")
MCClient == [t \in {o1} |-> cl]
MCFreelancer == [t \in {o1} |-> fr]
MCSize == <<1, 1, 2>>
\* The first call is any operation, the second one a summary.
MCStarts == (c1 :> Ops \X BOOLEAN) @@ (c2 :> {<<"summary", TRUE>>, <<"summary", FALSE>>})
=============================================================================
