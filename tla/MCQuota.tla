------------------------------ MODULE MCQuota ------------------------------
(***************************************************************************)
(* Quota for TLC: a window of two seconds, two sizes of request (one with a *)
(* negative estimate, which counts as zero) and limits small enough that    *)
(* each of them is the one that refuses in some behaviour.                  *)
(***************************************************************************)
EXTENDS Quota

\* At most two requests in a window and three a day; a window holds one large
\* request and one small one, a day one more small one.
SmallLimits ==
    [requestsPerMinute |-> 2, requestsPerDay |-> 3, tokensPerMinute |-> 5,
     tokensPerDay |-> 6, dailyCost |-> 9]

\* A single limit, so that no other one hides what it lets through.
DayLimit ==
    [requestsPerMinute |-> NoLimit, requestsPerDay |-> NoLimit,
     tokensPerMinute |-> NoLimit, tokensPerDay |-> 6, dailyCost |-> NoLimit]

UnitPrice == [input |-> 1, output |-> 2]

SmallAndLarge == { [input |-> 1, output |-> 1], [input |-> 3, output |-> -1] }

\* A provider that reports nothing sensible, one below and one above every estimate.
AnyUsage == { [tokens |-> -1, cost |-> -1], [tokens |-> 1, cost |-> 1],
              [tokens |-> 4, cost |-> 5] }

UsageWithinEstimate == { [tokens |-> 0, cost |-> 0], [tokens |-> 2, cost |-> 3] }
=============================================================================
