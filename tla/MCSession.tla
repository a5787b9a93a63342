------------------------------ MODULE MCSession ------------------------------
(* Two transactions to one contract, whose failures are an UNAUTHORIZED behind *)
(* the last checks of the lists and a rejection with INSUFFICIENT_LIQUIDITY;   *)
(* two implementations with different functions, and two names to give.        *)
EXTENDS Session

SomeFailures == {<<1, 18, 0>>, <<3, 6, 4>>}
SomeCosts == [kind \in {"done", "failure"} |-> IF kind = "done" THEN 5 ELSE 2]

SomeFunctions ==
    [class \in {"Unitroller", "JoetrollerG1", "Joetroller", "Market"} |->
        CASE class = "Unitroller" -> {"_acceptImplementation"}
          [] class = "JoetrollerG1" -> {"_become", "refreshJoeSpeeds"}
          [] class = "Joetroller" -> {"_become", "_setCreditLimit"}
          [] class = "Market" -> {"mint"}]
===============================================================================
