----------------------------- MODULE MCJoeLending ------------------------------
(* JoeLending with finite sets of inputs, for the runs of MCJoeLending*.cfg. *)
EXTENDS JoeLending, TLC

CONSTANTS InitialCollateralFactor, InitialCloseFactor, InitialLiquidationIncentive,
          InitiallyPaused    \* of "Mint", "Borrow", "Transfer", "Seize"

MCInitialConfig ==
    [ collateralFactorMantissa     |-> [j \in JToken |-> InitialCollateralFactor],
      closeFactorMantissa          |-> InitialCloseFactor,
      liquidationIncentiveMantissa |-> InitialLiquidationIncentive,
      supplyCaps                   |-> [j \in JToken |-> 0],
      borrowCaps                   |-> [j \in JToken |-> 0],
      creditLimits                 |-> [a \in Account |-> 0],
      mintGuardianPaused           |-> IF "Mint" \in InitiallyPaused THEN JToken ELSE {},
      borrowGuardianPaused         |-> IF "Borrow" \in InitiallyPaused THEN JToken ELSE {},
      transferGuardianPaused       |-> "Transfer" \in InitiallyPaused,
      seizeGuardianPaused          |-> "Seize" \in InitiallyPaused ]

Symmetry == Permutations(Account) \cup Permutations(JToken)

================================================================================
