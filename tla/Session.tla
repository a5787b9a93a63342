------------------------------- MODULE Session -------------------------------
(***************************************************************************)
(* A session of the scenario runner and what it has to do with: the node    *)
(* that it sends transactions to (Invokation), and the files from which the *)
(* next session will know its contracts (Registry). Both ask one flag, the  *)
(* dry run, before they touch anything; otherwise a transaction leaves the  *)
(* files alone and a save does not wait for the node, so that a behaviour   *)
(* is examined at the one side or at the other.                             *)
(***************************************************************************)
EXTENDS Invokation

CONSTANTS Names, Functions, MaxDeploys, MaxRestarts   \* see Registry

\* No implementation, token or market takes the name of the Unitroller or the
\* one that the Unitroller gets with the functions of its implementation.
ASSUME NamesAssumption ==
    /\ IsFiniteSet(Names) /\ Names \cap {"Unitroller", "Joetroller"} = {}
    /\ MaxDeploys \in Nat

VARIABLES
    part,   \* the side that is examined: "node" or "files"
    code, impl, networks, abis, world, next, writes, torn, unmerged, apart, restarts
R == INSTANCE Registry

nodeVars == <<chain, totalGas, reporter, n, pc, gas, value, estimated, stale, reports, gasCounter>>
fileVars == <<code, impl, networks, abis, world, next, writes, torn, unmerged, apart, restarts>>
sessionVars == <<part, dryRun, nodeVars, fileVars>>

Pristine ==
    /\ contract = Done /\ effects = {} /\ lost = {} /\ moves = 0
    /\ totalGas = 0 /\ reporter = "JToken"
    /\ n = 1 /\ pc = "estimate" /\ gas = 0 /\ value = NoAnswer /\ estimated = NoAnswer
    /\ stale = FALSE /\ reports = << >> /\ gasCounter = 0

SessionInit ==
    /\ part \in {"node", "files"}
    /\ R!Init
    /\ IF part = "node" THEN Init ELSE Pristine

AtTheNode == part = "node" /\ UNCHANGED <<part, fileVars>>
AtTheFiles == part = "files" /\ UNCHANGED <<part, nodeVars>>

SessionNext == (AtTheNode /\ Next) \/ (AtTheFiles /\ R!Next)
SessionSpec == SessionInit /\ [][SessionNext]_sessionVars

-----------------------------------------------------------------------------
\* What a report holds is right: one assertion holds of it, its value is that of
\* the transaction, the gas was enough, and errors go by the contract's names
\* (Invokation.ts, AssertionEvent.ts, ErrorReporter.ts).
ReportsAreRight ==
    /\ TypeOK
    /\ OneAssertionHolds /\ ValueIsOfTheTransaction /\ GasSuffices /\ ErrorsKeepTheirName

\* The files tell the next session where the contracts are and what functions
\* they have, those of an implementation that was adopted included
\* (Networks.ts).
FilesFitTheChain == R!TypeOK /\ R!FilesFitTheChain /\ R!ImplementationIsKnown

\* A session that is started again knows what the last one knew, and a dry run
\* leaves nothing for it to find (loadContracts, storeAndSaveContract).
RestartForgetsNothing == R!RestartForgetsNothing /\ R!DryRunLeavesNoTrace
===============================================================================
