------------------------------ MODULE SessionProofs ------------------------------
(***************************************************************************)
(* What a scenario is told of its transactions is true: Invokation         *)
(* implements Transactions, and its reports are right, for any number of   *)
(* transactions, any costs and any Failure events, whatever others do to   *)
(* the contract in between and whichever requests and answers get lost.    *)
(* What it finds in the files is true as well: they name the contracts of  *)
(* the chain with the functions that they have, and a session that is      *)
(* started again knows what the last one knew, for any names and any       *)
(* number of contracts, wherever a line fails or a session is cut off.     *)
(***************************************************************************)
EXTENDS Session, FiniteSetTheorems, TLAPS

IsList(s) == \E S : s \in Seq(S)

LEMMA AppendToList ==
    ASSUME NEW s, IsList(s), NEW x
    PROVE  /\ IsList(Append(s, x)) /\ Len(s) \in Nat /\ DOMAIN s = 1 .. Len(s)
           /\ Len(Append(s, x)) = Len(s) + 1 /\ DOMAIN Append(s, x) = 1 .. (Len(s) + 1)
           /\ Append(s, x)[Len(s) + 1] = x
           /\ \A i \in 1 .. Len(s) : Append(s, x)[i] = s[i]
PROOF
  <1>1. PICK S : s \in Seq(S)
    BY DEF IsList
  <1>2. s \in Seq(S \cup {x}) /\ x \in S \cup {x}
    BY <1>1
  <1>3. Append(s, x) \in Seq(S \cup {x})
    BY <1>2
  <1> QED
    BY <1>2, <1>3 DEF IsList

LEMMA NothingReported ==
    IsList(<< >>) /\ Len(<< >>) = 0 /\ DOMAIN << >> = {}
PROOF
  <1>1. << >> \in Seq({})
    OBVIOUS
  <1> QED
    BY <1>1 DEF IsList

--------------------------------------------------------------------------------
(***************************************************************************)
(* Answers of a contract.                                                  *)
(***************************************************************************)
LEMMA AnswerKinds ==
    ASSUME NEW answer \in Answers
    PROVE  /\ answer # NoAnswer
           /\ answer.kind \in {"done", "failure", "revert", "coded"}
           /\ answer.kind = "done" => answer = Done
           /\ answer.kind = "failure" => \E c \in Failures : answer = Declined(c)
BY DEF Answers, Done, Declined, Reverts, Coded, NoAnswer

LEMMA Costs ==
    ASSUME NEW answer, Executes(answer)
    PROVE  Cost[answer.kind] \in Nat \ {0}
BY GasAssumption DEF Executes

--------------------------------------------------------------------------------
(***************************************************************************)
(* The inductive invariant.  A report is one of three: the transaction did *)
(* what it should, it was mined with a failure, or it ended in an error.   *)
(***************************************************************************)
Errors == {"revert", "out of gas", "node", "timeout"}

IsSuccess(r) == r.error = NoError /\ r.failures = << >> /\ (r.dry \/ r.receipt = Done)

IsFailure(r) ==
    /\ r.error = NoError /\ ~r.dry
    /\ \E c \in Failures : r.receipt = Declined(c)
    /\ r.failures = FailuresOf(r.receipt)

IsError(r) ==
    /\ r.receipt = NoAnswer /\ r.failures = << >> /\ ~r.dry
    /\ r.error.type \in {"error", "revert failure"} /\ r.error.by \in Errors
    /\ r.error.type = "revert failure" => r.error.by = "revert"

ReportSound(r) ==
    /\ IsSuccess(r) \/ IsFailure(r) \/ IsError(r)
    /\ r.receipt # NoAnswer /\ r.value # NoAnswer /\ ~r.stale /\ ~r.dry => r.value = r.receipt

(* A lost transaction was reported as lost and has not taken effect yet.   *)
LostSound ==
    \A t \in lost : t \in 1 .. (n - 1) /\ Told(reports[t]) = "lost" /\ t \notin effects

(* The value is the one of the transaction to send, and the gas is enough  *)
(* for what was estimated.                                                 *)
RequestSound ==
    /\ pc = "send" /\ value # NoAnswer /\ ~stale => value = contract
    /\ pc \in {"call", "send"} /\ Executes(estimated) => Fits(estimated, gas)

NodeInv ==
    /\ TypeOK /\ IsList(reports) /\ totalGas \in Nat
    /\ \A t \in DOMAIN reports : ReportSound(reports[t])
    /\ effects \subseteq 1 .. (n - 1) /\ LostSound
    /\ RequestSound

--------------------------------------------------------------------------------
(***************************************************************************)
(* One report more.                                                        *)
(***************************************************************************)
LEMMA FailuresOfAnswers ==
    ASSUME NEW c \in Failures
    PROVE  /\ FailuresOf(Declined(c)) # << >>
           /\ FailuresOf(Declined(c)) \in Seq({FailuresOf(Declined(c))[1]})
           /\ FailuresOf(Done) = << >> /\ FailuresOf(NoAnswer) = << >>
PROOF
  <1>1. Declined(c).kind = "failure" /\ Done.kind = "done" /\ NoAnswer.kind = "none"
    BY DEF Declined, Done, NoAnswer
  <1> DEFINE f == [error |-> GetError(reporter, Declined(c).codes[1]),
                   info |-> GetInfo(reporter, Declined(c).codes[2]),
                   detail |-> GetDetail(reporter, Declined(c).codes[1], Declined(c).codes[3])]
  <1>2. FailuresOf(Declined(c)) = <<f>>
    BY <1>1, Zenon DEF FailuresOf
  <1>3. FailuresOf(Done) = << >> /\ FailuresOf(NoAnswer) = << >>
    BY <1>1 DEF FailuresOf
  <1> HIDE DEF f
  <1>4. <<f>> # << >> /\ <<f>> \in Seq({<<f>>[1]})
    OBVIOUS
  <1> QED
    BY <1>2, <1>3, <1>4

LEMMA ReportsOfTransactions ==
    ASSUME NodeInv
    PROVE  /\ dryRun /\ pc = "send" => IsSuccess(Invoked(Done, NoError))
           /\ ~dryRun /\ pc = "send" /\ contract = Done => IsSuccess(Invoked(contract, NoError))
           /\ ~dryRun /\ pc = "send" /\ contract.kind = "failure" => IsFailure(Invoked(contract, NoError))
           /\ \A by \in Errors : ~dryRun => IsError(Invoked(NoAnswer, InvokationError(by)))
           /\ \A number : ~dryRun => IsError(Invoked(NoAnswer, RevertFailure(number)))
PROOF
  <1> DEFINE report(receipt, error) ==
               [value |-> value, receipt |-> receipt, error |-> error,
                failures |-> FailuresOf(receipt), stale |-> stale, dry |-> dryRun]
  <1>1. \A receipt, error : Invoked(receipt, error) = report(receipt, error)
    BY DEF Invoked
  <1>2. /\ Done.kind = "done" /\ NoAnswer.kind = "none"
        /\ FailuresOf(Done) = << >> /\ FailuresOf(NoAnswer) = << >>
    BY DEF Done, NoAnswer, FailuresOf
  <1>3. contract \in Answers
    BY DEF NodeInv, TypeOK
  <1>4. contract.kind = "failure" => \E c \in Failures : contract = Declined(c)
    BY <1>3, AnswerKinds
  <1>5. dryRun => IsSuccess(Invoked(Done, NoError))
    BY <1>1, <1>2 DEF IsSuccess
  <1>6. ~dryRun /\ contract = Done => IsSuccess(Invoked(contract, NoError))
    BY <1>1, <1>2 DEF IsSuccess
  <1>7. ~dryRun /\ contract.kind = "failure" => IsFailure(Invoked(contract, NoError))
    BY <1>1, <1>4 DEF IsFailure
  <1>8. \A by \in Errors : ~dryRun => IsError(Invoked(NoAnswer, InvokationError(by)))
    BY <1>1, <1>2 DEF IsError, InvokationError
  <1>9. \A number : ~dryRun => IsError(Invoked(NoAnswer, RevertFailure(number)))
    BY <1>1, <1>2 DEF IsError, RevertFailure, Errors
  <1> QED
    BY <1>5, <1>6, <1>7, <1>8, <1>9

LEMMA SoundReportsStaySound ==
    ASSUME NEW r, ReportSound(r), UNCHANGED reporter, NEW t, reports'[t] = r
    PROVE  ReportSound(reports[t])'
BY DEF ReportSound, IsSuccess, IsFailure, IsError, FailuresOf

LEMMA ReportKeepsInv ==
    ASSUME NodeInv, At("send"), NEW receipt, NEW error, Report(receipt, error),
           ReportSound(Invoked(receipt, error)), UNCHANGED contract,
           gasCounter' \in Nat,
           \/ lost' = lost /\ effects' \in {effects, effects \cup {n}}
           \/ lost' = lost \cup {n} /\ effects' = effects /\ Told(Invoked(receipt, error)) = "lost"
    PROVE  NodeInv'
PROOF
  <1> DEFINE r == Invoked(receipt, error)
  <1>1. /\ n \in Nat \ {0} /\ n <= MaxTransactions /\ MaxTransactions \in Nat
        /\ IsList(reports) /\ Len(reports) = n - 1
        /\ effects \subseteq 1 .. (n - 1) /\ LostSound
    BY TransactionsAssumption DEF NodeInv, TypeOK, At
  <1>2. /\ reports' = Append(reports, r) /\ n' = n + 1 /\ pc' = "estimate" /\ gas' = 0
        /\ value' = NoAnswer /\ estimated' = NoAnswer /\ stale' = FALSE
        /\ UNCHANGED <<dryRun, totalGas, reporter>>
    BY DEF Report, session
  <1> HIDE DEF r
  <1>3. /\ IsList(reports') /\ Len(reports') = n /\ DOMAIN reports' = 1 .. n
        /\ DOMAIN reports = 1 .. (n - 1)
        /\ reports'[n] = r /\ \A t \in 1 .. (n - 1) : reports'[t] = reports[t]
    BY <1>1, <1>2, AppendToList
  <1>4. \A t \in DOMAIN reports' : ReportSound(reports[t])'
    <2>1. \A t \in 1 .. (n - 1) : ReportSound(reports[t])'
      BY <1>2, <1>3, SoundReportsStaySound DEF NodeInv
    <2>2. \A t \in {n} : ReportSound(reports[t])'
      BY <1>2, <1>3, SoundReportsStaySound DEF r
    <2>3. 1 .. n = (1 .. (n - 1)) \cup {n}
      BY <1>1
    <2> QED
      BY <1>3, <2>1, <2>2, <2>3
  <1>5. TypeOK'
    <2>1. /\ contract \in Answers /\ effects \subseteq 1 .. MaxTransactions
          /\ lost \subseteq 1 .. MaxTransactions
      BY DEF NodeInv, TypeOK
    <2>2. n \in 1 .. MaxTransactions
      BY <1>1
    <2>3. effects' \subseteq 1 .. MaxTransactions /\ lost' \subseteq 1 .. MaxTransactions
      BY <2>1, <2>2
    <2>4. n' \in 1 .. (MaxTransactions + 1) /\ Len(reports') = n' - 1
      BY <1>1, <1>2, <1>3
    <2> QED
      BY <1>2, <2>1, <2>3, <2>4 DEF TypeOK
  <1>6. effects' \subseteq 1 .. (n' - 1)
    <2>1. n' - 1 = n /\ 1 .. (n - 1) \subseteq 1 .. n /\ n \in 1 .. n
      BY <1>1, <1>2
    <2> QED
      BY <1>1, <2>1
  <1>7. LostSound'
    <2>1. ASSUME NEW t \in lost
          PROVE  t \in 1 .. (n' - 1) /\ Told(reports'[t]) = "lost" /\ t \notin effects'
      BY <1>1, <1>2, <1>3, <2>1 DEF LostSound
    <2>2. n \notin effects /\ (Told(r) = "lost" => Told(reports'[n]) = "lost")
      BY <1>1, <1>3
    <2>3. n \in 1 .. (n' - 1)
      BY <1>1, <1>2
    <2>4. \A t \in lost' : t \in 1 .. (n' - 1) /\ Told(reports'[t]) = "lost" /\ t \notin effects'
      BY <2>1, <2>2, <2>3 DEF r
    <2> QED
      BY <2>4 DEF LostSound, Told, Successful
  <1>8. RequestSound' /\ totalGas' \in Nat
    BY <1>2 DEF RequestSound, NodeInv
  <1> QED
    BY <1>3, <1>4, <1>5, <1>6, <1>7, <1>8 DEF NodeInv

(* Requests before the transaction, and what others do, report nothing.    *)
LEMMA SilentStepKeepsInv ==
    ASSUME NodeInv, TypeOK', UNCHANGED <<reports, n, totalGas, reporter>>,
           lost' \subseteq lost, effects' \subseteq 1 .. (n - 1),
           \A t \in lost' : t \notin effects', RequestSound'
    PROVE  NodeInv'
PROOF
  <1>1. \A t \in DOMAIN reports' : ReportSound(reports[t])'
    BY SoundReportsStaySound DEF NodeInv
  <1>2. LostSound'
    BY DEF NodeInv, LostSound, Told, Successful
  <1> QED
    BY <1>1, <1>2 DEF NodeInv, IsList

--------------------------------------------------------------------------------
(***************************************************************************)
(* The steps of invoke, and of others.                                     *)
(***************************************************************************)
LEMMA SetGasKeepsInv ==
    ASSUME NodeInv, TakeTotalGas \/ EstimateGas \/ EstimateIsLost
    PROVE  NodeInv'
PROOF
  <1>1. PICK limit \in Nat, answer \in Answers \cup {NoAnswer} :
          SetGas(limit, answer) /\ (Executes(answer) => Fits(answer, limit))
    <2>1. ~Executes(NoAnswer) /\ NoAnswer \in Answers \cup {NoAnswer}
      BY DEF Executes, NoAnswer
    <2>2. CASE TakeTotalGas
      BY <2>1, <2>2 DEF TakeTotalGas, NodeInv
    <2>3. CASE EstimateGas
      <3> DEFINE limit == IF Executes(contract) THEN 2 * Cost[contract.kind] ELSE DefaultGas
      <3>1. SetGas(limit, contract) /\ contract \in Answers
        BY <2>3 DEF EstimateGas, NodeInv, TypeOK
      <3>2. Executes(contract) => Cost[contract.kind] \in Nat
        BY Costs
      <3>3. limit \in Nat /\ (Executes(contract) => Cost[contract.kind] <= limit)
        BY <3>2, GasAssumption
      <3> HIDE DEF limit
      <3> QED
        BY <3>1, <3>3 DEF Fits
    <2>4. CASE EstimateIsLost
      BY <2>1, <2>4, GasAssumption DEF EstimateIsLost
    <2> QED
      BY <2>2, <2>3, <2>4
  <1>2. TypeOK' /\ RequestSound' /\ UNCHANGED <<reports, n, totalGas, reporter, lost, effects>>
    BY <1>1 DEF SetGas, NodeInv, TypeOK, RequestSound, chain, session, Fits
  <1> QED
    BY <1>2, SilentStepKeepsInv DEF NodeInv, LostSound

LEMMA SetValueKeepsInv ==
    ASSUME NodeInv, CallFunction \/ CallIsLost
    PROVE  NodeInv'
PROOF
  <1>1. PICK answer \in Answers \cup {NoAnswer} :
          pc = "call" /\ SetValue(answer) /\ (answer # NoAnswer => answer = contract)
    BY DEF CallFunction, CallIsLost, At, NodeInv, TypeOK
  <1>2. TypeOK' /\ RequestSound' /\ UNCHANGED <<reports, n, totalGas, reporter, lost, effects>>
    BY <1>1 DEF SetValue, NodeInv, TypeOK, RequestSound, chain, session, Fits
  <1> QED
    BY <1>2, SilentStepKeepsInv DEF NodeInv, LostSound

LEMMA OthersKeepInv ==
    ASSUME NodeInv, LostIsMined \/ OthersMove
    PROVE  NodeInv'
PROOF
  <1>1. CASE LostIsMined
    <2>1. PICK t \in lost :
            /\ lost' = lost \ {t}
            /\ effects' = IF contract = Done THEN effects \cup {t} ELSE effects
            /\ UNCHANGED <<contract, moves, dryRun, totalGas, reporter, n, pc, gas, value,
                           estimated, stale, reports, gasCounter>>
      BY <1>1 DEF LostIsMined, session
    <2>2. TypeOK' /\ RequestSound'
      BY <2>1 DEF NodeInv, TypeOK, RequestSound, Fits
    <2>3. /\ lost' \subseteq lost /\ effects' \subseteq 1 .. (n - 1)
          /\ \A u \in lost' : u \notin effects'
      BY <2>1 DEF NodeInv, LostSound
    <2> QED
      BY <2>1, <2>2, <2>3, SilentStepKeepsInv
  <1>2. CASE OthersMove
    <2>1. /\ contract' \in Answers /\ stale' = (pc = "send")
          /\ UNCHANGED <<effects, lost, dryRun, totalGas, reporter, n, pc, gas, value, estimated,
                         reports, gasCounter>>
      BY <1>2 DEF OthersMove, session
    <2>2. TypeOK' /\ RequestSound'
      BY <2>1 DEF NodeInv, TypeOK, RequestSound, Fits
    <2> QED
      BY <2>1, <2>2, SilentStepKeepsInv DEF NodeInv, LostSound
  <1> QED
    BY <1>1, <1>2

(* What is told of each outcome. *)
LEMMA InvokedIsSound ==
    ASSUME NodeInv, pc = "send", NEW receipt, NEW error,
           \/ dryRun /\ receipt = Done /\ error = NoError
           \/ ~dryRun /\ receipt = contract /\ error = NoError /\ Executes(contract)
           \/ ~dryRun /\ receipt = NoAnswer /\ \E by \in Errors : error = InvokationError(by)
           \/ ~dryRun /\ receipt = NoAnswer /\ \E code_ : error = RevertFailure(code_)
    PROVE  ReportSound(Invoked(receipt, error))
PROOF
  <1> DEFINE r == Invoked(receipt, error)
  <1>1. contract \in Answers
    BY DEF NodeInv, TypeOK
  <1>2. Executes(contract) => contract = Done \/ contract.kind = "failure"
    BY <1>1, AnswerKinds DEF Executes
  <1>3. IsSuccess(r) \/ IsFailure(r) \/ IsError(r)
    BY <1>2, ReportsOfTransactions
  <1>4. /\ r.value = value /\ r.receipt = receipt /\ r.stale = stale /\ r.dry = dryRun
    BY DEF Invoked
  <1>5. ~dryRun /\ receipt # NoAnswer => receipt = contract
    OBVIOUS
  <1> HIDE DEF r
  <1>6. r.receipt # NoAnswer /\ r.value # NoAnswer /\ ~r.stale /\ ~r.dry => r.value = r.receipt
    BY <1>4, <1>5 DEF NodeInv, RequestSound
  <1> QED
    BY <1>3, <1>6 DEF ReportSound, r

LEMMA ToldOfInvoked ==
    ASSUME NodeInv, NEW receipt, NEW error
    PROVE  Told(Invoked(receipt, error)) =
             IF dryRun THEN "dry run"
             ELSE CASE error.by = "timeout" -> "lost"
                    [] error.type = "none" /\ FailuresOf(receipt) = << >> -> "success"
                    [] OTHER -> "no success"
BY DEF Told, Successful, Invoked

(* The transaction ends: what is reported is sound, and told is what the   *)
(* scenario concludes of it.                                               *)
Ends(told) ==
    \E receipt, error :
        /\ Report(receipt, error)
        /\ ReportSound(Invoked(receipt, error)) /\ Told(Invoked(receipt, error)) = told

LEMMA SendOutcomes ==
    ASSUME NodeInv
    PROVE  /\ DryRun => At("send") /\ Ends("dry run") /\ UNCHANGED <<chain, gasCounter>>
           /\ SendIsMined =>
                /\ At("send") /\ UNCHANGED <<contract, lost, moves>>
                /\ gasCounter' \in Nat
                /\ \/ Ends("success") /\ effects' = effects \cup {n}
                   \/ Ends("no success") /\ effects' = effects
           /\ SendReverts \/ SendIsRefused =>
                At("send") /\ Ends("no success") /\ UNCHANGED <<chain, gasCounter>>
           /\ SendIsLost =>
                /\ At("send") /\ Ends("lost") /\ lost' = lost \cup {n}
                /\ UNCHANGED <<contract, effects, gasCounter>>
PROOF
  <1> USE DEF Sends, At
  <1>0. /\ contract \in Answers /\ gasCounter \in Nat
        /\ NoAnswer.kind = "none" /\ Done.kind = "done" /\ NoError.type = "none" /\ NoError.by = ""
        /\ FailuresOf(NoAnswer) = << >> /\ FailuresOf(Done) = << >>
    BY DEF NodeInv, TypeOK, NoAnswer, Done, NoError, FailuresOf
  <1>1. ASSUME DryRun
        PROVE  At("send") /\ Ends("dry run") /\ UNCHANGED <<chain, gasCounter>>
    <2>1. ReportSound(Invoked(Done, NoError))
      BY <1>1, InvokedIsSound DEF DryRun
    <2>2. Told(Invoked(Done, NoError)) = "dry run"
      BY <1>1, ToldOfInvoked DEF DryRun
    <2> QED
      BY <1>1, <2>1, <2>2 DEF DryRun, Ends
  <1>2. ASSUME SendIsMined
        PROVE  /\ At("send") /\ UNCHANGED <<contract, lost, moves>>
               /\ gasCounter' \in Nat
               /\ \/ Ends("success") /\ effects' = effects \cup {n}
                  \/ Ends("no success") /\ effects' = effects
    <2>1. Executes(contract)
      BY <1>2 DEF SendIsMined, Fits
    <2>2. ReportSound(Invoked(contract, NoError))
      BY <1>2, <2>1, InvokedIsSound DEF SendIsMined
    <2>3. gasCounter' \in Nat
      <3>1. \E cost \in Nat : gasCounter' = gasCounter + cost
        BY <1>2, <2>1, Costs DEF SendIsMined
      <3>2. gasCounter \in Nat
        BY <1>0
      <3> QED
        BY <3>1, <3>2
    <2>4. CASE contract = Done
      <3>1. Told(Invoked(contract, NoError)) = "success"
        BY <1>0, <1>2, <2>4, ToldOfInvoked DEF SendIsMined
      <3> QED
        BY <1>2, <2>2, <2>3, <2>4, <3>1 DEF SendIsMined, Ends
    <2>5. CASE contract # Done
      <3>1. PICK c \in Failures : contract = Declined(c)
        BY <1>0, <2>1, <2>5, AnswerKinds DEF Executes
      <3>2. FailuresOf(contract) # << >>
        BY <3>1, FailuresOfAnswers
      <3>3. Told(Invoked(contract, NoError)) = "no success"
        BY <1>0, <1>2, <3>2, ToldOfInvoked DEF SendIsMined
      <3> QED
        BY <1>2, <2>2, <2>3, <2>5, <3>3 DEF SendIsMined, Ends
    <2> QED
      BY <2>4, <2>5
  <1>3. ASSUME SendReverts \/ SendIsRefused
        PROVE  At("send") /\ Ends("no success") /\ UNCHANGED <<chain, gasCounter>>
    <2>1. PICK error :
            /\ Report(NoAnswer, error)
            /\ \/ \E by \in Errors \ {"timeout"} : error = InvokationError(by)
               \/ \E code_ : error = RevertFailure(code_)
      BY <1>3 DEF SendReverts, SendIsRefused, Errors
    <2>2. error.by # "timeout" /\ error.type # "none"
      <3>1. \A by : InvokationError(by).by = by /\ InvokationError(by).type = "error"
        BY DEF InvokationError
      <3>2. \A code_ : RevertFailure(code_).by = "revert" /\ RevertFailure(code_).type = "revert failure"
        BY DEF RevertFailure
      <3> QED
        BY <2>1, <3>1, <3>2
    <2>3. ~dryRun /\ pc = "send" /\ At("send") /\ UNCHANGED <<chain, gasCounter>>
      BY <1>3 DEF SendReverts, SendIsRefused
    <2>4. ReportSound(Invoked(NoAnswer, error))
      BY <2>1, <2>3, InvokedIsSound
    <2>5. Told(Invoked(NoAnswer, error)) = "no success"
      BY <2>2, <2>3, ToldOfInvoked
    <2> QED
      BY <2>1, <2>3, <2>4, <2>5 DEF Ends
  <1>4. ASSUME SendIsLost
        PROVE  /\ At("send") /\ Ends("lost") /\ lost' = lost \cup {n}
               /\ UNCHANGED <<contract, effects, gasCounter>>
    <2>1. /\ InvokationError("timeout").by = "timeout" /\ "timeout" \in Errors
          /\ InvokationError("timeout").type = "error"
      BY DEF InvokationError, Errors
    <2>2. ReportSound(Invoked(NoAnswer, InvokationError("timeout")))
      BY <1>4, <2>1, InvokedIsSound DEF SendIsLost
    <2>3. Told(Invoked(NoAnswer, InvokationError("timeout"))) = "lost"
      BY <1>4, <2>1, ToldOfInvoked DEF SendIsLost
    <2> QED
      BY <1>4, <2>2, <2>3 DEF SendIsLost, Ends
  <1> QED
    BY <1>1, <1>2, <1>3, <1>4

LEMMA EndsKeepsInv ==
    ASSUME NodeInv, At("send"), NEW told, Ends(told), UNCHANGED contract, gasCounter' \in Nat,
           \/ lost' = lost /\ effects' \in {effects, effects \cup {n}}
           \/ lost' = lost \cup {n} /\ effects' = effects /\ told = "lost"
    PROVE  NodeInv'
PROOF
  <1>1. PICK receipt, error :
          /\ Report(receipt, error)
          /\ ReportSound(Invoked(receipt, error)) /\ Told(Invoked(receipt, error)) = told
    BY DEF Ends
  <1> QED
    BY <1>1, ReportKeepsInv

LEMMA NextKeepsNodeInv ==
    ASSUME NodeInv, Next
    PROVE  NodeInv'
PROOF
  <1>1. gasCounter \in Nat
    BY DEF NodeInv, TypeOK
  <1>2. ASSUME DryRun \/ SendReverts \/ SendIsRefused PROVE NodeInv'
    BY <1>1, <1>2, SendOutcomes, EndsKeepsInv DEF chain
  <1>3. ASSUME SendIsMined PROVE NodeInv'
    BY <1>3, SendOutcomes, EndsKeepsInv
  <1>4. ASSUME SendIsLost PROVE NodeInv'
    BY <1>1, <1>4, SendOutcomes, EndsKeepsInv
  <1> QED
    BY <1>2, <1>3, <1>4, SetGasKeepsInv, SetValueKeepsInv, OthersKeepInv, Zenon DEF Next, Invoke

(* At the files the node is left alone, and the dry run is in no report.   *)
LEMMA SessionNextKeepsNodeInv ==
    NodeInv /\ [SessionNext]_sessionVars => NodeInv'
PROOF
  <1> SUFFICES ASSUME NodeInv, [SessionNext]_sessionVars PROVE NodeInv'
    OBVIOUS
  <1>1. CASE UNCHANGED nodeVars
    <2>1. UNCHANGED <<contract, effects, lost, reports, n, pc, gas, value, estimated, stale,
                      gasCounter, totalGas, reporter>>
      BY <1>1 DEF nodeVars, chain
    <2>2. TypeOK' /\ RequestSound'
      BY <2>1 DEF NodeInv, TypeOK, RequestSound, Fits
    <2> QED
      BY <2>1, <2>2, SilentStepKeepsInv DEF NodeInv, LostSound
  <1>2. CASE AtTheNode /\ Next
    BY <1>2, NextKeepsNodeInv
  <1> QED
    BY <1>1, <1>2 DEF SessionNext, AtTheFiles, sessionVars

LEMMA SessionInitNodeInv ==
    SessionInit => NodeInv
PROOF
  <1> SUFFICES ASSUME SessionInit PROVE NodeInv
    OBVIOUS
  <1>1. /\ contract \in Answers /\ totalGas \in Nat
        /\ effects = {} /\ lost = {} /\ n = 1 /\ pc = "estimate"
        /\ gas = 0 /\ value = NoAnswer /\ estimated = NoAnswer /\ stale = FALSE
        /\ reports = << >> /\ gasCounter = 0
    <2>1. Done \in Answers
      BY DEF Answers
    <2>2. CASE Init
      BY <2>2, GasAssumption DEF Init
    <2>3. CASE Pristine
      BY <2>1, <2>3 DEF Pristine
    <2> QED
      BY <2>2, <2>3 DEF SessionInit
  <1>2. IsList(reports) /\ Len(reports) = 0 /\ DOMAIN reports = {}
    BY <1>1, NothingReported
  <1>3. n \in 1 .. (MaxTransactions + 1) /\ Len(reports) = n - 1
    BY <1>1, <1>2, TransactionsAssumption
  <1>4. TypeOK
    BY <1>1, <1>3 DEF TypeOK
  <1>5. LostSound /\ RequestSound /\ effects \subseteq 1 .. (n - 1)
    BY <1>1 DEF LostSound, RequestSound
  <1> QED
    BY <1>1, <1>2, <1>4, <1>5 DEF NodeInv

\* Each report is sound, each lost transaction was told to be lost, and the
\* request at hand knows the gas and the value of the contract as it was when it
\* asked, however requests, others and losses interleave (Invokation.ts).
THEOREM NodeInvIsInvariant ==
    SessionSpec => []NodeInv
PROOF
  <1> QED
    BY SessionInitNodeInv, SessionNextKeepsNodeInv, PTL DEF SessionSpec

--------------------------------------------------------------------------------
(***************************************************************************)
(* Invokation implements Transactions.                                     *)
(***************************************************************************)
LEMMA EndsTells ==
    ASSUME NodeInv, At("send"), NEW told, Ends(told)
    PROVE  n \in Abstract!Transaction /\ Abstract!Tell(n, told)
PROOF
  <1>1. PICK receipt, error :
          Report(receipt, error) /\ Told(Invoked(receipt, error)) = told
    BY DEF Ends
  <1>2. /\ n \in Nat \ {0} /\ n <= MaxTransactions /\ MaxTransactions \in Nat
        /\ IsList(reports) /\ Len(reports) = n - 1
    BY TransactionsAssumption DEF NodeInv, TypeOK, At
  <1>3. reports' = Append(reports, Invoked(receipt, error))
    BY <1>1 DEF Report
  <1>4. /\ DOMAIN reports' = 1 .. n /\ DOMAIN reports = 1 .. (n - 1)
        /\ Told(reports'[n]) = told
        /\ \A t \in 1 .. (n - 1) : reports'[t] = reports[t]
    BY <1>1, <1>2, <1>3, AppendToList
  <1>5. n \in 1 .. MaxTransactions
    BY <1>2
  <1>6. Told_[n] = "nothing"
    <2>1. n \notin DOMAIN reports
      BY <1>2, <1>4
    <2> QED
      BY <1>5, <2>1 DEF Told_
  <1>7. Told_' = [Told_ EXCEPT ![n] = told]
    <2>1. ASSUME NEW t \in 1 .. MaxTransactions
          PROVE  (IF t \in DOMAIN reports' THEN Told(reports'[t]) ELSE "nothing")
                   = IF t = n THEN told ELSE Told_[t]
      <3>1. CASE t = n
        BY <1>2, <1>4, <3>1
      <3>2. CASE t # n
        <4>1. (t \in 1 .. n) = (t \in 1 .. (n - 1))
          BY <1>2, <3>2
        <4> QED
          BY <1>4, <3>2, <4>1 DEF Told_
      <3> QED
        BY <3>1, <3>2
    <2>2. Told_' = [t \in 1 .. MaxTransactions |-> IF t = n THEN told ELSE Told_[t]]
      BY <2>1 DEF Told_
    <2> QED
      BY <2>2 DEF Told_
  <1> QED
    BY <1>5, <1>6, <1>7 DEF Abstract!Transaction, Abstract!Tell

LEMMA SilentStepTellsNothing ==
    ASSUME UNCHANGED <<reports, effects>>
    PROVE  UNCHANGED Abstract!vars
BY DEF Abstract!vars, Told_, Told, Successful

LEMMA NextTellsTheTruth ==
    ASSUME NodeInv, Next
    PROVE  Abstract!Next \/ UNCHANGED Abstract!vars
PROOF
  <1>1. ASSUME TakeTotalGas \/ EstimateGas \/ EstimateIsLost \/ CallFunction \/ CallIsLost \/ OthersMove
        PROVE  UNCHANGED Abstract!vars
    <2>1. UNCHANGED <<reports, effects>>
      BY <1>1 DEF TakeTotalGas, EstimateGas, EstimateIsLost, CallFunction, CallIsLost, OthersMove,
                  SetGas, SetValue, chain
    <2> QED
      BY <2>1, SilentStepTellsNothing
  <1>2. ASSUME DryRun PROVE Abstract!Next
    <2>1. n \in Abstract!Transaction /\ Abstract!Tell(n, "dry run") /\ UNCHANGED effects
      BY <1>2, SendOutcomes, EndsTells DEF chain
    <2> QED
      BY <2>1 DEF Abstract!Next, Abstract!Pretend
  <1>3. ASSUME SendReverts \/ SendIsRefused PROVE Abstract!Next
    <2>1. n \in Abstract!Transaction /\ Abstract!Tell(n, "no success") /\ UNCHANGED effects
      BY <1>3, SendOutcomes, EndsTells DEF chain
    <2> QED
      BY <2>1 DEF Abstract!Next, Abstract!Refuse
  <1>4. ASSUME SendIsLost PROVE Abstract!Next
    <2>1. n \in Abstract!Transaction /\ Abstract!Tell(n, "lost") /\ UNCHANGED effects
      BY <1>4, SendOutcomes, EndsTells
    <2> QED
      BY <2>1 DEF Abstract!Next, Abstract!Lose
  <1>5. ASSUME SendIsMined PROVE Abstract!Next
    <2>1. /\ n \in Abstract!Transaction
          /\ \/ Abstract!Tell(n, "success") /\ effects' = effects \cup {n}
             \/ Abstract!Tell(n, "no success") /\ UNCHANGED effects
      BY <1>5, SendOutcomes, EndsTells
    <2> QED
      BY <2>1 DEF Abstract!Next, Abstract!Succeed, Abstract!Refuse
  <1>6. ASSUME LostIsMined PROVE Abstract!Next \/ UNCHANGED Abstract!vars
    <2>1. PICK t \in lost :
            /\ effects' = IF contract = Done THEN effects \cup {t} ELSE effects
            /\ UNCHANGED reports
      BY <1>6 DEF LostIsMined
    <2>2. CASE contract # Done
      BY <2>1, <2>2, SilentStepTellsNothing
    <2>3. CASE contract = Done
      <3>1. /\ t \in 1 .. (n - 1) /\ Told(reports[t]) = "lost" /\ t \notin effects
            /\ t \in 1 .. MaxTransactions /\ IsList(reports) /\ Len(reports) = n - 1
        BY <2>1 DEF NodeInv, LostSound, TypeOK
      <3>2. t \in DOMAIN reports
        BY <3>1, AppendToList
      <3>3. Told_[t] = "lost"
        BY <3>1, <3>2 DEF Told_
      <3>4. UNCHANGED Told_
        BY <2>1 DEF Told_, Told, Successful
      <3>5. Abstract!TakeEffectLate(t) /\ t \in Abstract!Transaction
        BY <2>1, <2>3, <3>1, <3>3, <3>4 DEF Abstract!TakeEffectLate, Abstract!Transaction
      <3> QED
        BY <3>5 DEF Abstract!Next
    <2> QED
      BY <2>2, <2>3
  <1> QED
    BY <1>1, <1>2, <1>3, <1>4, <1>5, <1>6, Zenon DEF Next, Invoke

(* A scenario is told the truth: a transaction takes effect at most once,  *)
(* what is told as a success has taken effect, what is told as none never  *)
(* does, and only of one whose answer was lost nothing is known.           *)
THEOREM TellsTheTruthTheorem ==
    SessionSpec => TellsTheTruth
PROOF
  <1>1. SessionInit => Abstract!Init
    <2>1. ASSUME SessionInit PROVE Abstract!Init
      <3>1. effects = {} /\ reports = << >>
        BY <2>1 DEF SessionInit, Init, Pristine
      <3>2. Told_ = [t \in 1 .. MaxTransactions |-> "nothing"]
        BY <3>1, NothingReported DEF Told_
      <3> QED
        BY <3>1, <3>2 DEF Abstract!Init, Abstract!Transaction
    <2> QED
      BY <2>1
  <1>2. NodeInv /\ [SessionNext]_sessionVars => [Abstract!Next]_Abstract!vars
    <2> SUFFICES ASSUME NodeInv, [SessionNext]_sessionVars
                 PROVE  [Abstract!Next]_Abstract!vars
      OBVIOUS
    <2>1. CASE UNCHANGED nodeVars
      BY <2>1, SilentStepTellsNothing DEF nodeVars, chain
    <2>2. CASE AtTheNode /\ Next
      BY <2>2, NextTellsTheTruth
    <2> QED
      BY <2>1, <2>2 DEF SessionNext, AtTheFiles, sessionVars
  <1> QED
    BY <1>1, <1>2, NodeInvIsInvariant, PTL DEF SessionSpec, TellsTheTruth, Abstract!Spec

--------------------------------------------------------------------------------
(***************************************************************************)
(* The reports are right.                                                  *)
(***************************************************************************)
LEMMA OneAssertionOfSound ==
    ASSUME NEW r, ReportSound(r)
    PROVE  /\ Cardinality(Holding(r)) = 1
           /\ \A name : AssertRevertFailure(r, name) => AssertError(r, "revert")
PROOF
  <1> DEFINE success == AssertSuccess(r)
             failure == \E i \in DOMAIN r.failures : AssertFailure(r, r.failures[i])
             error   == \E by \in {"revert", "out of gas", "node", "timeout"} : AssertError(r, by)
  <1>1. NoError.type = "none" /\ NoError.by = ""
    BY DEF NoError
  <1>2. Holding(r) = {a \in {"Success", "Failure", "Error"} :
                          \/ a = "Success" /\ success
                          \/ a = "Failure" /\ failure
                          \/ a = "Error" /\ error}
    BY Zenon DEF Holding
  <1>3. CASE IsSuccess(r)
    <2>1. success /\ ~failure /\ ~error
      BY <1>1, <1>3 DEF IsSuccess, AssertSuccess, AssertFailure, AssertError, Successful
    <2>2. \A name : ~AssertRevertFailure(r, name)
      BY <1>1, <1>3 DEF IsSuccess, AssertRevertFailure, Successful
    <2> HIDE DEF success, failure, error
    <2>3. Holding(r) = {"Success"}
      BY <1>2, <2>1
    <2> QED
      BY <2>2, <2>3, FS_Singleton
  <1>4. CASE IsFailure(r)
    <2>1. r.failures # << >> /\ 1 \in DOMAIN r.failures /\ r.error.type = "none"
      <3>1. r.failures # << >> /\ r.failures \in Seq({r.failures[1]})
        BY <1>4, FailuresOfAnswers DEF IsFailure
      <3>2. 1 \in DOMAIN r.failures
        BY <3>1
      <3> QED
        BY <1>1, <1>4, <3>1, <3>2 DEF IsFailure
    <2>2. ~success /\ ~error /\ \A name : ~AssertRevertFailure(r, name)
      BY <2>1 DEF AssertSuccess, AssertError, AssertRevertFailure, Successful
    <2>3. failure
      BY <2>1 DEF AssertFailure, Successful
    <2> HIDE DEF success, failure, error
    <2>4. Holding(r) = {"Failure"}
      BY <1>2, <2>2, <2>3
    <2> QED
      BY <2>2, <2>4, FS_Singleton
  <1>5. CASE IsError(r)
    <2>1. ~success /\ ~failure
      BY <1>5 DEF IsError, AssertSuccess, AssertFailure, Successful
    <2>2. error /\ \A name : AssertRevertFailure(r, name) => AssertError(r, "revert")
      BY <1>5 DEF IsError, Errors, AssertError, AssertRevertFailure, Successful
    <2> HIDE DEF success, failure, error
    <2>3. Holding(r) = {"Error"}
      BY <1>2, <2>1, <2>2
    <2> QED
      BY <2>2, <2>3, FS_Singleton
  <1> QED
    BY <1>3, <1>4, <1>5 DEF ReportSound

--------------------------------------------------------------------------------
(***************************************************************************)
(* The names of errors.                                                    *)
(***************************************************************************)
LEMMA NamesOfAMarket ==
    ASSUME NEW number, NEW detail
    PROVE  /\ GetError("JToken", number) = NameIn(TokenErrors, number)
           /\ GetError("Joetroller", number) = NameIn(JoetrollerErrors, number)
           /\ Rejects("JToken", number) <=> NameIn(TokenErrors, number) = "JOETROLLER_REJECTION"
PROOF
  <1>1. GetError("JToken", number) = NameIn(TokenErrors, number)
    BY Zenon DEF GetError
  <1>2. GetError("Joetroller", number) = NameIn(JoetrollerErrors, number)
    BY Zenon DEF GetError
  <1>3. Rejects("JToken", number) <=> GetError("JToken", number) = "JOETROLLER_REJECTION"
    BY Zenon DEF Rejects
  <1> QED
    BY <1>1, <1>2, <1>3

LEMMA NamesOfAFailure ==
    ASSUME NEW c \in Failures, reporter = "JToken"
    PROVE  LET f == FailuresOf(Declined(c))[1]
           IN  /\ f.error = TokenErrors[c[1] + 1]
               /\ f.error = "JOETROLLER_REJECTION" => f.detail = JoetrollerErrors[c[3] + 1]
PROOF
  <1> DEFINE f == [error |-> GetError(reporter, c[1]), info |-> GetInfo(reporter, c[2]),
                   detail |-> GetDetail(reporter, c[1], c[3])]
  <1>1. Declined(c).kind = "failure" /\ Declined(c).codes = c
    BY DEF Declined
  <1>2. FailuresOf(Declined(c)) = <<f>>
    BY <1>1, Zenon DEF FailuresOf
  <1>3. Len(TokenErrors) \in Nat /\ Len(JoetrollerErrors) \in Nat
    BY DEF TokenErrors, JoetrollerErrors
  <1>4. /\ NameIn(TokenErrors, c[1]) = TokenErrors[c[1] + 1]
        /\ TokenErrors[c[1] + 1] = "JOETROLLER_REJECTION" =>
               /\ c[3] < Len(JoetrollerErrors)
               /\ NameIn(JoetrollerErrors, c[3]) = JoetrollerErrors[c[3] + 1]
    BY <1>3, FailuresAssumption DEF NameIn
  <1>5. f.error = TokenErrors[c[1] + 1] /\ f.detail = GetDetail("JToken", c[1], c[3])
    BY <1>4, NamesOfAMarket
  <1>6. f.error = "JOETROLLER_REJECTION" =>
            /\ Rejects("JToken", c[1]) /\ c[3] < Len(JoetrollerErrors)
            /\ GetError("Joetroller", c[3]) = JoetrollerErrors[c[3] + 1]
    BY <1>4, <1>5, NamesOfAMarket
  <1>7. f.error = "JOETROLLER_REJECTION" => f.detail = JoetrollerErrors[c[3] + 1]
    BY <1>5, <1>6, Zenon DEF GetDetail
  <1> HIDE DEF f
  <1>8. <<f>>[1] = f
    OBVIOUS
  <1> QED
    BY <1>2, <1>5, <1>7, <1>8

--------------------------------------------------------------------------------
(***************************************************************************)
(* The reports are right.                                                  *)
(***************************************************************************)
LEMMA ReportsAreRightOfInv ==
    NodeInv => ReportsAreRight
PROOF
  <1> SUFFICES ASSUME NodeInv PROVE ReportsAreRight
    OBVIOUS
  <1>1. \A t \in DOMAIN reports : ReportSound(reports[t])
    BY DEF NodeInv
  <1>2. OneAssertionHolds
    BY <1>1, OneAssertionOfSound DEF OneAssertionHolds
  <1>3. ValueIsOfTheTransaction
    BY <1>1 DEF ReportSound, ValueIsOfTheTransaction
  <1>4. GasSuffices
    BY DEF NodeInv, RequestSound, GasSuffices
  <1>5. ErrorsKeepTheirName
    <2> SUFFICES ASSUME NEW t \in DOMAIN reports, NEW c \in Failures,
                        reports[t].receipt = Declined(c), ~reports[t].dry, reporter = "JToken"
                 PROVE  /\ reports[t].failures[1].error = TokenErrors[c[1] + 1]
                        /\ reports[t].failures[1].error = "JOETROLLER_REJECTION" =>
                               reports[t].failures[1].detail = JoetrollerErrors[c[3] + 1]
      BY DEF ErrorsKeepTheirName
    <2>1. Declined(c) # Done /\ Declined(c) # NoAnswer
      BY DEF Declined, Done, NoAnswer
    <2>2. reports[t].failures = FailuresOf(Declined(c))
      BY <1>1, <2>1 DEF ReportSound, IsSuccess, IsFailure, IsError
    <2> QED
      BY <2>2, NamesOfAFailure
  <1> QED
    BY <1>2, <1>3, <1>4, <1>5 DEF NodeInv, ReportsAreRight

\* Whatever a report says of a transaction is right: exactly one of the
\* assertions Success, Failure and Error holds of it, its value is the one the
\* transaction produced, an estimated gas limit is enough, and the errors of a
\* Failure event go by the names that the contract gives them (Invokation.ts,
\* AssertionEvent.ts, ErrorReporter.ts).
THEOREM ReportsTheorem == SessionSpec => []ReportsAreRight
PROOF
  BY NodeInvIsInvariant, ReportsAreRightOfInv, PTL

--------------------------------------------------------------------------------
(***************************************************************************)
(* The files.  What the session knows, what the files hold and what a save *)
(* will write are maps from entries (a table and a name) to addresses, and *)
(* from names to interfaces.  Two names have one address only if they are  *)
(* those of a Unitroller and of its merged interface.                      *)
(***************************************************************************)
Special == {"Unitroller", "Joetroller"}
C(name) == <<"Contracts", name>>
Bound(d, name) == C(name) \in DOMAIN d

Directory(d) ==
    /\ \A entry \in DOMAIN d :
          entry = <<entry[1], entry[2]>> /\ entry[2] \in R!Known /\ Bound(d, entry[2])
    /\ \A one, other \in R!Known :
          /\ Bound(d, one) /\ Bound(d, other) /\ d[C(one)] = d[C(other)]
          => one = other \/ {one, other} \subseteq Special

(* The addresses of d are those of contracts in c, of Unitrollers under    *)
(* the special names and of none under the others.                         *)
OnChain(d, c) ==
    /\ \A entry \in DOMAIN d : d[entry] \in DOMAIN c
    /\ \A name \in R!Known :
          Bound(d, name) => (c[d[C(name)]] = "Unitroller" <=> name \in Special)

Fit(name, d, f, c) ==
    Bound(d, name) => name \in DOMAIN f /\ Functions[c[d[C(name)]]] \subseteq f[name]

(* The contract at an address carries the last of its names.               *)
Labelled(w, name, a) ==
    /\ a \in DOMAIN w.index
    /\ Bound(w.data, w.index[a].name)
    /\ w.data[C(w.index[a].name)] = a
    /\ name = "Joetroller" => w.index[a].name = "Joetroller"

Coherent(w) ==
    /\ Directory(w.data)
    /\ DOMAIN w.index \subseteq 1 .. MaxDeploys
    /\ \A a \in DOMAIN w.index : w.index[a].name \in R!Known
    /\ \A name \in R!Known : Bound(w.data, name) => Labelled(w, name, w.data[C(name)])

(* The interface of a contract is the one that the files hold for it.      *)
AbiIn(f, name) == IF name \in DOMAIN f THEN f[name] ELSE {}
KnownAbis(w, d, f) ==
    \A name \in R!Known :
        /\ Bound(w.data, name) /\ Bound(d, name) /\ d[C(name)] = w.data[C(name)]
        /\ w.index[w.data[C(name)]].name = name
        => w.index[w.data[C(name)]].abi = AbiIn(f, name)

(* What the files hold when the writes at hand are done.                   *)
TargetNetworks == IF writes = R!NoWrites THEN networks ELSE writes.networks
TargetAbis     == IF writes = R!NoWrites THEN abis ELSE writes.abis

(* The files f hold the functions of the Unitroller at u and of its        *)
(* implementation.                                                         *)
HasBoth(u, f, i) ==
    /\ "Joetroller" \in DOMAIN f
    /\ Functions["Unitroller"] \cup Functions[i[u]] \subseteq f["Joetroller"]

(* An implementation that was merged for the Unitroller of d was merged    *)
(* under its second name; the session has the Unitroller that has one.     *)
Renamed(d, i, waiting) ==
    Bound(d, "Unitroller") /\ d[C("Unitroller")] \in DOMAIN i \ waiting =>
        Bound(d, "Joetroller") /\ d[C("Joetroller")] = d[C("Unitroller")]
Followed(d, i, data) ==
    Bound(d, "Unitroller") /\ d[C("Unitroller")] \in DOMAIN i =>
        Bound(data, "Unitroller") /\ data[C("Unitroller")] = d[C("Unitroller")]

(* The inductive invariant.                                                *)
FilesTyped ==
    /\ DOMAIN code \subseteq 1 .. MaxDeploys /\ DOMAIN impl \subseteq DOMAIN code
    /\ torn \subseteq R!Known /\ unmerged \subseteq DOMAIN impl
    /\ dryRun \in BOOLEAN /\ apart \in BOOLEAN

WorldInv(w) ==
    Coherent(w) /\ (~dryRun => OnChain(w.data, code) /\ DOMAIN w.index \subseteq DOMAIN code)

FilesInv ==
    /\ Directory(networks) /\ OnChain(networks, code)
    /\ DOMAIN abis \subseteq R!Known /\ \A name \in DOMAIN abis : Bound(networks, name)
    /\ \A name \in R!Known \ torn : Fit(name, networks, abis, code)

SameBut(name, d, e) ==
    \A other \in R!Known \ {name} :
        /\ Bound(e, other) <=> Bound(d, other)
        /\ Bound(d, other) => e[C(other)] = d[C(other)]

WritesInv ==
    writes # R!NoWrites =>
        /\ ~dryRun /\ writes.name \in R!Known /\ Bound(writes.networks, writes.name)
        /\ Directory(writes.networks) /\ OnChain(writes.networks, code)
        /\ SameBut(writes.name, networks, writes.networks)
        /\ DOMAIN writes.abis = DOMAIN abis \cup {writes.name}
        /\ \A name \in DOMAIN abis \ {writes.name} : writes.abis[name] = abis[name]
        /\ writes.sound \in BOOLEAN
        /\ writes.sound => Fit(writes.name, writes.networks, writes.abis, code)

AgreeInv ==
    ~apart =>
        /\ ~dryRun => next.data = TargetNetworks
        /\ KnownAbis(next, TargetNetworks, TargetAbis)
        /\ dryRun =>
             /\ KnownAbis(world, networks, abis)
             /\ \A w \in {world, next} : Bound(w.data, "Joetroller") =>
                   /\ Bound(networks, "Joetroller")
                   /\ networks[C("Joetroller")] = w.data[C("Joetroller")]

AdoptInv ==
    writes # R!NoWrites =>
        /\ apart \/ writes.name # "Joetroller" => writes.adopts = {}
        /\ writes.name = "Joetroller" =>
             LET u == writes.networks[C("Joetroller")]
             IN  /\ \A pair \in writes.adopts : pair[1] = u
                 /\ /\ ~apart /\ writes.sound /\ u \in DOMAIN impl
                    /\ u \notin unmerged \/ <<u, impl[u]>> \in writes.adopts
                    => HasBoth(u, writes.abis, impl)

MergedInv ==
    /\ LET u == networks[C("Joetroller")]
       IN  /\ Bound(networks, "Joetroller") /\ "Joetroller" \notin torn
           /\ u \in DOMAIN impl \ unmerged
           => HasBoth(u, abis, impl)
    /\ \A d \in {networks, TargetNetworks} :
          /\ Renamed(d, impl, unmerged)
          /\ ~dryRun => Followed(d, impl, world.data)
    /\ ~dryRun => Followed(TargetNetworks, impl, next.data)

FileInv ==
    /\ FilesTyped /\ WorldInv(world) /\ WorldInv(next) /\ FilesInv /\ WritesInv
    /\ AgreeInv /\ AdoptInv /\ MergedInv

--------------------------------------------------------------------------------
(***************************************************************************)
(* What one new entry does to a map of addresses and to a world.           *)
(***************************************************************************)
Redirected(d, e, name, a) ==
    /\ Bound(e, name) /\ e[C(name)] = a
    /\ \A other : other # name =>
          /\ Bound(e, other) <=> Bound(d, other)
          /\ Bound(d, other) => e[C(other)] = d[C(other)]
    /\ \A entry \in DOMAIN e :
          \/ entry \in DOMAIN d /\ e[entry] = d[entry]
          \/ entry = <<entry[1], entry[2]>> /\ entry[2] = name /\ e[entry] = a

LEMMA PutRedirects ==
    ASSUME NEW d, NEW tables, "Contracts" \in tables, NEW name, NEW a
    PROVE  Redirected(d, R!Put(d, tables \X {name}, a), name, a)
PROOF
  <1> DEFINE keys == tables \X {name}
             e == R!Put(d, keys, a)
  <1>1. C(name) \in keys /\ \A other : C(other) \in keys => other = name
    BY DEF C
  <1>2. \A entry \in keys : entry = <<entry[1], entry[2]>> /\ entry[2] = name
    OBVIOUS
  <1> HIDE DEF keys
  <1>3. /\ DOMAIN e = DOMAIN d \cup keys
        /\ \A entry \in DOMAIN e : e[entry] = IF entry \in keys THEN a ELSE d[entry]
    BY DEF R!Put
  <1> HIDE DEF e
  <1>4. Redirected(d, e, name, a)
    BY <1>1, <1>2, <1>3 DEF Redirected, Bound
  <1> QED
    BY <1>4 DEF e, keys

LEMMA DirectoryAfter ==
    ASSUME NEW d, NEW e, NEW name \in R!Known, NEW a, Directory(d), Redirected(d, e, name, a),
           \A other \in R!Known \ {name} :
               Bound(d, other) /\ d[C(other)] = a => {name, other} \subseteq Special
    PROVE  Directory(e)
PROOF
  <1>1. ASSUME NEW entry \in DOMAIN e
        PROVE  entry = <<entry[1], entry[2]>> /\ entry[2] \in R!Known /\ Bound(e, entry[2])
    BY DEF Directory, Redirected
  <1>2. ASSUME NEW one \in R!Known, NEW other \in R!Known, Bound(e, one), Bound(e, other),
               e[C(one)] = e[C(other)]
        PROVE  one = other \/ {one, other} \subseteq Special
    <2>1. CASE one # name /\ other # name
      BY <1>2, <2>1 DEF Directory, Redirected
    <2>2. CASE one = name \/ other = name
      BY <1>2, <2>2 DEF Redirected
    <2> QED
      BY <2>1, <2>2
  <1> QED
    BY <1>1, <1>2 DEF Directory

LEMMA OnChainAfter ==
    ASSUME NEW d, NEW e, NEW name \in R!Known, NEW a, NEW c, OnChain(d, c),
           Redirected(d, e, name, a), a \in DOMAIN c, c[a] = "Unitroller" <=> name \in Special
    PROVE  OnChain(e, c)
BY DEF OnChain, Redirected

LEMMA OnLongerChain ==
    ASSUME NEW d, NEW c, NEW k, OnChain(d, c), DOMAIN c \subseteq DOMAIN k,
           \A a \in DOMAIN c : k[a] = c[a]
    PROVE  OnChain(d, k)
PROOF
  <1>1. \A name \in R!Known : Bound(d, name) => d[C(name)] \in DOMAIN c
    BY DEF OnChain, Bound
  <1> QED
    BY <1>1 DEF OnChain

LEMMA FitOnLongerChain ==
    ASSUME NEW d, NEW c, NEW k, NEW f, NEW name, Bound(d, name) => d[C(name)] \in DOMAIN c,
           DOMAIN c \subseteq DOMAIN k, \A a \in DOMAIN c : k[a] = c[a], Fit(name, d, f, c)
    PROVE  Fit(name, d, f, k)
BY DEF Fit

(* The world after the line: the entry and the label of the contract at a. *)
Relabelled(w, v, name, a, abi) ==
    /\ Redirected(w.data, v.data, name, a)
    /\ DOMAIN v.index = DOMAIN w.index \cup {a}
    /\ v.index[a].name = name /\ v.index[a].abi = abi
    /\ \A b \in DOMAIN w.index \ {a} : v.index[b] = w.index[b]

LEMMA DeployIsCoherent ==
    ASSUME NEW w, NEW v, NEW name \in R!Known \ {"Joetroller"}, NEW a \in 1 .. MaxDeploys, NEW abi,
           Coherent(w), Relabelled(w, v, name, a, abi), a \notin DOMAIN w.index
    PROVE  Coherent(v)
PROOF
  <1>1. \A other \in R!Known : Bound(w.data, other) => w.data[C(other)] \in DOMAIN w.index
    BY DEF Coherent, Labelled
  <1>2. Directory(v.data)
    BY <1>1, DirectoryAfter DEF Coherent, Relabelled
  <1>3. \A b \in DOMAIN v.index : b \in 1 .. MaxDeploys /\ v.index[b].name \in R!Known
    BY DEF Coherent, Relabelled
  <1>4. ASSUME NEW other \in R!Known, Bound(v.data, other)
        PROVE  Labelled(v, other, v.data[C(other)])
    <2>1. CASE other = name
      BY <2>1 DEF Labelled, Relabelled, Redirected
    <2>2. CASE other # name
      <3> DEFINE b     == w.data[C(other)]
                 label == w.index[b].name
      <3>1. Bound(w.data, other) /\ v.data[C(other)] = b
        BY <1>4, <2>2 DEF Relabelled, Redirected
      <3>2. Labelled(w, other, b) /\ b \in DOMAIN w.index /\ b # a /\ label \in R!Known
        BY <3>1, <1>1 DEF Coherent
      <3>3. v.index[b] = w.index[b] /\ b \in DOMAIN v.index
        BY <3>2 DEF Relabelled
      <3>4. Bound(w.data, label) /\ w.data[C(label)] = b
        BY <3>2 DEF Labelled
      <3>5. label # name
        <4> SUFFICES ASSUME label = name PROVE FALSE
          OBVIOUS
        <4>1. {other, name} \subseteq Special
          BY <2>2, <3>1, <3>4 DEF Coherent, Directory
        <4>2. other = "Joetroller"
          BY <2>2, <4>1 DEF Special
        <4> QED
          BY <3>2, <4>2 DEF Labelled
      <3>6. Bound(v.data, label) /\ v.data[C(label)] = b
        BY <3>4, <3>5 DEF Relabelled, Redirected
      <3> QED
        BY <3>1, <3>2, <3>3, <3>6 DEF Labelled
    <2> QED
      BY <2>1, <2>2
  <1> QED
    BY <1>2, <1>3, <1>4 DEF Coherent

LEMMA MergeIsCoherent ==
    ASSUME NEW w, NEW v, NEW a, NEW abi, Coherent(w), Relabelled(w, v, "Joetroller", a, abi),
           Bound(w.data, "Unitroller"), a = w.data[C("Unitroller")]
    PROVE  Coherent(v)
PROOF
  <1>1. {"Unitroller", "Joetroller"} \subseteq R!Known
    BY DEF R!Known
  <1>2. \A other \in R!Known : Bound(w.data, other) => w.data[C(other)] \in DOMAIN w.index
    BY DEF Coherent, Labelled
  <1>3. Directory(v.data)
    <2>1. ASSUME NEW other \in R!Known \ {"Joetroller"}, Bound(w.data, other), w.data[C(other)] = a
          PROVE  {"Joetroller", other} \subseteq Special
      BY <1>1, <2>1 DEF Coherent, Directory, Special
    <2> QED
      BY <1>1, <2>1, DirectoryAfter DEF Coherent, Relabelled
  <1>4. \A b \in DOMAIN v.index : b \in 1 .. MaxDeploys /\ v.index[b].name \in R!Known
    BY <1>1, <1>2 DEF Coherent, Relabelled
  <1>5. ASSUME NEW other \in R!Known, Bound(v.data, other)
        PROVE  Labelled(v, other, v.data[C(other)])
    <2> DEFINE b     == v.data[C(other)]
               label == w.index[b].name
    <2>1. CASE b = a
      BY <2>1 DEF Labelled, Relabelled, Redirected
    <2>2. CASE b # a
      <3>1. other # "Joetroller"
        BY <2>2 DEF Relabelled, Redirected
      <3>2. Bound(w.data, other) /\ w.data[C(other)] = b
        BY <1>5, <3>1 DEF Relabelled, Redirected
      <3>3. Labelled(w, other, b) /\ b \in DOMAIN w.index /\ label \in R!Known
        BY <3>2, <1>2 DEF Coherent
      <3>4. v.index[b] = w.index[b] /\ b \in DOMAIN v.index
        BY <2>2, <3>3 DEF Relabelled
      <3>5. Bound(w.data, label) /\ w.data[C(label)] = b
        BY <3>3 DEF Labelled
      <3>6. label # "Joetroller"
        <4> SUFFICES ASSUME label = "Joetroller" PROVE FALSE
          OBVIOUS
        <4>1. {other, "Joetroller"} \subseteq Special
          BY <1>1, <3>1, <3>2, <3>5 DEF Coherent, Directory
        <4>2. other = "Unitroller"
          BY <3>1, <4>1 DEF Special
        <4> QED
          BY <2>2, <3>2, <4>2
      <3>7. Bound(v.data, label) /\ v.data[C(label)] = b
        BY <3>5, <3>6 DEF Relabelled, Redirected
      <3> QED
        BY <3>1, <3>4, <3>7 DEF Labelled
    <2> QED
      BY <2>1, <2>2
  <1> QED
    BY <1>3, <1>4, <1>5 DEF Coherent

(* The files after the writes of a save.                                   *)
Saves(name, a, abi, sound, adopts) ==
    /\ writes' # R!NoWrites
    /\ writes'.name = name /\ Redirected(networks, writes'.networks, name, a)
    /\ DOMAIN writes'.abis = DOMAIN abis \cup {name} /\ writes'.abis[name] = abi
    /\ \A other \in DOMAIN abis \ {name} : writes'.abis[other] = abis[other]
    /\ writes'.sound = sound /\ writes'.adopts = adopts
    /\ world.data = networks => next'.data = writes'.networks

LEMMA SaveOutcome ==
    ASSUME NEW name, NEW tables, "Contracts" \in tables, NEW a, NEW abi, NEW sound, NEW adopts,
           R!Save(name, tables, a, abi, sound, adopts)
    PROVE  /\ Relabelled(world, next', name, a, abi)
           /\ dryRun => writes' = R!NoWrites
           /\ ~dryRun => Saves(name, a, abi, sound, adopts)
PROOF
  <1> DEFINE keys == tables \X {name}
             data == R!Put(world.data, keys, a)
             index == R!Put(world.index, {a}, [name |-> name, abi |-> abi])
             nets == R!Put(networks, keys, a)
             ifcs == R!Put(abis, {name}, abi)
  <1>1. /\ next' = [data |-> data, index |-> index]
        /\ writes' = IF dryRun THEN R!NoWrites
                     ELSE [name |-> name, networks |-> nets, abis |-> ifcs,
                           sound |-> sound, adopts |-> adopts]
    BY DEF R!Save
  <1>2. Redirected(world.data, data, name, a) /\ Redirected(networks, nets, name, a)
    BY PutRedirects
  <1>3. world.data = networks => data = nets
    OBVIOUS
  <1>4. /\ DOMAIN index = DOMAIN world.index \cup {a}
        /\ index[a].name = name /\ index[a].abi = abi
        /\ \A b \in DOMAIN world.index \ {a} : index[b] = world.index[b]
    BY DEF R!Put
  <1>5. /\ DOMAIN ifcs = DOMAIN abis \cup {name} /\ ifcs[name] = abi
        /\ \A other \in DOMAIN abis \ {name} : ifcs[other] = abis[other]
    BY DEF R!Put
  <1> HIDE DEF data, index, nets, ifcs
  <1>6. Relabelled(world, next', name, a, abi)
    BY <1>1, <1>2, <1>4 DEF Relabelled
  <1>7. ASSUME ~dryRun PROVE Saves(name, a, abi, sound, adopts)
    <2>1. writes' = [name |-> name, networks |-> nets, abis |-> ifcs,
                     sound |-> sound, adopts |-> adopts]
      BY <1>1, <1>7
    <2>2. writes' # R!NoWrites
      <3>1. "name" \in DOMAIN writes' /\ DOMAIN << >> = {}
        BY <2>1
      <3> QED
        BY <3>1 DEF R!NoWrites
    <2> QED
      BY <1>1, <1>2, <1>3, <1>5, <2>1, <2>2 DEF Saves
  <1> QED
    BY <1>1, <1>6, <1>7

LEMMA SameCardinality ==
    ASSUME NEW S
    PROVE  R!Cardinality(S) = Cardinality(S)
BY Zenon DEF R!Cardinality, Cardinality, R!IsFiniteSet, IsFiniteSet

(* A deployment gets an address that nobody has.                           *)
LEMMA DeployOutcome ==
    ASSUME FileInv, NEW class, NEW name, R!Deploy(class, name)
    PROVE  \E a \in 1 .. MaxDeploys :
             /\ a \notin DOMAIN world.index /\ a \notin DOMAIN code
             /\ Relabelled(world, next', name, a, Functions[class])
             /\ dryRun => writes' = R!NoWrites /\ code' = code
             /\ ~dryRun => /\ Saves(name, a, Functions[class], TRUE, {})
                           /\ DOMAIN code' = DOMAIN code \cup {a} /\ code'[a] = class
                           /\ \A b \in DOMAIN code : code'[b] = code[b]
PROOF
  <1> DEFINE a == CHOOSE b \in 1 .. MaxDeploys : b \notin R!Addresses
  <1>1. R!Addresses \subseteq 1 .. MaxDeploys
    BY DEF R!Addresses, FileInv, FilesTyped, WorldInv, Coherent
  <1>2. \E b \in 1 .. MaxDeploys : b \notin R!Addresses
    <2> SUFFICES ASSUME R!Addresses = 1 .. MaxDeploys PROVE FALSE
      BY <1>1
    <2>1. Cardinality(1 .. MaxDeploys) = MaxDeploys
      BY NamesAssumption, FS_Interval
    <2>2. Cardinality(R!Addresses) < MaxDeploys
      BY SameCardinality DEF R!Deploy
    <2> QED
      BY <2>1, <2>2, NamesAssumption
  <1>3. a \in 1 .. MaxDeploys /\ a \notin R!Addresses
    BY <1>2
  <1>4. /\ R!Save(name, R!TablesOf(class), a, Functions[class], TRUE, {})
        /\ code' = IF dryRun THEN code ELSE R!Put(code, {a}, class)
    BY DEF R!Deploy
  <1> HIDE DEF a
  <1>5. "Contracts" \in R!TablesOf(class)
    BY DEF R!TablesOf
  <1>6. ~dryRun => /\ DOMAIN code' = DOMAIN code \cup {a} /\ code'[a] = class
                   /\ \A b \in DOMAIN code : code'[b] = code[b]
    BY <1>3, <1>4 DEF R!Put, R!Addresses
  <1>7. /\ Relabelled(world, next', name, a, Functions[class])
        /\ dryRun => writes' = R!NoWrites
        /\ ~dryRun => Saves(name, a, Functions[class], TRUE, {})
    BY <1>4, <1>5, SaveOutcome
  <1> QED
    BY <1>3, <1>4, <1>6, <1>7 DEF R!Addresses

LEMMA DeployKeepsFileInv ==
    ASSUME FileInv, NEW class, NEW name \in R!Known \ {"Joetroller"}, R!Deploy(class, name),
           class = "Unitroller" <=> name = "Unitroller"
    PROVE  FileInv'
PROOF
  <1>1. PICK a \in 1 .. MaxDeploys :
          /\ a \notin DOMAIN world.index /\ a \notin DOMAIN code
          /\ Relabelled(world, next', name, a, Functions[class])
          /\ dryRun => writes' = R!NoWrites /\ code' = code
          /\ ~dryRun => /\ Saves(name, a, Functions[class], TRUE, {})
                        /\ DOMAIN code' = DOMAIN code \cup {a} /\ code'[a] = class
                        /\ \A b \in DOMAIN code : code'[b] = code[b]
    BY DeployOutcome
  <1>2. /\ world' = world /\ networks' = networks /\ abis' = abis /\ impl' = impl
        /\ torn' = torn /\ unmerged' = unmerged /\ apart' = apart /\ dryRun' = dryRun
        /\ writes = R!NoWrites /\ next = world
    BY DEF R!Deploy, R!Idle, R!files, R!ghosts
  <1>3. DOMAIN code \subseteq DOMAIN code' /\ \A b \in DOMAIN code : code'[b] = code[b]
    BY <1>1, <1>2 DEF FileInv, FilesTyped
  <1>4. FilesTyped'
    BY <1>1, <1>2, <1>3 DEF FileInv, FilesTyped
  <1>5. Directory(networks) /\ OnChain(networks, code') /\ OnChain(networks, code)
    BY <1>3, OnLongerChain DEF FileInv, FilesInv
  <1>6. WorldInv(world)'
    <2>1. Coherent(world')
      BY <1>2 DEF FileInv, WorldInv
    <2>2. ~dryRun => OnChain(world.data, code') /\ DOMAIN world.index \subseteq DOMAIN code'
      BY <1>3, OnLongerChain DEF FileInv, WorldInv
    <2> QED
      BY <1>2, <2>1, <2>2 DEF WorldInv
  <1>7. WorldInv(next)'
    <2>1. Coherent(next')
      BY <1>1, DeployIsCoherent DEF FileInv, WorldInv
    <2>2. ASSUME ~dryRun PROVE OnChain(next'.data, code') /\ DOMAIN next'.index \subseteq DOMAIN code'
      <3>1. OnChain(world.data, code') /\ DOMAIN world.index \subseteq DOMAIN code'
        BY <1>2, <1>6, <2>2 DEF WorldInv
      <3>2. a \in DOMAIN code' /\ (code'[a] = "Unitroller" <=> name \in Special)
        BY <1>1, <2>2 DEF Special
      <3>3. OnChain(next'.data, code')
        BY <1>1, <3>1, <3>2, OnChainAfter DEF Relabelled
      <3> QED
        BY <1>1, <3>1, <3>2, <3>3 DEF Relabelled
    <2> QED
      BY <1>2, <2>1, <2>2 DEF WorldInv
  <1>8. FilesInv'
    <2>1. ASSUME NEW other \in R!Known \ torn PROVE Fit(other, networks, abis, code')
      <3>1. Bound(networks, other) => networks[C(other)] \in DOMAIN code
        BY <1>5 DEF OnChain, Bound
      <3> QED
        BY <1>3, <3>1, FitOnLongerChain DEF FileInv, FilesInv
    <2> QED
      BY <1>2, <1>5, <2>1 DEF FileInv, FilesInv
  <1>9. ASSUME dryRun PROVE TargetNetworks' = networks /\ TargetAbis' = abis
    BY <1>1, <1>2, <1>9 DEF TargetNetworks, TargetAbis
  <1>10. ASSUME ~dryRun
         PROVE  /\ Saves(name, a, Functions[class], TRUE, {}) /\ writes' # R!NoWrites
                /\ TargetNetworks' = writes'.networks /\ TargetAbis' = writes'.abis
    BY <1>1, <1>10 DEF TargetNetworks, TargetAbis, Saves
  <1>11. ASSUME NEW other \in R!Known, Bound(networks, other)
         PROVE  networks[C(other)] # a /\ networks[C(other)] \in DOMAIN code
    BY <1>1, <1>5, <1>11 DEF OnChain, Bound
  <1>12. WritesInv'
    <2> SUFFICES ASSUME writes' # R!NoWrites PROVE WritesInv'
      BY DEF WritesInv
    <2>1. ~dryRun
      BY <1>1
    <2>2. Directory(writes'.networks)
      BY <1>5, <1>10, <1>11, <2>1, DirectoryAfter DEF Saves
    <2>3. OnChain(writes'.networks, code')
      <3>1. a \in DOMAIN code' /\ (code'[a] = "Unitroller" <=> name \in Special)
        BY <1>1, <2>1 DEF Special
      <3> QED
        BY <1>5, <1>10, <2>1, <3>1, OnChainAfter DEF Saves
    <2>4. Bound(writes'.networks, name) /\ SameBut(name, networks, writes'.networks)
      BY <1>10, <2>1 DEF Saves, Redirected, SameBut
    <2>5. Fit(name, writes'.networks, writes'.abis, code')
      BY <1>1, <1>10, <2>1 DEF Saves, Redirected, Fit
    <2> QED
      BY <1>2, <1>10, <2>1, <2>2, <2>3, <2>4, <2>5 DEF WritesInv, Saves
  <1>13. AgreeInv'
    <2> SUFFICES ASSUME ~apart PROVE AgreeInv'
      BY <1>2 DEF AgreeInv
    <2>1. ~dryRun => next'.data = TargetNetworks'
      BY <1>2, <1>10 DEF FileInv, AgreeInv, TargetNetworks, Saves
    <2>2. KnownAbis(next', TargetNetworks', TargetAbis')
      <3> DEFINE d == TargetNetworks'
                 f == TargetAbis'
      <3> SUFFICES ASSUME NEW other \in R!Known, Bound(next'.data, other), Bound(d, other),
                          d[C(other)] = next'.data[C(other)],
                          next'.index[next'.data[C(other)]].name = other
                   PROVE  next'.index[next'.data[C(other)]].abi = AbiIn(f, other)
        BY DEF KnownAbis
      <3>1. CASE other = name
        <4>1. next'.data[C(other)] = a /\ next'.index[a].abi = Functions[class]
          BY <1>1, <3>1 DEF Relabelled, Redirected
        <4>2. ~dryRun
          BY <1>9, <1>11, <4>1
        <4>3. AbiIn(f, other) = Functions[class]
          BY <1>10, <3>1, <4>2 DEF Saves, AbiIn
        <4> QED
          BY <4>1, <4>3
      <3>2. CASE other # name
        <4> DEFINE b == world.data[C(other)]
        <4>1. Bound(world.data, other) /\ next'.data[C(other)] = b
          BY <1>1, <3>2 DEF Relabelled, Redirected
        <4>2. Bound(networks, other) /\ networks[C(other)] = b
          BY <1>9, <1>10, <3>2, <4>1 DEF Saves, Redirected
        <4>3. b \in DOMAIN world.index /\ b # a
          BY <1>1, <4>1 DEF FileInv, WorldInv, Coherent, Labelled
        <4>4. next'.index[b] = world.index[b]
          BY <1>1, <4>3 DEF Relabelled
        <4>5. world.index[b].abi = AbiIn(abis, other)
          BY <1>2, <4>1, <4>2, <4>4 DEF FileInv, AgreeInv, KnownAbis, TargetNetworks, TargetAbis
        <4>6. AbiIn(f, other) = AbiIn(abis, other)
          BY <1>9, <1>10, <3>2 DEF Saves, AbiIn
        <4> QED
          BY <4>1, <4>4, <4>5, <4>6
      <3> QED
        BY <3>1, <3>2
    <2>3. ASSUME dryRun
          PROVE  /\ KnownAbis(world, networks, abis)
                 /\ \A w \in {world, next'} : Bound(w.data, "Joetroller") =>
                       /\ Bound(networks, "Joetroller")
                       /\ networks[C("Joetroller")] = w.data[C("Joetroller")]
      <3>1. Bound(next'.data, "Joetroller") =>
              /\ Bound(world.data, "Joetroller")
              /\ next'.data[C("Joetroller")] = world.data[C("Joetroller")]
        BY <1>1 DEF Relabelled, Redirected
      <3> QED
        BY <2>3, <3>1 DEF FileInv, AgreeInv
    <2> QED
      BY <1>2, <2>1, <2>2, <2>3 DEF AgreeInv
  <1>14. AdoptInv'
    BY <1>1, <1>2, <1>10 DEF AdoptInv, Saves
  <1>15. MergedInv'
    <2> DEFINE d == TargetNetworks'
    <2>1. /\ Renamed(networks, impl, unmerged)
          /\ ~dryRun => Followed(networks, impl, world.data)
      BY DEF FileInv, MergedInv
    <2>2. a \notin DOMAIN impl
      BY <1>1 DEF FileInv, FilesTyped
    <2>3. ASSUME ~dryRun, Bound(d, "Unitroller"), d[C("Unitroller")] \in DOMAIN impl
          PROVE  /\ name # "Unitroller"
                 /\ Bound(networks, "Unitroller") /\ networks[C("Unitroller")] = d[C("Unitroller")]
                 /\ Bound(d, "Joetroller") <=> Bound(networks, "Joetroller")
                 /\ Bound(networks, "Joetroller") =>
                       d[C("Joetroller")] = networks[C("Joetroller")]
                 /\ Bound(next'.data, "Unitroller") <=> Bound(world.data, "Unitroller")
                 /\ Bound(world.data, "Unitroller") =>
                       next'.data[C("Unitroller")] = world.data[C("Unitroller")]
      BY <1>1, <1>10, <2>2, <2>3 DEF Saves, Relabelled, Redirected
    <2>4. Renamed(d, impl, unmerged)
      <3>1. CASE dryRun
        BY <1>9, <2>1, <3>1
      <3>2. CASE ~dryRun
        BY <2>1, <2>3, <3>2 DEF Renamed
      <3> QED
        BY <3>1, <3>2
    <2>5. ~dryRun => Followed(d, impl, world.data) /\ Followed(d, impl, next'.data)
      BY <2>1, <2>3 DEF Followed
    <2> HIDE DEF d
    <2>6. \A e \in {networks, d} :
            Renamed(e, impl, unmerged) /\ (~dryRun => Followed(e, impl, world.data))
      BY <2>1, <2>4, <2>5
    <2>7. LET u == networks[C("Joetroller")]
          IN  /\ Bound(networks, "Joetroller") /\ "Joetroller" \notin torn
              /\ u \in DOMAIN impl \ unmerged
              => HasBoth(u, abis, impl)
      BY DEF FileInv, MergedInv
    <2> QED
      BY <1>2, <2>5, <2>6, <2>7 DEF MergedInv, d
  <1> QED
    BY <1>4, <1>6, <1>7, <1>8, <1>12, <1>13, <1>14, <1>15 DEF FileInv

--------------------------------------------------------------------------------
(***************************************************************************)
(* A Unitroller gets an implementation, and the interfaces are merged.     *)
(***************************************************************************)
LEMMA UnitrollerOfSession ==
    ASSUME FileInv, ~dryRun, R!Resolves(world, "Contracts", "Unitroller")
    PROVE  LET u == R!Unitroller
               a == world.index[u].name
           IN  /\ Bound(world.data, "Unitroller") /\ world.data[C("Unitroller")] = u
               /\ u \in DOMAIN world.index /\ u \in DOMAIN code /\ code[u] = "Unitroller"
               /\ a \in Special /\ a \in R!Known
               /\ Bound(world.data, a) /\ world.data[C(a)] = u
PROOF
  <1> DEFINE u == R!Unitroller
             a == world.index[u].name
  <1>1. "Unitroller" \in R!Known
    BY DEF R!Known
  <1>2. Bound(world.data, "Unitroller") /\ world.data[C("Unitroller")] = u
    BY DEF R!Resolves, R!Knows, R!Unitroller, R!Address, Bound, C
  <1>3. Coherent(world) /\ OnChain(world.data, code)
    BY DEF FileInv, WorldInv
  <1>4. Labelled(world, "Unitroller", u)
    BY <1>1, <1>2, <1>3 DEF Coherent
  <1>5. u \in DOMAIN world.index /\ a \in R!Known /\ Bound(world.data, a) /\ world.data[C(a)] = u
    BY <1>3, <1>4 DEF Labelled, Coherent
  <1>6. u \in DOMAIN code /\ code[u] = "Unitroller"
    BY <1>1, <1>2, <1>3 DEF OnChain, Special, Bound
  <1>7. a \in Special
    BY <1>3, <1>5, <1>6 DEF OnChain
  <1> QED
    BY <1>2, <1>5, <1>6, <1>7

(* What a Become may do to the chain.                                      *)
Delegates(u) ==
    /\ \A v : v # u =>
          /\ v \in DOMAIN impl' <=> v \in DOMAIN impl
          /\ v \in DOMAIN impl => impl'[v] = impl[v]
          /\ v \in unmerged' <=> v \in unmerged
    /\ u \in unmerged' \/ (impl' = impl /\ unmerged' = unmerged)
    /\ DOMAIN impl' \subseteq DOMAIN code /\ unmerged' \subseteq DOMAIN impl'

LEMMA DelegationIsFollowed ==
    ASSUME NEW u, Delegates(u), NEW d
    PROVE  /\ Renamed(d, impl, unmerged) => Renamed(d, impl', unmerged')
           /\ \A data : /\ Followed(d, impl, data)
                        /\ Bound(data, "Unitroller") /\ data[C("Unitroller")] = u
                        => Followed(d, impl', data)
BY DEF Delegates, Renamed, Followed

LEMMA DelegationIsMerged ==
    ASSUME NEW u, Delegates(u), NEW v \in DOMAIN impl' \ unmerged'
    PROVE  /\ v \in DOMAIN impl \ unmerged /\ impl'[v] = impl[v]
           /\ \A f : HasBoth(v, f, impl) => HasBoth(v, f, impl')
BY DEF Delegates, HasBoth

LEMMA MergeKeepsFileInv ==
    ASSUME FileInv, R!Idle, ~dryRun, R!Resolves(world, "Contracts", "Unitroller"),
           NEW i \in DOMAIN world.index, R!Merge(R!Unitroller, i), Delegates(R!Unitroller),
           impl' = impl \/ impl'[R!Unitroller] = code[i],
           UNCHANGED <<code, networks, abis, dryRun, world, torn, apart>>
    PROVE  FileInv'
PROOF
  <1> DEFINE u == R!Unitroller
             a == world.index[u].name
             b == world.index[i].name
             abi == abis[a] \cup abis[b]
             sound == {a, b} \cap torn = {}
             adopts == IF apart \/ networks[C(b)] # i THEN {} ELSE {<<u, code[i]>>}
  <1>1. /\ Bound(world.data, "Unitroller") /\ world.data[C("Unitroller")] = u
        /\ u \in DOMAIN world.index /\ u \in DOMAIN code /\ code[u] = "Unitroller"
        /\ a \in Special /\ a \in R!Known
        /\ Bound(world.data, a) /\ world.data[C(a)] = u
    BY UnitrollerOfSession
  <1>2. {a, b} \subseteq DOMAIN abis /\ b \in R!Known
    BY DEF R!Merge, FileInv, WorldInv, Coherent
  <1>3. R!Save("Joetroller", {"Contracts"}, u, abi, sound, adopts)
    BY DEF R!Merge, C
  <1> HIDE DEF abi, adopts
  <1>4. /\ Relabelled(world, next', "Joetroller", u, abi)
        /\ Saves("Joetroller", u, abi, sound, adopts)
    BY <1>3, SaveOutcome
  <1>5. writes = R!NoWrites /\ next = world
    BY DEF R!Idle
  <1>6. {"Unitroller", "Joetroller"} \subseteq R!Known
    BY DEF R!Known
  <1>7. Directory(networks) /\ OnChain(networks, code) /\ OnChain(world.data, code)
    BY DEF FileInv, FilesInv, WorldInv
  <1>8. TargetNetworks' = writes'.networks /\ TargetAbis' = writes'.abis
        /\ TargetNetworks = networks /\ TargetAbis = abis
    BY <1>4, <1>5 DEF TargetNetworks, TargetAbis, Saves
  <1>9. FilesTyped'
    BY DEF FileInv, FilesTyped, Delegates
  <1>10. WorldInv(world)'
    BY DEF FileInv, WorldInv
  <1>11. WorldInv(next)'
    <2>1. Coherent(next')
      BY <1>1, <1>4, MergeIsCoherent DEF FileInv, WorldInv
    <2>2. OnChain(next'.data, code)
      BY <1>1, <1>4, <1>6, <1>7, OnChainAfter DEF Relabelled, Special
    <2>3. DOMAIN next'.index \subseteq DOMAIN code
      BY <1>1, <1>4 DEF FileInv, WorldInv, Relabelled
    <2> QED
      BY <2>1, <2>2, <2>3 DEF WorldInv
  <1>12. FilesInv'
    BY DEF FileInv, FilesInv
  <1>13. ASSUME sound
         PROVE  /\ Functions["Unitroller"] \subseteq abi
                /\ networks[C(b)] = i => Functions[code[i]] \subseteq abi
    <2>1. Fit(a, networks, abis, code) /\ Fit(b, networks, abis, code)
      BY <1>1, <1>2, <1>13 DEF FileInv, FilesInv
    <2>2. Bound(networks, a) /\ Bound(networks, b)
      BY <1>2 DEF FileInv, FilesInv
    <2>3. code[networks[C(a)]] = "Unitroller"
      BY <1>1, <1>7, <2>2 DEF OnChain
    <2> QED
      BY <2>1, <2>2, <2>3 DEF Fit, abi
  <1>14. WritesInv'
    <2>1. Directory(writes'.networks)
      <3>1. ASSUME NEW other \in R!Known \ {"Joetroller"}, Bound(networks, other),
                   networks[C(other)] = u
            PROVE  {"Joetroller", other} \subseteq Special
        BY <1>1, <1>7, <3>1 DEF OnChain, Special
      <3> QED
        BY <1>4, <1>6, <1>7, <3>1, DirectoryAfter DEF Saves
    <2>2. OnChain(writes'.networks, code)
      BY <1>1, <1>4, <1>6, <1>7, OnChainAfter DEF Saves, Special
    <2>3. Bound(writes'.networks, "Joetroller")
          /\ SameBut("Joetroller", networks, writes'.networks)
      BY <1>4 DEF Saves, Redirected, SameBut
    <2>4. writes'.sound => Fit("Joetroller", writes'.networks, writes'.abis, code)
      BY <1>1, <1>4, <1>13 DEF Saves, Redirected, Fit
    <2>5. writes'.sound \in BOOLEAN
      BY <1>4 DEF Saves
    <2> QED
      BY <1>4, <1>6, <2>1, <2>2, <2>3, <2>4, <2>5 DEF WritesInv, Saves
  <1>15. ~apart => world.data = networks
    BY <1>5, <1>8 DEF FileInv, AgreeInv
  <1>16. AgreeInv'
    <2> SUFFICES ASSUME ~apart PROVE AgreeInv'
      BY DEF AgreeInv
    <2>1. next'.data = TargetNetworks'
      BY <1>4, <1>8, <1>15 DEF Saves
    <2>2. KnownAbis(next', TargetNetworks', TargetAbis')
      <3> SUFFICES ASSUME NEW other \in R!Known, Bound(next'.data, other),
                          next'.index[next'.data[C(other)]].name = other
                   PROVE  next'.index[next'.data[C(other)]].abi = AbiIn(writes'.abis, other)
        BY <1>8 DEF KnownAbis
      <3>1. CASE other = "Joetroller"
        BY <1>4, <3>1 DEF Relabelled, Redirected, Saves, AbiIn
      <3>2. CASE other # "Joetroller"
        <4> DEFINE c == world.data[C(other)]
        <4>1. Bound(world.data, other) /\ next'.data[C(other)] = c
          BY <1>4, <3>2 DEF Relabelled, Redirected
        <4>2. c # u
          BY <1>4, <3>2, <4>1 DEF Relabelled
        <4>3. next'.index[c] = world.index[c]
          BY <1>4, <4>1, <4>2 DEF FileInv, WorldInv, Coherent, Labelled, Relabelled
        <4>4. world.index[c].abi = AbiIn(abis, other)
          BY <1>5, <1>8, <1>15, <4>1, <4>3 DEF FileInv, AgreeInv, KnownAbis
        <4>5. AbiIn(writes'.abis, other) = AbiIn(abis, other)
          BY <1>4, <3>2 DEF Saves, AbiIn
        <4> QED
          BY <4>1, <4>3, <4>4, <4>5
      <3> QED
        BY <3>1, <3>2
    <2> QED
      BY <2>1, <2>2 DEF AgreeInv
  <1>17. Renamed(networks, impl, unmerged) /\ Followed(networks, impl, world.data)
    BY DEF FileInv, MergedInv
  <1>18. AdoptInv'
    <2>1. writes'.networks[C("Joetroller")] = u /\ writes'.adopts = adopts
          /\ writes'.name = "Joetroller" /\ writes'.sound = sound
      BY <1>4 DEF Saves, Redirected
    <2>2. apart => adopts = {}
      BY DEF adopts
    <2>3. \A pair \in adopts : pair[1] = u /\ pair[2] = code[i] /\ networks[C(b)] = i
      BY DEF adopts
    <2>4. ASSUME ~apart, sound, u \in DOMAIN impl', u \notin unmerged' \/ <<u, impl'[u]>> \in adopts
          PROVE  HasBoth(u, writes'.abis, impl')
      <3>1. Functions[impl'[u]] \subseteq abi
        <4>1. CASE <<u, impl'[u]>> \in adopts
          BY <1>13, <2>3, <2>4, <4>1
        <4>2. CASE u \notin unmerged'
          <5>1. impl' = impl /\ unmerged' = unmerged /\ u \in DOMAIN impl \ unmerged
            BY <2>4, <4>2 DEF Delegates
          <5>2. Bound(networks, "Joetroller") /\ networks[C("Joetroller")] = u
            BY <1>1, <1>15, <1>17, <2>4, <5>1 DEF Renamed
          <5>3. a = "Joetroller"
            BY <1>1, <1>6, <1>15, <2>4, <5>2 DEF FileInv, WorldInv, Coherent, Labelled
          <5>4. "Joetroller" \notin torn
            BY <2>4, <5>3
          <5>5. HasBoth(u, abis, impl)
            BY <5>1, <5>2, <5>4 DEF FileInv, MergedInv
          <5> QED
            BY <5>1, <5>3, <5>5 DEF HasBoth, abi
        <4> QED
          BY <2>4, <4>1, <4>2
      <3> QED
        BY <1>4, <1>13, <2>4, <3>1 DEF HasBoth, Saves
    <2> QED
      BY <2>1, <2>2, <2>3, <2>4 DEF AdoptInv
  <1>19. MergedInv'
    <2> DEFINE d == writes'.networks
    <2>1. Renamed(networks, impl', unmerged') /\ Followed(networks, impl', world.data)
      BY <1>1, <1>17, DelegationIsFollowed
    <2>2. /\ Bound(d, "Unitroller") <=> Bound(networks, "Unitroller")
          /\ Bound(networks, "Unitroller") => d[C("Unitroller")] = networks[C("Unitroller")]
          /\ Bound(d, "Joetroller") /\ d[C("Joetroller")] = u
          /\ Bound(next'.data, "Unitroller")
          /\ next'.data[C("Unitroller")] = world.data[C("Unitroller")]
      BY <1>1, <1>4 DEF Saves, Relabelled, Redirected
    <2>3. /\ Renamed(d, impl', unmerged') /\ Followed(d, impl', world.data)
          /\ Followed(d, impl', next'.data)
      BY <1>1, <2>1, <2>2 DEF Renamed, Followed
    <2>4. LET v == networks[C("Joetroller")]
          IN  /\ Bound(networks, "Joetroller") /\ "Joetroller" \notin torn
              /\ v \in DOMAIN impl' \ unmerged'
              => HasBoth(v, abis, impl')
      BY DelegationIsMerged DEF FileInv, MergedInv
    <2> HIDE DEF d
    <2>5. \A e \in {networks, d} :
            Renamed(e, impl', unmerged') /\ Followed(e, impl', world.data)
      BY <2>1, <2>3
    <2> QED
      BY <1>8, <2>3, <2>4, <2>5 DEF MergedInv, d
  <1> QED
    BY <1>9, <1>10, <1>11, <1>12, <1>14, <1>16, <1>18, <1>19 DEF FileInv

LEMMA ImplementationOfSession ==
    ASSUME NEW name, R!Resolved(name)
    PROVE  /\ R!Resolves(world, "Contracts", "Unitroller")
           /\ R!Implementation(name) \in DOMAIN world.index
BY DEF R!Resolved, R!Resolves, R!Implementation

LEMMA MergeABIKeepsFileInv ==
    ASSUME FileInv, NEW name, R!MergeABI(name)
    PROVE  FileInv'
PROOF
  <1>1. /\ R!Idle /\ ~dryRun /\ R!Resolved(name)
        /\ R!Merge(R!Unitroller, R!Implementation(name))
        /\ UNCHANGED <<code, impl, networks, abis, dryRun, world, torn, unmerged, apart>>
    BY DEF R!MergeABI, R!chain, R!files, R!ghosts
  <1>2. Delegates(R!Unitroller)
    BY <1>1 DEF Delegates, FileInv, FilesTyped
  <1> QED
    BY <1>1, <1>2, ImplementationOfSession, MergeKeepsFileInv

LEMMA BecomeDelegates ==
    ASSUME FileInv, NEW name, R!Become(name)
    PROVE  /\ Delegates(R!Unitroller)
           /\ impl' = impl \/ impl'[R!Unitroller] = code[R!Implementation(name)]
PROOF
  <1> DEFINE u == R!Unitroller
  <1>1. u \in DOMAIN code
    BY ImplementationOfSession, UnitrollerOfSession DEF R!Become
  <1>2. DOMAIN impl \subseteq DOMAIN code /\ unmerged \subseteq DOMAIN impl
    BY DEF FileInv, FilesTyped
  <1>3. CASE /\ impl' = R!Put(impl, {u}, code[R!Implementation(name)])
             /\ unmerged' = unmerged \cup {u}
    <2>1. /\ DOMAIN impl' = DOMAIN impl \cup {u} /\ impl'[u] = code[R!Implementation(name)]
          /\ \A v \in DOMAIN impl \ {u} : impl'[v] = impl[v]
      BY <1>3 DEF R!Put
    <2> QED
      BY <1>1, <1>2, <1>3, <2>1 DEF Delegates
  <1>4. CASE UNCHANGED <<impl, unmerged>>
    BY <1>2, <1>4 DEF Delegates
  <1> QED
    BY <1>3, <1>4 DEF R!Become

(* The transaction was sent, and the interfaces cannot be merged.          *)
LEMMA DelegationKeepsFileInv ==
    ASSUME FileInv, R!Idle, ~dryRun, R!Resolves(world, "Contracts", "Unitroller"),
           Delegates(R!Unitroller),
           UNCHANGED <<code, networks, abis, dryRun, world, next, writes, torn, apart>>
    PROVE  FileInv'
PROOF
  <1>1. Bound(world.data, "Unitroller") /\ world.data[C("Unitroller")] = R!Unitroller
    BY UnitrollerOfSession
  <1>2. writes = R!NoWrites /\ next = world /\ TargetNetworks = networks
    BY DEF R!Idle, TargetNetworks
  <1>3. TargetNetworks' = TargetNetworks /\ TargetAbis' = TargetAbis
    BY DEF TargetNetworks, TargetAbis
  <1>4. FilesTyped'
    BY DEF FileInv, FilesTyped, Delegates
  <1>5. WorldInv(world)' /\ WorldInv(next)'
    BY DEF FileInv, WorldInv
  <1>6. FilesInv' /\ WritesInv' /\ AgreeInv' /\ AdoptInv'
    BY <1>2, <1>3 DEF FileInv, FilesInv, WritesInv, AgreeInv, AdoptInv
  <1>7. MergedInv'
    <2>1. Renamed(networks, impl, unmerged) /\ Followed(networks, impl, world.data)
      BY DEF FileInv, MergedInv
    <2>2. Renamed(networks, impl', unmerged') /\ Followed(networks, impl', world.data)
      BY <1>1, <2>1, DelegationIsFollowed
    <2>3. LET v == networks[C("Joetroller")]
          IN  /\ Bound(networks, "Joetroller") /\ "Joetroller" \notin torn
              /\ v \in DOMAIN impl' \ unmerged'
              => HasBoth(v, abis, impl')
      BY DelegationIsMerged DEF FileInv, MergedInv
    <2> QED
      BY <1>2, <1>3, <2>2, <2>3 DEF MergedInv
  <1> QED
    BY <1>4, <1>5, <1>6, <1>7 DEF FileInv

LEMMA BecomeKeepsFileInv ==
    ASSUME FileInv, NEW name, R!Become(name)
    PROVE  FileInv'
PROOF
  <1>1. /\ R!Idle /\ R!Resolved(name) /\ ~dryRun
        /\ UNCHANGED <<code, networks, abis, dryRun, world, torn, apart>>
    BY DEF R!Become, R!files
  <1>2. Delegates(R!Unitroller)
        /\ (impl' = impl \/ impl'[R!Unitroller] = code[R!Implementation(name)])
    BY BecomeDelegates
  <1>3. CASE R!CanMerge(R!Unitroller, R!Implementation(name))
    <2>1. R!Merge(R!Unitroller, R!Implementation(name))
      BY <1>3 DEF R!Become
    <2> QED
      BY <1>1, <1>2, <2>1, ImplementationOfSession, MergeKeepsFileInv
  <1>4. CASE ~R!CanMerge(R!Unitroller, R!Implementation(name))
    <2>1. UNCHANGED <<next, writes>>
      BY <1>4 DEF R!Become
    <2> QED
      BY <1>1, <1>2, <2>1, ImplementationOfSession, DelegationKeepsFileInv
  <1> QED
    BY <1>3, <1>4

--------------------------------------------------------------------------------
(***************************************************************************)
(* The files are written, and the line ends.                               *)
(***************************************************************************)
LEMMA WriteNetworksKeepsFileInv ==
    ASSUME FileInv, R!WriteNetworks
    PROVE  FileInv'
PROOF
  <1>1. /\ writes # R!NoWrites /\ networks' = writes.networks
        /\ torn' = torn \cup {writes.name}
        /\ UNCHANGED <<code, impl, abis, dryRun, world, next, writes, unmerged, apart>>
    BY DEF R!WriteNetworks, R!chain
  <1>2. /\ ~dryRun /\ writes.name \in R!Known /\ Bound(writes.networks, writes.name)
        /\ Directory(writes.networks) /\ OnChain(writes.networks, code)
        /\ SameBut(writes.name, networks, writes.networks)
    BY <1>1 DEF FileInv, WritesInv
  <1>3. TargetNetworks' = TargetNetworks /\ TargetAbis' = TargetAbis
        /\ TargetNetworks = writes.networks
    BY <1>1 DEF TargetNetworks, TargetAbis
  <1>4. FilesTyped' /\ WorldInv(world)' /\ WorldInv(next)'
    BY <1>1, <1>2 DEF FileInv, FilesTyped, WorldInv
  <1>5. FilesInv'
    <2>1. ASSUME NEW name \in DOMAIN abis PROVE Bound(writes.networks, name)
      BY <1>2 DEF FileInv, FilesInv, SameBut
    <2>2. ASSUME NEW name \in R!Known \ torn' PROVE Fit(name, writes.networks, abis, code)
      BY <1>1, <1>2 DEF FileInv, FilesInv, SameBut, Fit
    <2> QED
      BY <1>1, <1>2, <2>1, <2>2 DEF FileInv, FilesInv
  <1>6. WritesInv'
    BY <1>1 DEF FileInv, WritesInv, SameBut
  <1>7. AgreeInv' /\ AdoptInv'
    BY <1>1, <1>2, <1>3 DEF FileInv, AgreeInv, AdoptInv
  <1>8. MergedInv'
    <2>1. LET u == writes.networks[C("Joetroller")]
          IN  /\ Bound(writes.networks, "Joetroller") /\ "Joetroller" \notin torn'
              /\ u \in DOMAIN impl \ unmerged
              => HasBoth(u, abis, impl)
      BY <1>1, <1>2 DEF FileInv, MergedInv, SameBut, R!Known
    <2> QED
      BY <1>1, <1>3, <2>1 DEF FileInv, MergedInv
  <1> QED
    BY <1>4, <1>5, <1>6, <1>7, <1>8 DEF FileInv

LEMMA WriteABIsKeepsFileInv ==
    ASSUME FileInv, R!WriteABIs
    PROVE  FileInv'
PROOF
  <1>1. /\ writes # R!NoWrites /\ networks = writes.networks
        /\ abis' = writes.abis /\ writes' = R!NoWrites
        /\ torn' = IF writes.sound THEN torn \ {writes.name} ELSE torn \cup {writes.name}
        /\ unmerged' = IF apart /\ writes.name = "Joetroller" THEN DOMAIN impl
                       ELSE unmerged \ {u \in DOMAIN impl : <<u, impl[u]>> \in writes.adopts}
        /\ UNCHANGED <<code, impl, networks, dryRun, world, next, apart>>
    BY DEF R!WriteABIs, R!chain
  <1>2. /\ ~dryRun /\ writes.name \in R!Known /\ Bound(networks, writes.name)
        /\ DOMAIN writes.abis = DOMAIN abis \cup {writes.name}
        /\ \A name \in DOMAIN abis \ {writes.name} : writes.abis[name] = abis[name]
        /\ writes.sound \in BOOLEAN
        /\ writes.sound => Fit(writes.name, networks, writes.abis, code)
    BY <1>1 DEF FileInv, WritesInv
  <1>3. TargetNetworks' = TargetNetworks /\ TargetAbis' = TargetAbis
        /\ TargetNetworks = networks
    BY <1>1 DEF TargetNetworks, TargetAbis
  <1>4. FilesTyped' /\ WorldInv(world)' /\ WorldInv(next)'
    BY <1>1, <1>2 DEF FileInv, FilesTyped, WorldInv
  <1>5. FilesInv'
    <2>1. ASSUME NEW name \in R!Known \ torn' PROVE Fit(name, networks, writes.abis, code)
      <3>1. CASE name = writes.name
        BY <1>1, <1>2, <2>1, <3>1
      <3>2. CASE name # writes.name
        <4>1. Fit(name, networks, abis, code)
          BY <1>1, <2>1, <3>2 DEF FileInv, FilesInv
        <4> QED
          BY <1>2, <3>2, <4>1 DEF Fit
      <3> QED
        BY <3>1, <3>2
    <2> QED
      BY <1>1, <1>2, <2>1 DEF FileInv, FilesInv
  <1>6. WritesInv' /\ AdoptInv'
    BY <1>1 DEF WritesInv, AdoptInv
  <1>7. AgreeInv'
    BY <1>1, <1>2, <1>3 DEF FileInv, AgreeInv
  <1>8. MergedInv'
    <2> DEFINE u == networks[C("Joetroller")]
    <2>1. ASSUME Bound(networks, "Joetroller"), "Joetroller" \notin torn',
                 u \in DOMAIN impl \ unmerged'
          PROVE  HasBoth(u, writes.abis, impl)
      <3>1. CASE writes.name = "Joetroller"
        <4>1. writes.sound /\ ~apart
          BY <1>1, <2>1, <3>1
        <4>2. u \notin unmerged \/ <<u, impl[u]>> \in writes.adopts
          BY <1>1, <2>1, <4>1
        <4> QED
          BY <1>1, <2>1, <3>1, <4>1, <4>2 DEF FileInv, AdoptInv
      <3>2. CASE writes.name # "Joetroller"
        <4>1. unmerged' = unmerged
          BY <1>1, <3>2 DEF FileInv, AdoptInv
        <4>2. "Joetroller" \notin torn
          BY <1>1, <2>1, <3>2
        <4>3. HasBoth(u, abis, impl)
          BY <2>1, <4>1, <4>2 DEF FileInv, MergedInv
        <4> QED
          BY <1>2, <3>2, <4>3 DEF HasBoth
      <3> QED
        BY <3>1, <3>2
    <2>2. Renamed(networks, impl, unmerged')
      <3> DEFINE v == networks[C("Unitroller")]
      <3> SUFFICES ASSUME Bound(networks, "Unitroller"), v \in DOMAIN impl \ unmerged'
                   PROVE  Bound(networks, "Joetroller") /\ u = v
        BY DEF Renamed
      <3>1. CASE v \notin unmerged
        BY <3>1 DEF FileInv, MergedInv, Renamed
      <3>2. CASE v \in unmerged
        <4>1. <<v, impl[v]>> \in writes.adopts
          BY <1>1, <3>2
        <4>2. writes.name = "Joetroller" /\ v = u
          BY <1>1, <4>1 DEF FileInv, AdoptInv
        <4> QED
          BY <1>2, <4>2
      <3> QED
        BY <3>1, <3>2
    <2> QED
      BY <1>1, <1>3, <2>1, <2>2 DEF FileInv, MergedInv
  <1> QED
    BY <1>4, <1>5, <1>6, <1>7, <1>8 DEF FileInv

LEMMA LineKeepsFileInv ==
    ASSUME FileInv, R!LineSucceeds \/ R!LineFails
    PROVE  FileInv'
PROOF
  <1>1. /\ writes = R!NoWrites
        /\ UNCHANGED <<code, impl, networks, abis, dryRun, writes, torn, unmerged>>
        /\ \/ world' = next /\ next' = next /\ apart' = apart
           \/ world' = world /\ next' = world /\ apart' = (apart \/ ~dryRun)
    BY DEF R!LineSucceeds, R!LineFails, R!chain, R!files, R!ghosts
  <1>2. /\ TargetNetworks' = networks /\ TargetAbis' = abis
        /\ TargetNetworks = networks /\ TargetAbis = abis
    BY <1>1 DEF TargetNetworks, TargetAbis
  <1>3. FilesTyped' /\ WorldInv(world)' /\ WorldInv(next)'
    BY <1>1 DEF FileInv, FilesTyped, WorldInv
  <1>4. FilesInv' /\ WritesInv' /\ AdoptInv'
    BY <1>1 DEF FileInv, FilesInv, WritesInv, AdoptInv
  <1>5. AgreeInv'
    BY <1>1, <1>2 DEF FileInv, AgreeInv, FilesTyped
  <1>6. MergedInv'
    BY <1>1, <1>2 DEF FileInv, MergedInv
  <1> QED
    BY <1>3, <1>4, <1>5, <1>6 DEF FileInv

--------------------------------------------------------------------------------
(***************************************************************************)
(* A session that is started again knows every name that the file of       *)
(* addresses has, and the interface under the last name of each address.   *)
(***************************************************************************)
LEMMA SequenceOfSet ==
    ASSUME NEW S, IsFiniteSet(S)
    PROVE  LET s == R!SetToSeq(S)
           IN  /\ s \in Seq(S)
               /\ \A x \in S : \E i \in 1 .. Len(s) : s[i] = x
               /\ \A i, k \in 1 .. Len(s) : s[i] = s[k] => i = k
PROOF
  <1> DEFINE s == R!SetToSeq(S)
             m == Cardinality(S)
  <1>1. PICK f \in Bijection(1 .. m, S) : TRUE
    BY FS_CardinalityType DEF ExistsBijection
  <1>2. f \in [1 .. m -> S] /\ R!IsInjective(f)
    BY <1>1 DEF Bijection, Injection, IsInjective, R!IsInjective
  <1>3. s \in [1 .. m -> S] /\ R!IsInjective(s)
    BY <1>2, SameCardinality DEF R!SetToSeq
  <1>4. m \in Nat
    BY FS_CardinalityType
  <1>5. IsFiniteSet(1 .. m) /\ Cardinality(1 .. m) = m
    BY <1>4, FS_Interval
  <1> HIDE DEF s, m
  <1>6. s \in Seq(S) /\ Len(s) = m
    BY <1>3, <1>4
  <1>7. s \in Injection(1 .. m, S)
    BY <1>3 DEF Injection, IsInjective, R!IsInjective
  <1>8. s \in Surjection(1 .. m, S)
    <2>1. Cardinality(1 .. m) = Cardinality(S)
      BY <1>5 DEF m
    <2> QED
      BY <1>7, <2>1, FS_Injection
  <1>9. \A x \in S : \E i \in 1 .. Len(s) : s[i] = x
    BY <1>6, <1>8 DEF Surjection
  <1>10. \A i, k \in 1 .. Len(s) : s[i] = s[k] => i = k
    BY <1>3, <1>6 DEF R!IsInjective
  <1> QED
    BY <1>6, <1>9, <1>10 DEF s, m

LEMMA NamesInOrder ==
    LET o == R!LoadOrder
    IN  /\ DOMAIN o \subseteq Nat /\ {1, 2} \subseteq DOMAIN o
        /\ o[1] = "Unitroller" /\ o[2] = "Joetroller"
        /\ \A i \in DOMAIN o : o[i] \in R!Known
        /\ \A i, k \in DOMAIN o : o[i] = o[k] => i = k
        /\ \A name \in R!Known : \E i \in DOMAIN o : o[i] = name
PROOF
  <1> DEFINE s == R!SetToSeq(Names)
             o == <<"Unitroller", "Joetroller">> \o s
  <1>1. /\ s \in Seq(Names)
        /\ \A x \in Names : \E i \in 1 .. Len(s) : s[i] = x
        /\ \A i, k \in 1 .. Len(s) : s[i] = s[k] => i = k
    BY SequenceOfSet, NamesAssumption
  <1>2. Len(s) \in Nat /\ \A i \in 1 .. Len(s) : s[i] \in Names
    BY <1>1
  <1> HIDE DEF s
  <1>3. /\ DOMAIN o = 1 .. Len(s) + 2 /\ o[1] = "Unitroller" /\ o[2] = "Joetroller"
        /\ \A i \in 3 .. Len(s) + 2 : o[i] = s[i - 2]
    BY <1>2
  <1> HIDE DEF o
  <1>4. \A i \in DOMAIN o : i = 1 \/ i = 2 \/ i \in 3 .. Len(s) + 2
    BY <1>2, <1>3
  <1>5. \A i \in 3 .. Len(s) + 2 : o[i] \in Names /\ i - 2 \in 1 .. Len(s)
    BY <1>2, <1>3
  <1>6. \A i \in DOMAIN o : o[i] \in R!Known
    BY <1>3, <1>4, <1>5 DEF R!Known
  <1>7. ASSUME NEW i \in DOMAIN o, NEW k \in DOMAIN o, o[i] = o[k] PROVE i = k
    <2>1. CASE i \in {1, 2} \/ k \in {1, 2}
      BY <1>3, <1>4, <1>5, <1>7, <2>1, NamesAssumption
    <2>2. CASE i \in 3 .. Len(s) + 2 /\ k \in 3 .. Len(s) + 2
      <3>1. s[i - 2] = s[k - 2] /\ i - 2 \in 1 .. Len(s) /\ k - 2 \in 1 .. Len(s)
        BY <1>3, <1>5, <1>7, <2>2
      <3>2. i - 2 = k - 2
        BY <1>1, <3>1
      <3> QED
        BY <1>2, <2>2, <3>2
    <2> QED
      BY <1>4, <2>1, <2>2
  <1>8. ASSUME NEW name \in R!Known PROVE \E i \in DOMAIN o : o[i] = name
    <2>1. CASE name \in Names
      <3>1. PICK i \in 1 .. Len(s) : s[i] = name
        BY <1>1, <2>1
      <3>2. i + 2 \in 3 .. Len(s) + 2 /\ i + 2 - 2 = i
        BY <1>2, <3>1
      <3> QED
        BY <1>2, <1>3, <3>1, <3>2
    <2>2. CASE name \in {"Unitroller", "Joetroller"}
      BY <1>2, <1>3, <2>2
    <2> QED
      BY <2>1, <2>2 DEF R!Known
  <1>9. R!LoadOrder = o
    BY DEF R!LoadOrder, o, s
  <1> QED
    BY <1>2, <1>3, <1>6, <1>7, <1>8, <1>9

(* What a session knows that was loaded from the files.                    *)
Loaded(w) ==
    /\ w.data = networks
    /\ \A a \in DOMAIN w.index :
          LET name == w.index[a].name
          IN  /\ name \in R!Known /\ Bound(networks, name) /\ networks[C(name)] = a
              /\ w.index[a].abi = AbiIn(abis, name)
    /\ \A name \in R!Known : Bound(networks, name) => Labelled(w, name, networks[C(name)])

LEMMA LoadOutcome ==
    ASSUME Directory(networks)
    PROVE  Loaded(R!Load)
PROOF
  <1> DEFINE o == R!LoadOrder
             loaded == {i \in DOMAIN o : <<"Contracts", o[i]>> \in DOMAIN networks}
             AddressAt(i) == networks[<<"Contracts", o[i]>>]
             IsLast(a, i) == AddressAt(i) = a /\ \A k \in loaded : AddressAt(k) = a => k <= i
             Last(a) == CHOOSE i \in loaded : IsLast(a, i)
             AbiOf(name) == IF name \in DOMAIN abis THEN abis[name] ELSE {}
             index == [a \in {AddressAt(i) : i \in loaded} |->
                         [name |-> o[Last(a)], abi |-> AbiOf(o[Last(a)])]]
  <1>1. R!Load = [data |-> networks, index |-> index]
    BY DEF R!Load
  <1>2. /\ DOMAIN o \subseteq Nat /\ {1, 2} \subseteq DOMAIN o
        /\ o[1] = "Unitroller" /\ o[2] = "Joetroller"
        /\ \A i \in DOMAIN o : o[i] \in R!Known
        /\ \A i, k \in DOMAIN o : o[i] = o[k] => i = k
        /\ \A name \in R!Known : \E i \in DOMAIN o : o[i] = name
    BY NamesInOrder
  <1> HIDE DEF o
  <1>3. \A i \in loaded : Bound(networks, o[i]) /\ AddressAt(i) = networks[C(o[i])] /\ i \in DOMAIN o
    BY DEF Bound, C
  <1>4. ASSUME NEW i \in loaded, NEW k \in loaded, AddressAt(i) = AddressAt(k), i # k
        PROVE  i \in {1, 2} /\ k \in {1, 2}
    <2>1. o[i] # o[k] /\ o[i] \in R!Known /\ o[k] \in R!Known
      BY <1>2, <1>3, <1>4
    <2>2. o[i] \in Special /\ o[k] \in Special
      BY <1>3, <1>4, <2>1 DEF Directory
    <2> QED
      BY <1>2, <1>3, <2>2 DEF Special
  <1>5. ASSUME NEW i \in loaded
        PROVE  \E k \in loaded : IsLast(AddressAt(i), k)
    <2>1. CASE 2 \in loaded /\ AddressAt(2) = AddressAt(i)
      <3>1. \A k \in loaded : AddressAt(k) = AddressAt(i) => k <= 2
        <4> SUFFICES ASSUME NEW k \in loaded, AddressAt(k) = AddressAt(i), k # 2 PROVE k <= 2
          OBVIOUS
        <4>1. AddressAt(2) = AddressAt(k)
          BY <2>1
        <4>2. k \in {1, 2}
          BY <1>4, <2>1, <4>1
        <4> QED
          BY <4>2
      <3> QED
        BY <2>1, <3>1
    <2>2. CASE ~(2 \in loaded /\ AddressAt(2) = AddressAt(i))
      <3>1. \A k \in loaded : AddressAt(k) = AddressAt(i) => k = i
        BY <1>4, <2>2
      <3>2. i <= i
        BY <1>2
      <3> QED
        BY <3>1, <3>2
    <2> QED
      BY <2>1, <2>2
  <1>6. \A i \in loaded : Last(AddressAt(i)) \in loaded /\ IsLast(AddressAt(i), Last(AddressAt(i)))
    BY <1>5
  <1> HIDE DEF Last
  <1>7. ASSUME NEW a \in DOMAIN index
        PROVE  LET name == index[a].name
               IN  /\ name \in R!Known /\ Bound(networks, name) /\ networks[C(name)] = a
                   /\ index[a].abi = AbiIn(abis, name)
    <2>1. PICK i \in loaded : a = AddressAt(i)
      BY <1>7
    <2>2. Last(a) \in loaded /\ AddressAt(Last(a)) = a
      BY <1>6, <2>1
    <2>3. index[a].name = o[Last(a)] /\ index[a].abi = AbiOf(o[Last(a)])
      BY <1>7
    <2> HIDE DEF index
    <2> QED
      BY <1>2, <1>3, <2>2, <2>3 DEF AbiIn
  <1>8. ASSUME NEW name \in R!Known, Bound(networks, name)
        PROVE  LET a == networks[C(name)]
               IN  /\ a \in DOMAIN index
                   /\ name = "Joetroller" => index[a].name = "Joetroller"
    <2> DEFINE a == networks[C(name)]
    <2>1. PICK i \in loaded : o[i] = name /\ AddressAt(i) = a
      BY <1>2, <1>8 DEF Bound, C
    <2>2. a \in DOMAIN index /\ index[a].name = o[Last(a)]
      BY <2>1
    <2>3. ASSUME name = "Joetroller" PROVE Last(a) = 2
      <3>1. i = 2
        BY <1>2, <1>3, <2>1, <2>3
      <3>2. Last(a) \in loaded /\ AddressAt(Last(a)) = a /\ 2 <= Last(a)
        BY <1>6, <2>1, <3>1
      <3> QED
        BY <1>4, <2>1, <3>1, <3>2
    <2> QED
      BY <1>2, <2>2, <2>3
  <1> HIDE DEF index
  <1>9. \A name \in R!Known : Bound(networks, name) => Labelled(R!Load, name, networks[C(name)])
    BY <1>1, <1>7, <1>8 DEF Labelled
  <1> QED
    BY <1>1, <1>7, <1>9 DEF Loaded

LEMMA LoadedIsSound ==
    ASSUME FileInv, NEW w, Loaded(w)
    PROVE  /\ Coherent(w) /\ OnChain(w.data, code) /\ DOMAIN w.index \subseteq DOMAIN code
           /\ KnownAbis(w, networks, abis)
PROOF
  <1>1. Directory(networks) /\ OnChain(networks, code) /\ DOMAIN code \subseteq 1 .. MaxDeploys
    BY DEF FileInv, FilesInv, FilesTyped
  <1>2. ASSUME NEW a \in DOMAIN w.index PROVE a \in DOMAIN code
    BY <1>1 DEF Loaded, OnChain, Bound
  <1>3. DOMAIN w.index \subseteq 1 .. MaxDeploys
    BY <1>1, <1>2
  <1>4. Coherent(w)
    BY <1>1, <1>3 DEF Coherent, Loaded
  <1>5. KnownAbis(w, networks, abis)
    BY DEF KnownAbis, Loaded, Labelled
  <1> QED
    BY <1>1, <1>2, <1>4, <1>5 DEF Loaded

LEMMA RestartKeepsFileInv ==
    ASSUME FileInv, R!Restart
    PROVE  FileInv'
PROOF
  <1>1. /\ world' = R!Load /\ next' = world' /\ writes' = R!NoWrites
        /\ dryRun' \in BOOLEAN /\ apart' = FALSE
        /\ UNCHANGED <<code, impl, networks, abis, torn, unmerged>>
    BY DEF R!Restart, R!chain, R!files
  <1>2. Loaded(world')
    BY <1>1, LoadOutcome DEF FileInv, FilesInv
  <1>3. /\ Coherent(world') /\ OnChain(world'.data, code)
        /\ DOMAIN world'.index \subseteq DOMAIN code /\ KnownAbis(world', networks, abis)
    BY <1>2, LoadedIsSound
  <1>4. world'.data = networks
    BY <1>2 DEF Loaded
  <1>5. TargetNetworks' = networks /\ TargetAbis' = abis
    BY <1>1 DEF TargetNetworks, TargetAbis
  <1>6. FilesTyped' /\ FilesInv' /\ WritesInv' /\ AdoptInv'
    BY <1>1 DEF FileInv, FilesTyped, FilesInv, WritesInv, AdoptInv
  <1>7. WorldInv(world)' /\ WorldInv(next)'
    BY <1>1, <1>3 DEF WorldInv
  <1>8. AgreeInv'
    BY <1>1, <1>3, <1>4, <1>5 DEF AgreeInv
  <1>9. MergedInv'
    <2>1. Renamed(networks, impl, unmerged)
      BY DEF FileInv, MergedInv
    <2>2. Followed(networks, impl, networks)
      BY DEF Followed
    <2>3. LET u == networks[C("Joetroller")]
          IN  /\ Bound(networks, "Joetroller") /\ "Joetroller" \notin torn
              /\ u \in DOMAIN impl \ unmerged
              => HasBoth(u, abis, impl)
      BY DEF FileInv, MergedInv
    <2> QED
      BY <1>1, <1>4, <1>5, <2>1, <2>2, <2>3 DEF MergedInv
  <1> QED
    BY <1>6, <1>7, <1>8, <1>9 DEF FileInv

--------------------------------------------------------------------------------
(***************************************************************************)
(* The session.                                                            *)
(***************************************************************************)
LEMMA RegistryKeepsFileInv ==
    ASSUME FileInv, R!Next
    PROVE  FileInv'
PROOF
  <1>1. CASE R!Deploy("Unitroller", "Unitroller")
    <2>1. "Unitroller" \in R!Known \ {"Joetroller"}
      BY DEF R!Known
    <2> QED
      BY <1>1, <2>1, DeployKeepsFileInv
  <1>2. ASSUME NEW name \in Names, NEW class \in R!Classes \ {"Unitroller"},
               R!Deploy(class, name)
        PROVE  FileInv'
    <2>1. name \in R!Known \ {"Joetroller"} /\ name # "Unitroller" /\ class # "Unitroller"
      BY <1>2, NamesAssumption DEF R!Known
    <2> QED
      BY <1>2, <2>1, DeployKeepsFileInv
  <1>3. ASSUME NEW name \in Names, R!Become(name) \/ R!MergeABI(name) PROVE FileInv'
    BY <1>3, BecomeKeepsFileInv, MergeABIKeepsFileInv
  <1>4. CASE R!WriteNetworks \/ R!WriteABIs
    BY <1>4, WriteNetworksKeepsFileInv, WriteABIsKeepsFileInv
  <1>5. CASE R!LineSucceeds \/ R!LineFails
    BY <1>5, LineKeepsFileInv
  <1>6. CASE R!Restart
    BY <1>6, RestartKeepsFileInv
  <1> QED
    BY <1>1, <1>2, <1>3, <1>4, <1>5, <1>6 DEF R!Next

(* At the node the files are left alone, and so is the dry run.            *)
LEMMA NextKeepsDryRun ==
    Next => dryRun' = dryRun
PROOF
  <1>1. \A limit, answer : SetGas(limit, answer) => dryRun' = dryRun
    BY DEF SetGas, session
  <1>2. \A answer : SetValue(answer) => dryRun' = dryRun
    BY DEF SetValue, session
  <1>3. \A receipt, error : Report(receipt, error) => dryRun' = dryRun
    BY DEF Report, session
  <1>4. LostIsMined \/ OthersMove => dryRun' = dryRun
    BY DEF LostIsMined, OthersMove, session
  <1>5. TakeTotalGas \/ EstimateGas \/ EstimateIsLost => dryRun' = dryRun
    BY <1>1 DEF TakeTotalGas, EstimateGas, EstimateIsLost
  <1>6. CallFunction \/ CallIsLost => dryRun' = dryRun
    BY <1>2 DEF CallFunction, CallIsLost
  <1>7. DryRun \/ SendIsMined \/ SendReverts \/ SendIsRefused \/ SendIsLost => dryRun' = dryRun
    BY <1>3 DEF DryRun, SendIsMined, SendReverts, SendIsRefused, SendIsLost
  <1> QED
    BY <1>4, <1>5, <1>6, <1>7, Zenon DEF Next, Invoke

LEMMA SessionNextKeepsFileInv ==
    FileInv /\ [SessionNext]_sessionVars => FileInv'
PROOF
  <1> SUFFICES ASSUME FileInv, [SessionNext]_sessionVars PROVE FileInv'
    OBVIOUS
  <1>1. CASE UNCHANGED <<dryRun, fileVars>>
    <2>1. UNCHANGED <<code, impl, networks, abis, dryRun, world, next, writes, torn,
                      unmerged, apart>>
      BY <1>1 DEF fileVars
    <2>2. TargetNetworks' = TargetNetworks /\ TargetAbis' = TargetAbis
      BY <2>1 DEF TargetNetworks, TargetAbis
    <2>3. FilesTyped' /\ WorldInv(world)' /\ WorldInv(next)' /\ FilesInv' /\ WritesInv'
      BY <2>1 DEF FileInv, FilesTyped, WorldInv, FilesInv, WritesInv
    <2>4. AgreeInv' /\ AdoptInv' /\ MergedInv'
      BY <2>1, <2>2 DEF FileInv, AgreeInv, AdoptInv, MergedInv
    <2> QED
      BY <2>3, <2>4 DEF FileInv
  <1>2. CASE AtTheNode /\ Next
    BY <1>1, <1>2, NextKeepsDryRun DEF AtTheNode
  <1>3. CASE AtTheFiles /\ R!Next
    BY <1>3, RegistryKeepsFileInv
  <1> QED
    BY <1>1, <1>2, <1>3 DEF SessionNext, sessionVars

LEMMA SessionInitFileInv ==
    SessionInit => FileInv
PROOF
  <1> SUFFICES ASSUME SessionInit PROVE FileInv
    OBVIOUS
  <1> DEFINE none == << >>
  <1>1. /\ code = none /\ impl = none /\ networks = none /\ abis = none /\ dryRun \in BOOLEAN
        /\ world = [data |-> none, index |-> none] /\ next = world /\ writes = R!NoWrites
        /\ torn = {} /\ unmerged = {} /\ apart = FALSE
    BY DEF SessionInit, R!Init, R!NewWorld, R!Empty
  <1>2. DOMAIN none = {}
    OBVIOUS
  <1> HIDE DEF none
  <1>3. \A name : ~Bound(none, name)
    BY <1>2 DEF Bound
  <1>4. Directory(none) /\ OnChain(none, none)
    BY <1>2, <1>3 DEF Directory, OnChain
  <1>5. FilesTyped
    BY <1>1, <1>2 DEF FilesTyped
  <1>6. WorldInv(world) /\ WorldInv(next)
    BY <1>1, <1>2, <1>3, <1>4 DEF WorldInv, Coherent
  <1>7. FilesInv
    BY <1>1, <1>2, <1>3, <1>4 DEF FilesInv, Fit
  <1>8. WritesInv /\ AdoptInv
    BY <1>1 DEF WritesInv, AdoptInv
  <1>9. TargetNetworks = none /\ TargetAbis = none
    BY <1>1 DEF TargetNetworks, TargetAbis
  <1>10. AgreeInv
    BY <1>1, <1>3, <1>9 DEF AgreeInv, KnownAbis
  <1>11. MergedInv
    BY <1>1, <1>3, <1>9 DEF MergedInv, Renamed, Followed
  <1> QED
    BY <1>5, <1>6, <1>7, <1>8, <1>10, <1>11 DEF FileInv

\* What the session knows and what the files hold, or will hold when the save at
\* hand is done, are the contracts of the chain under names of their own, whatever
\* line fails and wherever a session is cut off (Networks.ts).
THEOREM FileInvIsInvariant ==
    SessionSpec => []FileInv
PROOF
  <1> QED
    BY SessionInitFileInv, SessionNextKeepsFileInv, PTL DEF SessionSpec

LEMMA FilesFitOfInv ==
    FileInv => FilesFitTheChain
PROOF
  <1> SUFFICES ASSUME FileInv PROVE FilesFitTheChain
    OBVIOUS
  <1>1. R!TypeOK
    BY DEF R!TypeOK, FileInv, FilesTyped, FilesInv, OnChain, WorldInv, Coherent
  <1>2. R!FilesFitTheChain
    BY DEF R!FilesFitTheChain, FileInv, FilesInv, Fit, Bound, C
  <1>3. R!ImplementationIsKnown
    <2> DEFINE u == world.data[C("Joetroller")]
    <2> SUFFICES ASSUME R!Idle, ~apart, torn = {}, Bound(world.data, "Joetroller"),
                        u \in DOMAIN impl \ unmerged
                 PROVE  Functions["Unitroller"] \cup Functions[impl[u]] \subseteq world.index[u].abi
      BY DEF R!ImplementationIsKnown, R!Resolves, R!Knows, R!Address, R!Contract, Bound, C
    <2>1. world = next /\ TargetNetworks = networks /\ TargetAbis = abis
      BY DEF R!Idle, TargetNetworks, TargetAbis
    <2>2. "Joetroller" \in R!Known
      BY DEF R!Known
    <2>3. world.index[u].name = "Joetroller"
      BY <2>2 DEF FileInv, WorldInv, Coherent, Labelled
    <2>4. Bound(networks, "Joetroller") /\ networks[C("Joetroller")] = u
      BY <2>1 DEF FileInv, AgreeInv, FilesTyped
    <2>5. world.index[u].abi = AbiIn(abis, "Joetroller")
      BY <2>1, <2>2, <2>3, <2>4 DEF FileInv, AgreeInv, KnownAbis
    <2>6. HasBoth(u, abis, impl)
      BY <2>4 DEF FileInv, MergedInv
    <2> QED
      BY <2>5, <2>6 DEF HasBoth, AbiIn
  <1> QED
    BY <1>1, <1>2, <1>3 DEF FilesFitTheChain

\* The interface under a name is that of the contract whose address goes by the
\* name, except where a save was cut short, and the Joetroller of a session has the
\* functions of the implementation that was merged for it, in every session
\* (storeAndSaveContract, mergeContractABI, loadContracts of Networks.ts).
THEOREM FilesTheorem == SessionSpec => []FilesFitTheChain
PROOF
  <1> QED
    BY FileInvIsInvariant, FilesFitOfInv, PTL

LEMMA RestartKnowsAll ==
    ASSUME FileInv, R!Restart, R!Idle, ~apart, ~dryRun, NEW entry \in DOMAIN world.data,
           R!Resolves(world, entry[1], entry[2]), ~R!Shadowed(entry)
    PROVE  /\ R!Resolves(world', entry[1], entry[2])
           /\ R!Lookup(world', entry[1], entry[2]) = R!Lookup(world, entry[1], entry[2])
PROOF
  <1> DEFINE name == entry[2]
             a    == world.data[entry]
             old  == world.index[a].name
             new  == world'.index[a].name
  <1>1. Loaded(world')
    BY LoadOutcome DEF FileInv, FilesInv, R!Restart
  <1>2. /\ world.data = networks /\ Coherent(world) /\ KnownAbis(world, networks, abis)
    BY DEF FileInv, AgreeInv, WorldInv, R!Idle, TargetNetworks, TargetAbis
  <1>3. /\ entry = <<entry[1], name>> /\ name \in R!Known /\ Bound(world.data, name)
        /\ world.data[C(name)] = a
    BY <1>2 DEF Coherent, Directory, R!Shadowed, C
  <1>4. /\ Labelled(world, name, a) /\ a \in DOMAIN world.index /\ old \in R!Known
        /\ Bound(networks, old) /\ networks[C(old)] = a
    BY <1>2, <1>3 DEF Coherent, Labelled
  <1>5. /\ world'.data = networks /\ a \in DOMAIN world'.index /\ new \in R!Known
        /\ Bound(networks, new) /\ networks[C(new)] = a
        /\ world'.index[a].abi = AbiIn(abis, new)
    BY <1>1, <1>2, <1>3 DEF Loaded, Labelled
  <1>6. world.index[a].abi = AbiIn(abis, old)
    BY <1>2, <1>4 DEF KnownAbis
  <1>7. old = new
    <2> SUFFICES ASSUME old # new PROVE FALSE
      OBVIOUS
    <2>1. {old, new} \subseteq Special
      BY <1>2, <1>4, <1>5 DEF Coherent, Directory
    <2>2. "Joetroller" \in R!Known /\ Bound(networks, "Joetroller")
          /\ networks[C("Joetroller")] = a
      BY <1>4, <1>5, <2>1 DEF Special
    <2>3. old = "Joetroller"
      BY <1>2, <2>2 DEF Coherent, Labelled
    <2>4. new = "Joetroller"
      BY <1>1, <2>2 DEF Loaded, Labelled
    <2> QED
      BY <2>3, <2>4
  <1>8. /\ R!Address(world, entry[1], name) = a /\ R!Address(world', entry[1], name) = a
        /\ R!Knows(world', entry[1], name)
    BY <1>2, <1>3, <1>5 DEF R!Address, R!Knows
  <1> QED
    BY <1>5, <1>6, <1>7, <1>8 DEF R!Resolves, R!Lookup, R!Contract

LEMMA OnlyRestartsCount ==
    R!Next => R!Restart \/ restarts' = restarts
BY DEF R!Next, R!Deploy, R!Become, R!MergeABI, R!WriteNetworks, R!WriteABIs, R!LineSucceeds,
       R!LineFails

LEMMA DryRunTouchesNothing ==
    ASSUME FileInv, R!Next, dryRun
    PROVE  UNCHANGED <<code, impl, networks, abis>>
PROOF
  <1>1. writes = R!NoWrites
    BY DEF FileInv, WritesInv
  <1> QED
    BY <1>1 DEF R!Next, R!Deploy, R!Become, R!MergeABI, R!WriteNetworks, R!WriteABIs,
       R!LineSucceeds, R!LineFails, R!Restart, R!chain, R!files

LEMMA RegistryStepForgetsNothing ==
    ASSUME FileInv, [SessionNext]_sessionVars
    PROVE  /\ restarts' # restarts /\ R!Idle /\ ~apart /\ ~dryRun =>
                \A entry \in DOMAIN world.data :
                    R!Resolves(world, entry[1], entry[2]) /\ ~R!Shadowed(entry) =>
                        /\ R!Resolves(world', entry[1], entry[2])
                        /\ R!Lookup(world', entry[1], entry[2])
                             = R!Lookup(world, entry[1], entry[2])
           /\ dryRun => UNCHANGED <<R!chain, R!files>>
PROOF
  <1>1. CASE UNCHANGED fileVars
    BY <1>1 DEF fileVars, R!chain, R!files
  <1>2. CASE R!Next
    <2>1. dryRun => UNCHANGED <<R!chain, R!files>>
      BY <1>2, DryRunTouchesNothing DEF R!chain, R!files
    <2>2. CASE restarts' = restarts
      BY <2>1, <2>2
    <2>3. CASE R!Restart
      BY <2>1, <2>3, RestartKnowsAll
    <2> QED
      BY <1>2, <2>2, <2>3, OnlyRestartsCount
  <1> QED
    BY <1>1, <1>2 DEF SessionNext, AtTheNode, AtTheFiles, sessionVars

\* A session that is started again after a line knows every contract that the last
\* one knew, at the same address and with the same functions, and a dry run leaves
\* nothing for it to find (loadContracts, storeAndSaveContract, mergeContractABI).
THEOREM RestartTheorem == SessionSpec => RestartForgetsNothing
PROOF
  <1> DEFINE Knows ==
               restarts' # restarts /\ R!Idle /\ ~apart /\ ~dryRun =>
                 \A entry \in DOMAIN world.data :
                     R!Resolves(world, entry[1], entry[2]) /\ ~R!Shadowed(entry) =>
                         /\ R!Resolves(world', entry[1], entry[2])
                         /\ R!Lookup(world', entry[1], entry[2])
                              = R!Lookup(world, entry[1], entry[2])
             Traceless == dryRun => UNCHANGED <<R!chain, R!files>>
  <1>1. FileInv /\ [SessionNext]_sessionVars => [Knows]_(R!vars) /\ [Traceless]_(R!vars)
    BY RegistryStepForgetsNothing
  <1>2. SessionSpec => [][Knows]_(R!vars) /\ [][Traceless]_(R!vars)
    BY <1>1, FileInvIsInvariant, PTL DEF SessionSpec
  <1> QED
    BY <1>2 DEF RestartForgetsNothing, R!RestartForgetsNothing, R!DryRunLeavesNoTrace

================================================================================
