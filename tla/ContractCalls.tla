----------------------------- MODULE ContractCalls -----------------------------
(***************************************************************************)
(* The vocabulary of the command tables: the arguments a command declares   *)
(* and the call it makes on a contract.                                     *)
(***************************************************************************)
EXTENDS Expression, Contracts, Functions

Needs(name, type) == Arg(name, type, {})
OrNone(name, type) == Arg(name, type, {"nullable"})
OrDefault(name, type) == Arg(name, type, {"default"})
Each(name, type) == Arg(name, type, {"mapped"})
All(name, type) == Arg(name, type, {"variadic"})
OfWorld(name, type) == Arg(name, type, {"implicit"})

\* A command sends method with the values of params, always, or only if one of
\* its arguments is given, absent, or is a certain word.
SendsIf(command, arg, value, method, params) ==
    [command |-> command, arg |-> arg, value |-> value, method |-> method, params |-> params]
Sends(command, method, params) == SendsIf(command, "", "", method, params)
Given == "given"
Absent == "absent"

\* Whose error codes the command reads out of a failure.
DecodedBy(reporter, calls) ==
    {[command |-> c.command, arg |-> c.arg, value |-> c.value, method |-> c.method,
      params |-> c.params, reporter |-> reporter] : c \in calls}

\* The types of parameter that a value of an argument can be encoded as.
Encodes(arg) ==
    CASE arg.type = "String" -> {"string", "bytes"}
      [] arg.type = "Bool" -> {"bool"}
      [] arg.type \in {"Number", "ExpNumber", "Percent"} ->
             {IF Is(arg, "mapped") THEN "uint[]" ELSE "uint"}
      [] OTHER -> {IF Is(arg, "mapped") THEN "address[]" ELSE "address"}

\* Parameters that are not arguments of the event are literals.
Zero == "0"
Eighteen == "18"
CallData == "call data"
Literal(param) ==
    CASE param \in {Zero, Eighteen} -> Needs(param, "Number")
      [] param = CallData -> Needs(param, "String")

\* The values of parameters: arguments of the command, or literals.
ArgNamed(args, name) ==
    IF \E a \in Range(args) : a.name = name
    THEN CHOOSE a \in Range(args) : a.name = name ELSE Literal(name)
Values(args, params) == [i \in DOMAIN params |-> ArgNamed(args, params[i])]
===============================================================================
