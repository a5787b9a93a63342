------------------------------- MODULE Registry -------------------------------
(***************************************************************************)
(* What the scenario runner knows about the contracts it deployed: in       *)
(* memory (contractData and contractIndex of the world) and in two files of *)
(* the network, the addresses by name and the interfaces by name            *)
(* (src/scenario/src/Networks.ts, Contract.ts, ContractLookup.ts). A save   *)
(* writes the one file and then the other. A line of the session may fail   *)
(* after its files are written, and the session may end at any moment and   *)
(* be started again from the files. Transactions and the files' contents on *)
(* disk are external.                                                       *)
(***************************************************************************)
EXTENDS Naturals, FiniteSets, Sequences, SequencesExt

CONSTANTS
    Names,      \* names that implementations, tokens and markets get
    Functions,  \* the functions of each class of contract
    MaxDeploys, \* bound on the contracts deployed
    MaxRestarts \* bound on the restarts

Classes == DOMAIN Functions
Implementations == Classes \ {"Unitroller", "Token", "Market"}
\* The tables of contractData in which a contract is entered under its name;
\* all classes share the table "Contracts".
TablesOf(class) ==
    CASE class = "Unitroller" -> {"Contracts"}
      [] class = "Token" -> {"Contracts", "Tokens"}
      [] class = "Market" -> {"Contracts", "jTokens", "Tokens"}
      [] OTHER -> {"Contracts", "Joetroller"}

VARIABLES
    code, impl,          \* chain: class of each address, class a Unitroller delegates to
    networks, abis,      \* files: address by <<table, name>>, interface by name
    dryRun,
    world,               \* what this session knows
    next,                \* what it will know when the line at hand succeeds
    writes,              \* the files still to be written for that line
    torn, unmerged,      \* names half saved, Unitrollers whose new implementation is not merged
    apart, restarts      \* a line failed after it had written its files
chain == <<code, impl>>
files == <<networks, abis>>
ghosts == <<torn, unmerged, apart>>
vars == <<chain, files, dryRun, world, next, writes, ghosts, restarts>>

Empty == << >>
\* The map f, with value under each of the keys.
Put(f, keys, value) ==
    [k \in DOMAIN f \cup keys |-> IF k \in keys THEN value ELSE f[k]]
NoWrites == << >>
NewWorld == [data |-> Empty, index |-> Empty]

\* A lookup goes from a name to an address to the contract at that address.
Knows(w, table, name) == <<table, name>> \in DOMAIN w.data
Address(w, table, name) == w.data[<<table, name>>]
Contract(w, table, name) == w.index[Address(w, table, name)]
Resolves(w, table, name) ==
    Knows(w, table, name) /\ Address(w, table, name) \in DOMAIN w.index
Lookup(w, table, name) == <<Address(w, table, name), Contract(w, table, name).abi>>

(* Mutant of LoadOrder: the Unitroller's own name comes last. *)
LoadOrderUnitrollerLast == SetToSeq(Names) \o <<"Joetroller", "Unitroller">>

\* Loading makes a contract of every name in "Contracts", one without functions
\* when its interface is missing. Unitroller comes before Joetroller, so that of
\* two names of one address the last one stays.
LoadOrder == <<"Unitroller", "Joetroller">> \o SetToSeq(Names)
Load ==
    LET loaded == {i \in DOMAIN LoadOrder : <<"Contracts", LoadOrder[i]>> \in DOMAIN networks}
        AddressAt(i) == networks[<<"Contracts", LoadOrder[i]>>]
        Latest(a) == LoadOrder[CHOOSE i \in loaded :
                       AddressAt(i) = a /\ \A k \in loaded : AddressAt(k) = a => k <= i]
        AbiOf(name) == IF name \in DOMAIN abis THEN abis[name] ELSE {}
    IN  [data |-> networks,
         index |-> [a \in {AddressAt(i) : i \in loaded} |->
                        [name |-> Latest(a), abi |-> AbiOf(Latest(a))]]]

Init ==
    /\ code = Empty /\ impl = Empty /\ networks = Empty /\ abis = Empty
    /\ dryRun \in BOOLEAN /\ world = NewWorld /\ next = NewWorld /\ writes = NoWrites
    /\ torn = {} /\ unmerged = {} /\ apart = FALSE /\ restarts = 0

Idle == writes = NoWrites /\ next = world

-----------------------------------------------------------------------------
\* storeAndSaveContract and mergeContractABI: the entries for data and index, and
\* the two files to write, computed from what the files hold now. A save is
\* sound when the interfaces it starts from are those of their names; it adopts an
\* implementation of the Unitroller when the implementation's name is still its own.
Save(name, tables, address, abi, sound, adopts) ==
    LET entries == tables \X {name}
    IN  /\ next' = [data  |-> Put(world.data, entries, address),
                    index |-> Put(world.index, {address}, [name |-> name, abi |-> abi])]
        /\ writes' = IF dryRun THEN NoWrites
                     ELSE [name |-> name, networks |-> Put(networks, entries, address),
                           abis |-> Put(abis, {name}, abi), sound |-> sound, adopts |-> adopts]

Addresses == DOMAIN world.index \cup DOMAIN code
Deploy(class, name) ==
    /\ Idle /\ Cardinality(Addresses) < MaxDeploys
    /\ LET address == CHOOSE a \in 1..MaxDeploys : a \notin Addresses
       IN  /\ Save(name, TablesOf(class), address, Functions[class], TRUE, {})
           /\ code' = IF dryRun THEN code ELSE Put(code, {address}, class)
    /\ UNCHANGED <<impl, files, dryRun, world, ghosts, restarts>>

(* Mutant of Merge: the functions of the implementation are left out. *)
MergeUnitrollerOnly(unitroller, implementation) ==
    LET a == world.index[unitroller].name
        b == world.index[implementation].name
    IN  /\ {a, b} \subseteq DOMAIN abis
        /\ Save("Joetroller", {"Contracts"}, unitroller,
                abis[a], {a, b} \cap torn = {},
                IF apart \/ networks[<<"Contracts", b>>] # implementation THEN {}
                ELSE {<<unitroller, code[implementation]>>})

\* The interfaces to merge are found in the file under the names that the two
\* contracts carry; the merged one goes by the name Joetroller, and its contract
\* takes the place of the Unitroller's.
Merge(unitroller, implementation) ==
    LET a == world.index[unitroller].name
        b == world.index[implementation].name
    IN  /\ {a, b} \subseteq DOMAIN abis
        /\ Save("Joetroller", {"Contracts"}, unitroller,
                abis[a] \cup abis[b], {a, b} \cap torn = {},
                IF apart \/ networks[<<"Contracts", b>>] # implementation THEN {}
                ELSE {<<unitroller, code[implementation]>>})
CanMerge(unitroller, implementation) ==
    {world.index[unitroller].name, world.index[implementation].name} \subseteq DOMAIN abis

Unitroller == Address(world, "Contracts", "Unitroller")
Implementation(name) == Address(world, "Joetroller", name)
Resolved(name) ==
    Resolves(world, "Contracts", "Unitroller") /\ Resolves(world, "Joetroller", name)

\* The transaction may fail; the interfaces are merged all the same, unless one
\* is missing, which fails the line. Nothing is sent or merged on a dry run.
Become(name) ==
    /\ Idle /\ Resolved(name) /\ ~dryRun
    /\ \/ /\ impl' = Put(impl, {Unitroller}, code[Implementation(name)])
          /\ unmerged' = unmerged \cup {Unitroller}
       \/ UNCHANGED <<impl, unmerged>>
    /\ IF CanMerge(Unitroller, Implementation(name))
       THEN Merge(Unitroller, Implementation(name)) ELSE UNCHANGED <<next, writes>>
    /\ UNCHANGED <<code, files, dryRun, world, torn, apart, restarts>>

MergeABI(name) ==
    /\ Idle /\ Resolved(name) /\ ~dryRun /\ Merge(Unitroller, Implementation(name))
    /\ UNCHANGED <<chain, files, dryRun, world, ghosts, restarts>>

-----------------------------------------------------------------------------
\* The file of addresses is written first. After a line that failed, the session
\* may carry an older name than the file, and merge without what was merged then.
WriteNetworks ==
    /\ writes # NoWrites /\ networks # writes.networks
    /\ networks' = writes.networks /\ torn' = torn \cup {writes.name}
    /\ UNCHANGED <<chain, abis, dryRun, world, next, writes, unmerged, apart, restarts>>
WriteABIs ==
    /\ writes # NoWrites /\ networks = writes.networks
    /\ abis' = writes.abis /\ writes' = NoWrites
    /\ torn' = IF writes.sound THEN torn \ {writes.name} ELSE torn \cup {writes.name}
    /\ unmerged' = IF apart /\ writes.name = "Joetroller" THEN DOMAIN impl
                   ELSE unmerged \ {u \in DOMAIN impl : <<u, impl[u]>> \in writes.adopts}
    /\ UNCHANGED <<chain, networks, dryRun, world, next, apart, restarts>>

\* The world of the line becomes that of the session, or the line fails on a
\* check or on a later event and the world stays what it was.
LineSucceeds ==
    /\ writes = NoWrites /\ next # world /\ world' = next
    /\ UNCHANGED <<chain, files, dryRun, next, writes, ghosts, restarts>>
LineFails ==
    /\ writes = NoWrites /\ next # world /\ next' = world /\ apart' = (apart \/ ~dryRun)
    /\ UNCHANGED <<chain, files, dryRun, world, writes, torn, unmerged, restarts>>

\* The session ends, at any moment, and another one loads the files.
Restart ==
    /\ restarts < MaxRestarts /\ restarts' = restarts + 1
    /\ world' = Load /\ next' = Load /\ writes' = NoWrites
    /\ dryRun' \in BOOLEAN /\ apart' = FALSE
    /\ UNCHANGED <<chain, files, torn, unmerged>>

Next ==
    \/ Deploy("Unitroller", "Unitroller")
    \/ \E name \in Names :
           \/ \E class \in Classes \ {"Unitroller"} : Deploy(class, name)
           \/ Become(name) \/ MergeABI(name)
    \/ WriteNetworks \/ WriteABIs \/ LineSucceeds \/ LineFails \/ Restart
Spec == Init /\ [][Next]_vars

-----------------------------------------------------------------------------
Known == {"Unitroller", "Joetroller"} \cup Names
TypeOK ==
    /\ DOMAIN code \subseteq 1..MaxDeploys /\ DOMAIN impl \subseteq DOMAIN code
    /\ DOMAIN abis \cup torn \subseteq Known /\ unmerged \subseteq DOMAIN impl
    /\ \A entry \in DOMAIN networks : networks[entry] \in DOMAIN code
    /\ \A w \in {world, next} : \A a \in DOMAIN w.index : w.index[a].name \in Known

\* The interface that the file holds under a name has the functions of the
\* contract whose address the other file holds under that name, except for a name
\* whose save was cut short and was not repeated since.
FilesFitTheChain ==
    \A name \in Known \ torn :
        <<"Contracts", name>> \in DOMAIN networks /\ writes = NoWrites =>
            name \in DOMAIN abis /\ Functions[code[networks[<<"Contracts", name>>]]] \subseteq abis[name]

\* Once the interfaces were merged for the implementation that a Unitroller has,
\* the Joetroller of the session has the functions of both, in every session.
ImplementationIsKnown ==
    Idle /\ ~apart /\ torn = {} /\ Resolves(world, "Contracts", "Joetroller") =>
        LET u == Address(world, "Contracts", "Joetroller")
        IN  u \in DOMAIN impl \ unmerged =>
                Functions["Unitroller"] \cup Functions[impl[u]]
                    \subseteq Contract(world, "Contracts", "Joetroller").abi

\* A session that is started between two lines knows the contracts that the last
\* one knew under their names, with the same functions. It does not know one
\* whose name went to a contract of another kind.
Shadowed(entry) == world.data[entry] # world.data[<<"Contracts", entry[2]>>]
RestartForgetsNothing ==
    [][restarts' # restarts /\ Idle /\ ~apart /\ ~dryRun =>
           \A entry \in DOMAIN world.data :
               Resolves(world, entry[1], entry[2]) /\ ~Shadowed(entry) =>
                   /\ Resolves(world', entry[1], entry[2])
                   /\ Lookup(world', entry[1], entry[2]) = Lookup(world, entry[1], entry[2])]_vars

\* A dry run leaves no trace on the chain or in the files.
DryRunLeavesNoTrace == [][dryRun => UNCHANGED <<chain, files>>]_vars
===============================================================================
