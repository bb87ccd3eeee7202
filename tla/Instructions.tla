---------------------------- MODULE Instructions ----------------------------
(***************************************************************************)
(* From the instructions of a call of map to what it does with the outputs *)
(* that pay their addresses: parseInstructions and getNetwork, the         *)
(* validation of addresses (contract/mapping/networks.go), and the part of *)
(* processUtxos that reads an instruction.                                 *)
(*                                                                         *)
(* An instruction is its decoded query: the first value of each key the    *)
(* code looks at, Absent for a key it lacks.  The address is a hash of the *)
(* instruction and the keys, so the instruction stands for its address.    *)
(***************************************************************************)
EXTENDS Integers, SequencesExt

CONSTANTS
    Queries,            \* instructions that parse
    BadQuery,           \* an instruction that url.ParseQuery rejects
    Absent,
    Prefixed,           \* addresses that start with "hive:" or "did:"
    BtcAddresses,       \* addresses of the Bitcoin network the contract is built for
    ToLower,            \* strings.ToLower on the names of networks
    MaxInstructions     \* bound on the instructions of a call

InstructionsAssumption ==
    /\ BadQuery \notin Queries
    /\ Absent \notin Prefixed \cup BtcAddresses
    /\ Prefixed \cap BtcAddresses = {}
    /\ \A q \in Queries : q.swap_network_out \in DOMAIN ToLower
    /\ MaxInstructions \in Nat \ {0}

VARIABLES
    instrs,         \* the instructions of the call
    parsed,         \* how many are parsed
    cells,          \* the variable params of each turn of the loop
    registry,       \* AddressRegistry
    hasRouter,      \* is a router registered?
    paid,           \* addresses whose output is processed
    effects,        \* credits and calls of the router so far
    aborted

vars == <<instrs, parsed, cells, registry, hasRouter, paid, effects, aborted>>

Vsc == "magi"
Btc == "btc"

ValidateAddress(network, address) ==
    address \in IF network = Btc THEN BtcAddresses ELSE Prefixed

\* Mutant of GetNetwork: names of networks are case-sensitive.
GetNetworkCased(name) == IF name \in {Vsc, Btc} THEN name ELSE Vsc

\* NetworkOptions has two networks; parseInstructions falls back to Vsc.
GetNetwork(name) == IF ToLower[name] \in {Vsc, Btc} THEN ToLower[name] ELSE Vsc

Init ==
    /\ instrs \in BoundedSeq(Queries \cup {BadQuery}, MaxInstructions)
    /\ parsed = 0
    /\ cells = <<>>
    /\ registry = << >>
    /\ hasRouter \in BOOLEAN
    /\ paid = {}
    /\ effects = {}
    /\ aborted = FALSE

Fail ==
    /\ aborted' = TRUE
    /\ effects' = {}
    /\ UNCHANGED <<instrs, parsed, cells, registry, hasRouter, paid>>

\* The metadata of an instruction; its parameters are a reference.
Metadata(q, type) ==
    [recipient |-> IF type = "deposit" THEN q.deposit_to ELSE q.swap_to,
     type |-> type, params |-> parsed + 1]

\* The registry with an entry for the address of q, in place of one it has.
WithEntry(q, metadata) ==
    [address \in DOMAIN registry \cup {q} |->
        IF address = q THEN metadata ELSE registry[address]]

\* Mutant of Register: the loop has one variable for all its turns.
RegisterShared(q, type) ==
    /\ registry' = WithEntry(q, [Metadata(q, type) EXCEPT !.params = 1])
    /\ cells' = <<q>>

Register(q, type) ==
    /\ registry' = WithEntry(q, Metadata(q, type))
    /\ cells' = Append(cells, q)

\* A turn of the loop: the next instruction.
ParseInstruction ==
    /\ ~aborted /\ parsed < Len(instrs)
    /\ LET q == instrs[parsed + 1]
           Parsed == /\ parsed' = parsed + 1
                     /\ UNCHANGED <<instrs, hasRouter, paid, effects, aborted>>
       IN  \/ q = BadQuery /\ Fail
           \/ /\ q # BadQuery /\ q.deposit_to # Absent
              /\ IF ValidateAddress(Vsc, q.deposit_to)
                 THEN Register(q, "deposit") /\ Parsed
                 ELSE Fail
           \/ /\ q # BadQuery /\ q.deposit_to = Absent /\ q.swap_to # Absent
              /\ IF ValidateAddress(GetNetwork(q.swap_network_out), q.swap_to)
                 THEN Register(q, "swap") /\ Parsed
                 ELSE Fail
           \/ /\ q # BadQuery /\ q.deposit_to = Absent /\ q.swap_to = Absent
              /\ cells' = Append(cells, q)
              /\ UNCHANGED registry
              /\ Parsed

(***************************************************************************)
(* An output of the transaction that pays an address of the registry: the  *)
(* balance of the recipient, or of the sender and then a call of the       *)
(* router.  An error takes back what the call did.                         *)
(***************************************************************************)
ProcessUtxo ==
    /\ ~aborted /\ parsed = Len(instrs)
    /\ \E address \in DOMAIN registry \ paid :
          LET metadata == registry[address]
              params == cells[metadata.params]
          IN  IF metadata.type = "swap" /\ (~hasRouter \/ params.swap_asset_out = Absent)
              THEN Fail
              ELSE /\ paid' = paid \cup {address}
                   /\ effects' = effects \cup
                        {[address |-> address, type |-> metadata.type,
                          to |-> metadata.recipient,
                          asset |-> IF metadata.type = "swap" THEN params.swap_asset_out
                                    ELSE Absent]}
                   /\ UNCHANGED <<instrs, parsed, cells, registry, hasRouter, aborted>>

Next == ParseInstruction \/ ProcessUtxo

Spec == Init /\ [][Next]_vars

----------------------------------------------------------------------------
(***************************************************************************)
(* What an output does is what the instruction of its own address says,    *)
(* whatever other instructions the call brings, before it or after it: the *)
(* entries of the registry refer to their own parameters.                  *)
(***************************************************************************)
OutputsFollowTheirInstruction ==
    \A e \in effects :
        IF e.address.deposit_to # Absent
        THEN e = [address |-> e.address, type |-> "deposit",
                  to |-> e.address.deposit_to, asset |-> Absent]
        ELSE e = [address |-> e.address, type |-> "swap",
                  to |-> e.address.swap_to, asset |-> e.address.swap_asset_out]

(***************************************************************************)
(* No output goes to an address of another network than the one that is    *)
(* named: what comes out of a swap to the Bitcoin network, however it is   *)
(* spelled, has a Bitcoin address, everything else one of the VSC.         *)
(***************************************************************************)
LandsOnItsNetwork ==
    \A e \in effects :
        e.to \in IF e.type = "swap" /\ ToLower[e.address.swap_network_out] = Btc
                 THEN BtcAddresses ELSE Prefixed

=============================================================================
