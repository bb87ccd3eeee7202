------------------------------- MODULE Parts --------------------------------
(***************************************************************************)
(* Parts of the contract whose models share no state: registration,        *)
(* intents, witness scripts, Merkle proofs, instructions and the codecs of *)
(* the state.  A behaviour runs one of them, which the variable part says; *)
(* the variables of the others stay idle.                                  *)
(***************************************************************************)
EXTENDS Registration, Sequences

CONSTANTS   \* of IntentSpending
    Users, Contracts, Unreachable, Bridge, Limited, IntentLists, Amounts,
    Opening, MaxInt64, MaxCalls, Unnamed, NoTx

CONSTANTS   \* of WitnessScript
    Mainnet, Hashes, NilTag, Ages, MaxWitness, Primary, Backup, BySignerOf(_),
    Delay, NoBytes, One

CONSTANTS   \* of MerkleProof
    Order, Foreign, MaxProof, Indices

CONSTANTS   \* of Instructions
    Queries, BadQuery, Absent, Prefixed, BtcAddresses, ToLower, MaxInstructions

CONSTANTS   \* of StateCodec
    Base, Int64Len, Uint32Len, IdLen, ConfirmedStart, ContractStates, FeeRates,
    Ids, Utxos, Balances, Error

CONSTANT idle   \* the value of a variable whose part does not run

VARIABLES
    part,
    balances, ephemeral, calls, call, withdrawn,                \* IntentSpending
    tag, witness, age, pc, stack, branch,                       \* WitnessScript
    block, stored, txIndex, proof, currentHash, index, turn,    \* MerkleProof
    tx, verdict,    \* of two parts: a transaction, the end of an execution
    instrs, parsed, cells, registry, hasRouter, paid, effects, aborted, \* Instructions
    kv, last                                                    \* StateCodec

Intents == INSTANCE IntentSpending WITH Others <- Limited
Witness == INSTANCE WitnessScript
           WITH Instructions <- Hashes, Nil <- NilTag, Empty <- NoBytes
Merkle == INSTANCE MerkleProof WITH i <- turn
Parsing == INSTANCE Instructions
Codec == INSTANCE StateCodec WITH Nil <- NilTag

ASSUME PartsAssumption ==
    /\ Intents!IntentSpendingAssumption
    /\ Witness!WitnessScriptAssumption
    /\ Merkle!MerkleProofAssumption
    /\ Parsing!InstructionsAssumption
    /\ Codec!StateCodecAssumption

intentsVars == <<balances, ephemeral, calls, call, withdrawn>>
witnessVars == <<tag, witness, age, pc, stack, branch>>
merkleVars == <<block, stored, txIndex, proof, currentHash, index, turn>>
parsingVars == <<instrs, parsed, cells, registry, hasRouter, paid, effects, aborted>>
codecVars == <<kv, last>>
partsVars == <<part, vars, intentsVars, witnessVars, merkleVars, parsingVars,
               codecVars, tx, verdict>>

\* Registration has no use for an idle value: nothing is registered.
RegistrationIdle ==
    /\ networkMode = CHOOSE mode \in NetworkModes : TRUE
    /\ primary = Nothing /\ backup = Nothing /\ routerId = Nothing
    /\ keyPair = FALSE /\ outputs = [o \in Outpoints |-> Nothing]

IntentsIdle ==
    /\ balances = idle /\ ephemeral = idle /\ calls = idle
    /\ call = idle /\ withdrawn = idle

WitnessIdle ==
    /\ tag = idle /\ witness = idle /\ age = idle
    /\ pc = idle /\ stack = idle /\ branch = idle

MerkleIdle ==
    /\ block = idle /\ stored = idle /\ txIndex = idle /\ proof = idle
    /\ currentHash = idle /\ index = idle /\ turn = idle

ParsingIdle ==
    /\ instrs = idle /\ parsed = idle /\ cells = idle /\ registry = idle
    /\ hasRouter = idle /\ paid = idle /\ effects = idle /\ aborted = idle

CodecIdle == kv = idle /\ last = idle

PartsInit ==
    \/ /\ part = "registration" /\ Init
       /\ IntentsIdle /\ WitnessIdle /\ MerkleIdle /\ ParsingIdle /\ CodecIdle
       /\ tx = idle /\ verdict = idle
    \/ /\ part = "intents" /\ Intents!Init
       /\ RegistrationIdle /\ WitnessIdle /\ MerkleIdle /\ ParsingIdle /\ CodecIdle
       /\ verdict = idle
    \/ /\ part = "witness" /\ Witness!Init
       /\ RegistrationIdle /\ IntentsIdle /\ MerkleIdle /\ ParsingIdle /\ CodecIdle
       /\ tx = idle
    \/ /\ part = "merkle" /\ Merkle!Init
       /\ RegistrationIdle /\ IntentsIdle /\ WitnessIdle /\ ParsingIdle /\ CodecIdle
    \/ /\ part = "parsing" /\ Parsing!Init
       /\ RegistrationIdle /\ IntentsIdle /\ WitnessIdle /\ MerkleIdle /\ CodecIdle
       /\ tx = idle /\ verdict = idle
    \/ /\ part = "codec" /\ Codec!Init
       /\ RegistrationIdle /\ IntentsIdle /\ WitnessIdle /\ MerkleIdle /\ ParsingIdle
       /\ tx = idle /\ verdict = idle

PartsNext ==
    /\ UNCHANGED part
    /\ \/ /\ part = "registration" /\ Next
          /\ UNCHANGED <<intentsVars, witnessVars, merkleVars, parsingVars, codecVars,
                         tx, verdict>>
       \/ /\ part = "intents" /\ Intents!Next
          /\ UNCHANGED <<vars, witnessVars, merkleVars, parsingVars, codecVars, verdict>>
       \/ /\ part = "witness" /\ Witness!Next
          /\ UNCHANGED <<vars, intentsVars, merkleVars, parsingVars, codecVars, tx>>
       \/ /\ part = "merkle" /\ Merkle!Next
          /\ UNCHANGED <<vars, intentsVars, witnessVars, parsingVars, codecVars>>
       \/ /\ part = "parsing" /\ Parsing!Next
          /\ UNCHANGED <<vars, intentsVars, witnessVars, merkleVars, codecVars,
                         tx, verdict>>
       \/ /\ part = "codec" /\ Codec!Next
          /\ UNCHANGED <<vars, intentsVars, witnessVars, merkleVars, parsingVars,
                         tx, verdict>>

PartsSpec == PartsInit /\ [][PartsNext]_partsVars

----------------------------------------------------------------------------
\* The properties, each of the part that runs; those of registration are
\* in its module.

\* The type invariants of the modules: what a balance, a stack, the index of a
\* proof and a byte may hold.
PartsTypeOK ==
    /\ part = "intents" => Intents!TypeOK
    /\ part = "witness" => Witness!TypeOK
    /\ part = "merkle" => Merkle!TypeOK
    /\ part = "codec" => Codec!TypeOK

\* Calls nested in a transaction neither make nor destroy money.
Conserved == part = "intents" => Intents!Conserved

\* What an account loses is covered by an intent it has given itself.
LossesCovered == [][part = "intents" => Intents!LossCovered]_partsVars

\* Only the two keys spend an output, the backup key after the delay.
OnlyKeysSpend == part = "witness" => Witness!OnlyKeysSpend

\* The primary key spends every output that has a tag, the backup key
\* recovers every output after the delay.
KeysSpend == part = "witness" => Witness!KeysSpend

\* The loop of proof.go accepts only members of a block whose header is
\* stored, by the proof of the place that the index names.
Sound == part = "merkle" => Merkle!Sound /\ Merkle!StandsAtIndex

\* The proof of a member of the block is accepted.
Complete == part = "merkle" => Merkle!Complete

\* An output does what the instruction of its own address says.
OutputsFollowTheirInstruction ==
    part = "parsing" => Parsing!OutputsFollowTheirInstruction

\* No output goes to an address of another network than the one it names.
LandsOnItsNetwork == part = "parsing" => Parsing!LandsOnItsNetwork

\* A call loads the contract state the last one kept; a slot reads as it was
\* saved, the tag nil as an empty one, and a balance as it was set.
SavedComesBack ==
    part = "codec" =>
        Codec!StateComesBack /\ Codec!UtxosComeBack /\ Codec!BalanceComesBack

=============================================================================
