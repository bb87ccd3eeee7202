---------------------------- MODULE MCParts ---------------------------------
(***************************************************************************)
(* One instance for Parts and for one part more, JSON.                     *)
(***************************************************************************)
EXTENDS Parts, TLC

----------------------------------------------------------------------------
\* Intents: two users, a contract between them and the bridge, an account
\* nothing can be transferred to, and lists of intents in which the first and
\* the last that count differ.

CONSTANTS alice, bob, dex, nobody, token

Limit(for, value, points) == [for |-> for, value |-> value, points |-> points]

MCIntentLists ==
    { <<>>,
      <<Limit(token, 5, 0)>>,
      <<Limit(token, 5, 0), Limit(Bridge, 1, 0), Limit(Bridge, 3, 0)>>,
      <<Limit(Bridge, 3, 1)>>,
      <<Limit(Bridge, 3, 2)>> }

MCOpening == (alice :> 4) @@ (dex :> 3) @@ (bob :> 1) @@ (nobody :> 1)

----------------------------------------------------------------------------
\* Witness scripts: every tag, every witness of up to three elements, ages on
\* either side of the delay.

CONSTANTS primarySig, backupSig, noSig

MCBySignerOf(key) ==
    CASE key = Primary -> primarySig
      [] key = Backup -> backupSig
      [] OTHER -> noSig

----------------------------------------------------------------------------
\* Merkle proofs: blocks of up to six transactions, whose trees have an odd
\* level at two heights, or one above an even level, and proofs as long as they
\* are high.

CONSTANTS a, b, c, d, e, f

MCOrder == <<a, b, c, d, e, f>>

----------------------------------------------------------------------------
\* Instructions: deposits, swaps to both networks and to one that is unknown,
\* with and without an asset, both keys and none, addresses of every kind.

CONSTANTS Hive, Did, OtherDid, Bitcoin, Hbd, Rune

Query(deposit, swap, network, asset) ==
    [deposit_to |-> deposit, swap_to |-> swap,
     swap_network_out |-> network, swap_asset_out |-> asset]

MCQueries ==
    {Query(to, Absent, "", Absent) : to \in {Hive, OtherDid, Bitcoin}}
    \cup {Query(Absent, to, network, Hbd) :
             to \in {Did, Bitcoin}, network \in {"", "BTC", "eth"}}
    \cup {Query(Absent, Hive, "magi", Rune), Query(Absent, Hive, "", Absent),
          Query(Hive, Bitcoin, "btc", Rune), Query(Absent, Absent, "btc", Hbd)}

MCToLower ==
    [n \in {"", "BTC", "btc", "magi", "eth"} |-> IF n = "BTC" THEN "btc" ELSE n]

----------------------------------------------------------------------------
\* State codecs: four values to a byte, three bytes to an int64, and numbers
\* at the ends of every width.

Entries == [id : {0, 3}, amount : {-32, -1, 0, 15, 16, 31}]

Supply(active) == [active |-> active, user |-> 31, fee |-> 16, baseFeeRate |-> 1]

SavedStates ==
    [registry : {<<>>} \cup {<<entry>> : entry \in Entries}
                    \cup {<<[id |-> 0, amount |-> -1], [id |-> 3, amount |-> 16]>>},
     confirmed : {3}, unconfirmed : {0},
     spends : {<<>>, <<<<0, 0>>, <<3, 1>>>>},
     supply : {Supply(-32), Supply(15)}]

SavedUtxos ==
    [txid : {<<3, 0>>}, vout : {15}, amount : {1, 20},
     pkScript : {<<>>, <<3, 0, 1>>}, tag : {NilTag, <<>>, <<0, 3, 3>>}]

----------------------------------------------------------------------------
\* JSON: integer types of a few values, numbers on either side of their ends,
\* and documents of two or three members.

VARIABLES kind, input, out

LongStructs == {"DexInstruction", "Env", "PoolInfo", "VerificationRequest"}
ShortStructs ==
    {"MapParams", "TransferParams", "RegisterKeyParams", "RouterContract",
     "SeedBlocksParams", "AddBlocksParams", "ReturnAddress", "SwapResult",
     "AccountInfo", "Intent", "Sender", "ContractCallOptions"}

Json ==
    INSTANCE JsonInput WITH
        Texts <- {"", "a"}, Numbers <- {-3, -1, 0, 1, 2},
        Uint32 <- 0..1, Uint64 <- 0..2, Int64 <- -2..1,
        MaxMembers <- [k \in LongStructs \cup ShortStructs |->
                          IF k \in LongStructs THEN 2 ELSE 3]

ASSUME JsonInstance == Json!JsonAssumption

JsonIdle == kind = idle /\ input = idle /\ out = idle

----------------------------------------------------------------------------

jsonVars == <<kind, input, out>>

PartsIdle ==
    /\ RegistrationIdle /\ IntentsIdle /\ WitnessIdle /\ MerkleIdle /\ ParsingIdle
    /\ CodecIdle /\ tx = idle /\ verdict = idle

MCInit ==
    \/ PartsInit /\ JsonIdle
    \/ part = "json" /\ Json!Init /\ PartsIdle

MCNext ==
    \/ PartsNext /\ UNCHANGED jsonVars
    \/ part = "json" /\ Json!NextMember /\ UNCHANGED partsVars

MCSpec == MCInit /\ [][MCNext]_<<partsVars, jsonVars>>

----------------------------------------------------------------------------
\* A struct has its types, integers their width, and is what its document says
\* key by key; the last value counts.
LastMembersDecide == part = "json" => Json!TypeOK /\ Json!LastMembersDecide

\* A struct that is written and read again comes back.
StructsComeBack == part = "json" => Json!StructsComeBack

=============================================================================
