----------------------------- MODULE StateCodec -----------------------------
(***************************************************************************)
(* How the contract state, the slots and the balances are written to the   *)
(* state keys, as strings of bytes, and read back by later calls           *)
(* (contract/mapping/utils.go and init.go).  The widths are parameters: a  *)
(* byte has Base values, an int64 has Int64Len bytes, a uint32 Uint32Len   *)
(* and a transaction id IdLen, which is itself taken as its bytes.         *)
(***************************************************************************)
EXTENDS Integers, Sequences

CONSTANTS
    Base, Int64Len, Uint32Len, IdLen,
    ConfirmedStart,     \* constants.UtxoConfirmedPoolStart
    ContractStates,     \* contract states that calls save
    FeeRates,           \* fee rates that addBlocks saves
    Ids,                \* slots
    Utxos,              \* outputs that are saved in a slot
    Balances,           \* balances an account comes to have
    Nil,                \* the tag nil
    Error               \* what a decoder returns that rejects its input

VARIABLES
    kv,     \* the state keys; a key that is absent reads as no bytes
    last    \* history variable: what the calls meant to keep

vars == <<kv, last>>

Keys == {<<"r">>, <<"i">>, <<"p">>, <<"s">>, <<"a">>} \cup {<<"u", id>> : id \in Ids}
Byte == 0..(Base - 1)

----------------------------------------------------------------------------
\* binary.BigEndian and the conversions around it.

\* n shifted to the right by up to width bytes.
Shifts(n, width) ==
    LET shift[j \in 0..width] == IF j = 0 THEN n ELSE shift[j - 1] \div Base
    IN  shift

\* How many numbers so many bytes can hold.
Power(width) ==
    LET power[j \in 0..width] == IF j = 0 THEN 1 ELSE power[j - 1] * Base
    IN  power[width]

\* Mutant of PutUint: the higher bits are not cut off.
PutUintUncut(n, width) == [k \in 1..width |-> Shifts(n, width)[width - k]]

PutUint(n, width) == [k \in 1..width |-> Shifts(n, width)[width - k] % Base]

Uint(bytes) ==
    LET read[k \in 0..Len(bytes)] ==
            IF k = 0 THEN 0 ELSE read[k - 1] * Base + bytes[k]
    IN  read[Len(bytes)]

Int64s == {n \in Int : 0 - Power(Int64Len) <= 2 * n /\ 2 * n < Power(Int64Len)}

\* The conversions between int64 and uint64 keep the bits.
Int64(n) == IF 2 * n >= Power(Int64Len) THEN n - Power(Int64Len) ELSE n

PutInt64(n) == PutUint(n % Power(Int64Len), Int64Len)

GetInt64(bytes, offset) == Int64(Uint(SubSeq(bytes, offset + 1, offset + Int64Len)))

----------------------------------------------------------------------------
\* The contract state.

\* Entries of one width, each copied to its place in the buffer.
Packed(entries, width) ==
    [p \in 1..(Len(entries) * width) |->
        entries[((p - 1) \div width) + 1][((p - 1) % width) + 1]]

MarshalUtxoRegistry(r) ==
    Packed([k \in 1..Len(r) |-> <<r[k].id>> \o PutInt64(r[k].amount)], 1 + Int64Len)

UnmarshalUtxoRegistry(data) ==
    LET width == 1 + Int64Len
    IN  IF Len(data) % width # 0 THEN Error
        ELSE [k \in 1..(Len(data) \div width) |->
                 [id     |-> data[(k - 1) * width + 1],
                  amount |-> GetInt64(data, (k - 1) * width + 1)]]

MarshalTxSpendsRegistry(ts) == Packed(ts, IdLen)

UnmarshalTxSpendsRegistry(data) ==
    IF Len(data) % IdLen # 0 THEN Error
    ELSE [k \in 1..(Len(data) \div IdLen) |->
             SubSeq(data, (k - 1) * IdLen + 1, k * IdLen)]

MarshalSupply(s) ==
    PutInt64(s.active) \o PutInt64(s.user) \o PutInt64(s.fee) \o PutInt64(s.baseFeeRate)

UnmarshalSupply(data) ==
    IF Len(data) # 4 * Int64Len THEN Error
    ELSE [active |-> GetInt64(data, 0), user |-> GetInt64(data, Int64Len),
          fee |-> GetInt64(data, 2 * Int64Len),
          baseFeeRate |-> GetInt64(data, 3 * Int64Len)]

NoSupply == [active |-> 0, user |-> 0, fee |-> 0, baseFeeRate |-> 0]

SupplyFromState ==
    IF kv[<<"s">>] = <<>> THEN NoSupply ELSE UnmarshalSupply(kv[<<"s">>])

\* What a call has in memory once it has loaded the state.
IntializeContractState ==
    [registry    |-> UnmarshalUtxoRegistry(kv[<<"r">>]),
     confirmed   |-> IF Len(kv[<<"i">>]) = 2 THEN kv[<<"i">>][1] ELSE ConfirmedStart,
     unconfirmed |-> IF Len(kv[<<"i">>]) = 2 THEN kv[<<"i">>][2] ELSE 0,
     spends      |-> UnmarshalTxSpendsRegistry(kv[<<"p">>]),
     supply      |-> SupplyFromState]

----------------------------------------------------------------------------
\* Slots.

\* The lengths are written as single bytes.
MarshalUtxo(u) ==
    LET tag == IF u.tag = Nil THEN <<>> ELSE u.tag
    IN  u.txid \o PutUint(u.vout, Uint32Len) \o PutInt64(u.amount)
            \o <<Len(u.pkScript) % Base>> \o u.pkScript
            \o <<Len(tag) % Base>> \o tag

UnmarshalUtxo(data) ==
    LET fixed == IdLen + Uint32Len + Int64Len
        pkLen == data[fixed + 1]
        tagLen == data[fixed + 1 + pkLen + 1]
        tagAt == fixed + 1 + pkLen + 1
    IN  IF \/ Len(data) < fixed + 2
           \/ fixed + 1 + pkLen >= Len(data)
           \/ tagAt + tagLen > Len(data)
        THEN Error
        ELSE [txid     |-> SubSeq(data, 1, IdLen),
              vout     |-> Uint(SubSeq(data, IdLen + 1, IdLen + Uint32Len)),
              amount   |-> GetInt64(data, IdLen + Uint32Len),
              pkScript |-> SubSeq(data, fixed + 2, fixed + 1 + pkLen),
              tag      |-> SubSeq(data, tagAt + 1, tagAt + tagLen)]

LoadUtxo(id) ==
    IF kv[<<"u", id>>] = <<>> THEN Error ELSE UnmarshalUtxo(kv[<<"u", id>>])

----------------------------------------------------------------------------
\* Balances: the bytes from the first that is not zero on.

\* Mutant of Significant: the number of bytes is rounded down.
SignificantFloor(n) ==
    CHOOSE k \in 0..(Int64Len - 1) :
        /\ Shifts(n, Int64Len)[k + 1] = 0
        /\ k = 0 \/ Shifts(n, Int64Len)[k] # 0

\* How many bytes a positive number needs.
Significant(n) ==
    CHOOSE k \in 1..Int64Len :
        Shifts(n, Int64Len)[k] = 0 /\ Shifts(n, Int64Len)[k - 1] # 0

Compact(n) == SubSeq(PutInt64(n), Int64Len - Significant(n) + 1, Int64Len)

GetAccBal ==
    LET zeros == [k \in 1..(Int64Len - Len(kv[<<"a">>])) |-> 0]
    IN  IF kv[<<"a">>] = <<>> THEN 0 ELSE GetInt64(zeros \o kv[<<"a">>], 0)

----------------------------------------------------------------------------

\* What the types of the code can hold, and scripts and tags whose length a
\* byte can.
States ==
    [registry    : Seq([id : Byte, amount : Int64s]),
     confirmed   : Byte,
     unconfirmed : Byte,
     spends      : Seq([1..IdLen -> Byte]),
     supply      : [active : Int64s, user : Int64s, fee : Int64s, baseFeeRate : Int64s]]

ShortBytes == {bytes \in Seq(Byte) : Len(bytes) < Base}

Outputs ==
    [txid : [1..IdLen -> Byte], vout : 0..(Power(Uint32Len) - 1), amount : Int64s,
     pkScript : ShortBytes, tag : ShortBytes \cup {Nil}]

StateCodecAssumption ==
    /\ Base \in Nat \ {0, 1}
    /\ {Int64Len, Uint32Len, IdLen} \subseteq Nat \ {0}
    /\ ConfirmedStart \in Byte
    /\ ContractStates \subseteq States /\ FeeRates \subseteq Int64s
    /\ Utxos \subseteq Outputs /\ Error \notin Utxos
    /\ Balances \subseteq Int64s \cap Nat

----------------------------------------------------------------------------

Init ==
    /\ kv = [k \in Keys |-> <<>>]
    /\ last = [state    |-> [registry |-> <<>>, confirmed |-> ConfirmedStart,
                            unconfirmed |-> 0, spends |-> <<>>,
                            supply |-> NoSupply],
               utxos    |-> [id \in Ids |-> Error],
               balance  |-> 0]

\* The end of map and of unmap.
SaveToState(cs) ==
    /\ kv' = [kv EXCEPT ![<<"r">>] = MarshalUtxoRegistry(cs.registry),
                        ![<<"i">>] = <<cs.confirmed, cs.unconfirmed>>,
                        ![<<"p">>] = MarshalTxSpendsRegistry(cs.spends),
                        ![<<"s">>] = MarshalSupply(cs.supply)]
    /\ last' = [last EXCEPT !.state = cs]

\* addBlocks reads the supply and writes it with another fee rate.
SaveSupplyToState(rate) ==
    LET supply == [SupplyFromState EXCEPT !.baseFeeRate = rate]
    IN  /\ kv' = [kv EXCEPT ![<<"s">>] = MarshalSupply(supply)]
        /\ last' = [last EXCEPT !.state.supply.baseFeeRate = rate]

SaveUtxo(id, u) ==
    /\ kv' = [kv EXCEPT ![<<"u", id>>] = MarshalUtxo(u)]
    /\ last' = [last EXCEPT !.utxos[id] = u]

DeleteUtxo(id) ==
    /\ kv' = [kv EXCEPT ![<<"u", id>>] = <<>>]
    /\ last' = [last EXCEPT !.utxos[id] = Error]

SetAccBal(balance) ==
    /\ kv' = [kv EXCEPT ![<<"a">>] = IF balance = 0 THEN <<>> ELSE Compact(balance)]
    /\ last' = [last EXCEPT !.balance = balance]

Next ==
    \/ \E cs \in ContractStates : SaveToState(cs)
    \/ \E rate \in FeeRates : SaveSupplyToState(rate)
    \/ \E id \in Ids : DeleteUtxo(id) \/ \E u \in Utxos : SaveUtxo(id, u)
    \/ \E balance \in Balances : SetAccBal(balance)

Spec == Init /\ [][Next]_vars

----------------------------------------------------------------------------

TypeOK == kv \in [Keys -> Seq(Byte)]

\* A call that loads the contract state has what the last one kept, whether it
\* saved all of it or the supply alone: negative supplies, empty lists and
\* numbers at the ends of their range included.
StateComesBack == IntializeContractState = last.state

\* A slot reads as the output that was saved in it last, with scripts and tags
\* of any length a byte can hold, save that the tag nil reads as an empty one.
UtxosComeBack ==
    \A id \in Ids :
        LoadUtxo(id) = IF last.utxos[id] # Error /\ last.utxos[id].tag = Nil
                       THEN [last.utxos[id] EXCEPT !.tag = <<>>]
                       ELSE last.utxos[id]

\* A balance reads as it was set: of its bytes only leading zeros are dropped.
BalanceComesBack == GetAccBal = last.balance

=============================================================================
