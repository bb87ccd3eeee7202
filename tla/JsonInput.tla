------------------------------ MODULE JsonInput ------------------------------
(***************************************************************************)
(* The generated readers and writers of the structs that cross the         *)
(* contract's boundary as JSON: inputs of the actions, the environment,    *)
(* the options and the instruction of a call to the router, its result.    *)
(*                                                                         *)
(* The generator writes the same reader for every struct, up to the keys   *)
(* and types of its fields.  So there is one reader here, and a struct is  *)
(* the sequence of its fields in the order they are written.  A document   *)
(* comes in member by member, as the loop of the reader takes it.          *)
(*                                                                         *)
(* Values carry their kind: <<"string", s>>, <<"number", n>>, in JSON      *)
(* <<"null">>, <<"array", items>>, <<"object", members>> with members      *)
(* <<key, value>> that may repeat, and in Go <<"nil">>, <<"slice", items>>,*)
(* <<"map", function>>, <<"struct", function>>.                            *)
(***************************************************************************)
EXTENDS Integers, SequencesExt

CONSTANTS
    Texts, Numbers,             \* the strings and numbers of the documents
    Uint32, Uint64, Int64,      \* the ranges of the integer types (int is Int64)
    MaxMembers                  \* bound on the members of a document, by struct

JsonAssumption ==
    /\ 0 \in Uint32 \cap Uint64 \cap Int64
    /\ "" \in Texts

VARIABLES
    kind,       \* the struct that is read
    input,      \* the members read so far
    out         \* the struct as it is now, or Wrong after an error

vars == <<kind, input, out>>

Null == <<"null">>
Nil == <<"nil">>
Wrong == <<"wrong">>

----------------------------------------------------------------------------
\* Types of fields.

String == [kind |-> "string"]
Number(range) == [kind |-> "number", range |-> range]
Pointer(type) == [kind |-> "pointer", to |-> type]
Slice(type) == [kind |-> "slice", of |-> type]
MapOfStrings == [kind |-> "map", emptyIsNil |-> FALSE]
Struct(fields) == [kind |-> "struct", fields |-> fields]

Field(key, type) == [key |-> key, type |-> type, omitempty |-> FALSE]
Optional(key, type) == [key |-> key, type |-> type, omitempty |-> TRUE]

\* The structs.

VerificationRequest == Struct(<<
    Field("block_height", Number(Uint32)), Field("raw_tx_hex", String),
    Field("merkle_proof_hex", String), Field("tx_index", Number(Uint32))>>)

MapParams == Struct(<<
    Field("tx_data", Pointer(VerificationRequest)), Field("instructions", Slice(String))>>)

TransferParams == Struct(<<
    Field("amount", String), Field("to", String), Optional("from", String)>>)

RegisterKeyParams == Struct(<<
    Optional("primary_public_key", String), Optional("backup_public_key", String)>>)

RouterContract == Struct(<<Field("router_contract", String)>>)

SeedBlocksParams == Struct(<<
    Field("block_header", String), Field("block_height", Number(Uint32))>>)

AddBlocksParams == Struct(<<Field("blocks", String), Field("latest_fee", Number(Int64))>>)

ReturnAddress == Struct(<<Field("chain", String), Field("address", String)>>)

DexInstruction == Struct(<<
    Field("type", String), Field("version", String), Field("asset_in", String),
    Field("asset_out", String), Field("recipient", String),
    Optional("slippage_bps", Pointer(Number(Int64))),
    Optional("min_amount_out", Pointer(Number(Int64))),
    Optional("beneficiary", Pointer(String)), Optional("ref_bps", Pointer(Number(Int64))),
    Optional("return_address", Pointer(ReturnAddress)),
    Optional("metadata", [MapOfStrings EXCEPT !.emptyIsNil = TRUE]),
    Field("amount_in", String)>>)

PoolInfo == Struct(<<
    Field("asset0", String), Field("asset1", String), Field("reserve0", String),
    Field("reserve1", String), Field("fee", Number(Uint64)), Field("total_lp", String)>>)

SwapResult == Struct(<<Field("amount_out", String), Field("pool_state", PoolInfo)>>)

AccountInfo == Struct(<<Field("modified_at", Number(Uint64)), Field("address", String)>>)

Intent == Struct(<<Field("type", String), Field("args", MapOfStrings)>>)

Sender == Struct(<<
    Field("id", String), Field("required_auths", Slice(String)),
    Field("required_posting_auths", Slice(String))>>)

Env == Struct(<<
    Field("contract.id", String), Field("tx.id", String), Field("tx.index", Number(Uint64)),
    Field("tx.op_index", Number(Uint64)), Field("block.id", String),
    Field("block.height", Number(Uint64)), Field("block.timestamp", String),
    Field("sender", Sender), Field("msg.caller", String), Field("msg.payer", String),
    Field("intents.caller", Slice(Intent)), Field("intents.sender", Slice(Intent))>>)

ContractCallOptions == Struct(<<Optional("intents", Slice(Intent))>>)

Structs ==
    [VerificationRequest |-> VerificationRequest, MapParams |-> MapParams,
     TransferParams |-> TransferParams, RegisterKeyParams |-> RegisterKeyParams,
     RouterContract |-> RouterContract, SeedBlocksParams |-> SeedBlocksParams,
     AddBlocksParams |-> AddBlocksParams, ReturnAddress |-> ReturnAddress,
     DexInstruction |-> DexInstruction, PoolInfo |-> PoolInfo, SwapResult |-> SwapResult,
     AccountInfo |-> AccountInfo, Intent |-> Intent, Sender |-> Sender, Env |-> Env,
     ContractCallOptions |-> ContractCallOptions]

Keys(struct) == {f.key : f \in Range(struct.fields)}
FieldOf(struct, key) == CHOOSE f \in Range(struct.fields) : f.key = key

----------------------------------------------------------------------------
\* Reading.

\* The value of a variable that nothing was assigned to.
RECURSIVE Zero(_)
Zero(type) ==
    CASE type.kind = "string" -> <<"string", "">>
      [] type.kind = "number" -> <<"number", 0>>
      [] type.kind = "struct" ->
            <<"struct", [k \in Keys(type) |-> Zero(FieldOf(type, k).type)]>>
      [] OTHER -> Nil

\* in.Uint32, in.Uint64, in.Int64 and in.Int.
ReadNumber(range, v) == IF v[1] = "number" /\ v[2] \in range THEN v ELSE Wrong

\* Of members with the same key the last one stands.
ReadMap(emptyIsNil, v) ==
    IF v[1] # "object" \/ \E m \in Range(v[2]) : m[2][1] # "string" THEN Wrong
    ELSE IF v[2] = <<>> /\ emptyIsNil THEN Nil
    ELSE <<"map", FoldLeft(LAMBDA f, m : (m[1] :> m[2]) @@ f, <<>>, v[2])>>

(***************************************************************************)
(* Read is what the variable old becomes when v is read into it, and       *)
(* ReadMember what a struct becomes by one turn of its reader's loop.  A   *)
(* pointer that is set keeps the struct it points to, and a struct the     *)
(* fields that v has no member for; a slice and a map start from nothing.  *)
(***************************************************************************)
RECURSIVE Read(_, _, _), ReadMember(_, _, _)

\* Mutant of ReadMember: null clears the field.
ReadMemberNull(type, got, m) ==
    IF got = Wrong \/ m[1] \notin Keys(type) THEN got
    ELSE LET field == FieldOf(type, m[1]).type
             new == IF m[2] = Null THEN Zero(field) ELSE Read(field, m[2], got[2][m[1]])
         IN  IF new = Wrong THEN Wrong ELSE <<"struct", [got[2] EXCEPT ![m[1]] = new]>>

ReadMember(type, got, m) ==
    IF got = Wrong \/ m[2] = Null \/ m[1] \notin Keys(type) THEN got
    ELSE LET new == Read(FieldOf(type, m[1]).type, m[2], got[2][m[1]])
         IN  IF new = Wrong THEN Wrong ELSE <<"struct", [got[2] EXCEPT ![m[1]] = new]>>

Read(type, v, old) ==
    CASE type.kind = "string" -> IF v[1] = "string" THEN v ELSE Wrong
      [] type.kind = "number" -> ReadNumber(type.range, v)
      [] type.kind = "map" -> ReadMap(type.emptyIsNil, v)
      [] type.kind = "pointer" -> Read(type.to, v, IF old = Nil THEN Zero(type.to) ELSE old)
      [] type.kind = "slice" ->
            IF v[1] # "array" THEN Wrong
            ELSE LET items == [i \in DOMAIN v[2] |-> Read(type.of, v[2][i], Zero(type.of))]
                 IN  IF Wrong \in Range(items) THEN Wrong ELSE <<"slice", items>>
      [] type.kind = "struct" ->
            IF v = Null THEN old
            ELSE IF v[1] # "object" THEN Wrong
            ELSE FoldLeft(LAMBDA got, m : ReadMember(type, got, m), old, v[2])

----------------------------------------------------------------------------
\* Writing.

\* Mutant of Empty: a pointer to a zero is left out as well.
EmptyOrZero(type, v) ==
    \/ v \in {<<"string", "">>, <<"number", 0>>, Nil}
    \/ v[1] \in {"slice", "map"} /\ v[2] = <<>>

\* What a field marked omitempty is left out for.
Empty(type, v) ==
    \/ v = Nil
    \/ type.kind = "string" /\ v = <<"string", "">>
    \/ v[1] \in {"slice", "map"} /\ v[2] = <<>>

\* The members of a map come in any order; here in some order.
RECURSIVE Write(_, _)
Write(type, v) ==
    CASE type.kind \in {"string", "number"} -> v
      [] v = Nil -> Null
      [] type.kind = "pointer" -> Write(type.to, v)
      [] type.kind = "slice" ->
            <<"array", [i \in DOMAIN v[2] |-> Write(type.of, v[2][i])]>>
      [] type.kind = "map" ->
            <<"object", SetToSeq({<<k, v[2][k]>> : k \in DOMAIN v[2]})>>
      [] type.kind = "struct" ->
            LET written == SelectSeq(type.fields, LAMBDA f :
                                ~(f.omitempty /\ Empty(f.type, v[2][f.key])))
            IN  <<"object", [i \in DOMAIN written |->
                    <<written[i].key, Write(written[i].type, v[2][written[i].key])>>]>>

----------------------------------------------------------------------------
(***************************************************************************)
(* The documents: for every field, null, something of another kind, and    *)
(* values of its own kind, those of an object with at most one member.     *)
(***************************************************************************)
RECURSIVE Documents(_)
Documents(type) ==
    CASE type.kind = "string" -> {<<"string", s>> : s \in Texts} \cup {<<"number", 0>>}
      [] type.kind = "number" -> {<<"number", n>> : n \in Numbers} \cup {<<"string", "">>}
      [] type.kind = "pointer" -> Documents(type.to)
      [] type.kind = "slice" ->
            {<<"array", <<>>>>, <<"array", <<Null>>>>, <<"string", "">>}
                \cup {<<"array", <<d>>>> : d \in Documents(type.of)}
      [] type.kind = "map" ->
            {<<"object", <<>>>>, <<"object", <<<<"", <<"number", 0>>>>>>>>}
                \cup {<<"object", <<<<"", <<"string", s>>>>>>>> : s \in Texts}
      [] type.kind = "struct" ->
            {<<"object", <<>>>>, <<"number", 0>>, <<"object", <<<<"unknown", Null>>>>>>}
                \cup UNION {{<<"object", <<<<f.key, d>>>>>> :
                                d \in Documents(f.type) \cup {Null}} : f \in Range(type.fields)}

Members(type) ==
    {<<"unknown", <<"number", 0>>>>}
        \cup UNION {{<<f.key, d>> : d \in Documents(f.type) \cup {Null}} :
                        f \in Range(type.fields)}

Init ==
    /\ kind \in DOMAIN Structs
    /\ input = <<>>
    /\ out = Zero(Structs[kind])

\* Bound: MaxMembers.
NextMember ==
    /\ out # Wrong
    /\ Len(input) < MaxMembers[kind]
    /\ \E m \in Members(Structs[kind]) :
          /\ input' = Append(input, m)
          /\ out' = ReadMember(Structs[kind], out, m)
    /\ UNCHANGED kind

Spec == Init /\ [][NextMember]_vars

----------------------------------------------------------------------------
\* Properties.

RECURSIVE HasType(_, _)
HasType(type, v) ==
    CASE type.kind = "string" -> v[1] = "string"
      [] type.kind = "number" -> v[1] = "number" /\ v[2] \in type.range
      [] type.kind = "pointer" -> v = Nil \/ HasType(type.to, v)
      [] type.kind = "slice" -> v = Nil \/ \A item \in Range(v[2]) : HasType(type.of, item)
      [] type.kind = "map" -> v = Nil \/ \A k \in DOMAIN v[2] : v[2][k][1] = "string"
      [] type.kind = "struct" ->
            /\ DOMAIN v[2] = Keys(type)
            /\ \A f \in Range(type.fields) : HasType(f.type, v[2][f.key])

\* What a reader accepts has the types of the struct, integers their width.
TypeOK == out = Wrong \/ HasType(Structs[kind], out)

\* The non-null values that members give to a key, in their order.
Given(members, key) ==
    LET own == SelectSeq(members, LAMBDA m : m[1] = key /\ m[2] # Null)
    IN  [i \in DOMAIN own |-> own[i][2]]

\* v is of the kind that the type says, all the way down.
RECURSIVE Fits(_, _)
Fits(type, v) ==
    CASE type.kind = "string" -> v[1] = "string"
      [] type.kind = "number" -> v[1] = "number" /\ v[2] \in type.range
      [] type.kind = "pointer" -> Fits(type.to, v)
      [] type.kind = "slice" ->
            v[1] = "array" /\ \A item \in Range(v[2]) : Fits(type.of, item)
      [] type.kind = "map" ->
            v[1] = "object" /\ \A m \in Range(v[2]) : m[2][1] = "string"
      [] type.kind = "struct" ->
            \/ v = Null
            \/ /\ v[1] = "object"
               /\ \A m \in Range(v[2]) :
                     m[1] \in Keys(type) /\ m[2] # Null => Fits(FieldOf(type, m[1]).type, m[2])

\* What a field that is given values, one after the other, should hold.
RECURSIVE Meaning(_, _)
Meaning(type, values) ==
    IF values = <<>> /\ type.kind # "struct" THEN Zero(type)
    ELSE CASE type.kind \in {"string", "number"} -> Last(values)
           [] type.kind = "pointer" -> Meaning(type.to, values)
           [] type.kind = "slice" ->
                <<"slice", [i \in DOMAIN Last(values)[2] |->
                               Meaning(type.of, SelectSeq(<<Last(values)[2][i]>>,
                                                          LAMBDA v : v # Null))]>>
           [] type.kind = "map" ->
                LET last == Last(values)[2]
                IN  IF last = <<>> /\ type.emptyIsNil THEN Nil
                    ELSE <<"map", [k \in {m[1] : m \in Range(last)} |->
                                      Last(Given(last, k))]>>
           [] type.kind = "struct" ->
                LET members == FlattenSeq([i \in DOMAIN values |-> values[i][2]])
                IN  <<"struct", [k \in Keys(type) |->
                                   Meaning(FieldOf(type, k).type, Given(members, k))]>>

(***************************************************************************)
(* A struct is what its document says key by key, in whatever order the    *)
(* keys come: the last value given to a key counts, null and unknown keys  *)
(* do not, and the objects given to one key (a repeated "tx_data") count   *)
(* as one object with the members of all.  A value of another kind or an   *)
(* integer out of range fails the whole document.                          *)
(***************************************************************************)
LastMembersDecide ==
    LET document == <<"object", input>>
    IN  out = IF Fits(Structs[kind], document) THEN Meaning(Structs[kind], <<document>>)
              ELSE Wrong

\* v and w are equal, up to an empty slice that is left out and comes back as nil.
SameStruct(type, v, w) ==
    \A f \in Range(type.fields) :
        \/ v[2][f.key] = w[2][f.key]
        \/ f.omitempty /\ {v[2][f.key], w[2][f.key]} = {<<"slice", <<>>>>, Nil}

(***************************************************************************)
(* A struct that is written and read again comes back, a pointer to zero   *)
(* as a pointer to zero: the instruction and the options that map sends to *)
(* the router say what map put into them.                                  *)
(***************************************************************************)
StructsComeBack ==
    out # Wrong =>
        SameStruct(Structs[kind], out,
            Read(Structs[kind], Write(Structs[kind], out), Zero(Structs[kind])))

=============================================================================
