# A verification project for the BTC mapping contract

The repository holds a smart contract, written in Go and compiled to
WebAssembly, that bridges bitcoin to a host chain. Deposits to addresses the
contract derives become balances (`map`), balances move between accounts
(`transfer`, `transferFrom`), and balances are withdrawn as bitcoin
transactions that the contract builds and the host's threshold signers sign
(`unmap`). An administrator keeps a list of Bitcoin block headers up to date
(`seedBlocks`, `addBlocks`), against which deposits are proved.

These modules model that contract in TLA+. TLC checks them on small instances,
and TLAPS proves the theorems listed below for all instances.
All paths below are relative to `src/btc-mapping-contract/`.

## How the program runs

The host runs one call of the contract at a time. A call that aborts
(`CustomAbort`, a panic, an error of the host) leaves no trace in the state. A
call that returns has all its writes. So in the modules of the contract an
action is a whole call that commits, guarded by everything that would make it
abort; a call that aborts is a stuttering step and has no action. The
concurrency is that of the callers: anybody may call `map` with any transaction
that is in a block, in any order, again and again, while others transfer and
withdraw and while Bitcoin includes the contract's own transactions whenever it
likes, or never. Within a call there are loops that stop half way, errors that
are dropped, state held in memory beside the state it was read from, and one
call out, to the router. Those are where this code is hard. Where a property is
about what happens inside a call (the allocation loop, the router, the parser,
the heap), a module of its own takes the call apart, and what ties it to the
one-step model is a refinement or a run.

## Inventory

| Component | Where | State | Operations | Correct when | Module |
|---|---|---|---|---|---|
| Header list | `contract/blocklist/blocklist.go`, `contract/main.go` | `b-<height>`, `h` | `seedBlocks`, `addBlocks` | the stored chain is linked, carries work, is never rewritten on mainnet, and its height is that of a header | `BlockList` |
| Deposits | `contract/mapping/mapping.go`, `init.go` | `r`, `u-<slot>`, `i`, `o-<tx>:<vout>`, `a-<account>`, `s` | `map` | an output is credited once, tracked once, and survives until it is spent | `BtcMapping`, `SwapReentry` |
| Confirmations | `mapping.go` (`updateUtxoSpends`) | `d-<tx>`, `p`, `u-<slot>`, `r` | `map` of a spend | change is promoted, the records of pending spends stay in step, no spend stays pending | `BtcMapping`, `MappingBot` |
| Withdrawals | `handlers.go`, `unmapping.go` | `r`, `u-<slot>`, `d-<tx>`, `p`, `a-`, `s` | `unmap` | inputs exist and are spent once, the transaction can be mined, the accounts pay for what leaves | `BtcMapping`, `Fees` |
| Transfers, intents | `handlers.go`, `utils.go` (`checkAndDeductBalance`) | `a-<account>`, ephemeral keys `l-`/`a-` | `transfer`, `transferFrom`, `unmap` | money is conserved, nobody loses what an intent of theirs does not cover | `IntentSpending` |
| Slot allocator | `utils.go` | `i`, `u-<slot>` | `allocateConfirmedId`, `allocateUnconfirmedId` | a free slot of the pool, if there is one, and the search ends | `SlotAllocator` |
| Registration | `main.go`, `constants.go` | `pubkey`, `backupkey`, `routerid` | `registerPublicKey`, `createKeyPair`, `registerRouter` | set once on mainnet, and what was derived from a key outlives no key | `Registration` |
| Merkle proof | `proof.go` | none | pure | accepts the members of the block, and only those | `MerkleProof` |
| Instructions, networks | `init.go`, `mapping.go`, `networks.go` | the registry of one call | pure | an output does what its own instruction says, on the network it names | `Instructions` |
| Addresses, scripts | `utils.go`, `export.go` | none | pure | the keys, and nobody else, can spend what an address received | `WitnessScript` |
| State codecs | `utils.go`, `init.go` | none | pure | a round trip loses nothing | `StateCodec` |
| JSON readers and writers | `*_tinyjson.go` | none | pure | a struct is read as its document says, and written back | `JsonInput` |
| Heap | `runtime/gc_leaking_exported.go` | the linear memory | `alloc`, `realloc` | blocks are apart and inside the memory | `LeakingHeap` |
| Mapping bot, Bitcoin | not in the repository; `docs/RequiredActions.md` | blocks, the router's health | passes transactions to `map` | what is mined is mapped | `MappingBot` |
| Host SDK, errors | `sdk`, `contracterrors` | none | bindings, messages | | not modelled |

The components meet in the state. `addBlocks` writes the fee rate that `unmap`
reads. `unmap` writes slots, registry and signing data that `map` reads when
the transaction is confirmed. `map` calls the router, which calls
`transferFrom`. `map` and `unmap` derive addresses from the keys that are
registered when they run. `PROJECT.json` lists each component with its status,
and the hazards of this code with the properties that are about them.

## Modules

| Module | What it holds |
|---|---|
| `BlockList` | the header list with `SeedBlocks`, `AddBlocks` and `AddBlocksOutOfSequence`, the batch that fails at its linkage test after some headers are stored |
| `SlotPools` | the two pools of slots: which slot an allocation takes, where the counter goes |
| `Fees` | the arithmetic of a withdrawal: protocol fee, estimate, fee, change |
| `BtcMapping` | the mapping contract: `Map`, `Unmap`, `Transfer`, `AddBlocks` |
| `Bridge` | abstract: what the bridge promises, with coins and accounts and nothing else |
| `BridgeRefinement` | `BtcMapping` under the mapping that makes it a `Bridge` |
| `SlotAllocation` | abstract: what an allocation promises |
| `SlotAllocator` | the allocation loop, a step for each time round, and its refinement to `SlotAllocation` |
| `MappingBot` | `BtcMapping` with Bitcoin, the bot, and a router that may be missing or fail; what must eventually happen |
| `SwapReentry` | `BtcMapping` with `map` taken apart around its calls to the router |
| `IntentSpending` | a host transaction with its intents, and the nested calls that spend from accounts |
| `Registration` | keys, router, administrators, and outputs derived from keys |
| `Instructions` | parsing of instructions and the turns of `processUtxos` that read them |
| `WitnessScript` | the scripts of addresses and Bitcoin's machine that executes them |
| `MerkleProof` | the proof loop against the tree Bitcoin builds |
| `StateCodec` | the bytes of every state key |
| `JsonInput` | the generated JSON readers and writers |
| `LeakingHeap` | the allocator of the WebAssembly build |
| `Parts` | six parts whose models share no state, side by side, one of them in each behaviour: `Registration`, `IntentSpending`, `WitnessScript`, `MerkleProof`, `Instructions`, `StateCodec`; with constants of any value |
| `MC*` | the instances TLC checks; `SlotAllocator` and `LeakingHeap` need no module for theirs. `MCParts` is the instance of `Parts`, to which it adds `JsonInput` |
| `LoopLemmas` | induction up to n; a loop has a run, which stays where its iterations stay; sums over finite sets |
| `BlockListProofs`, `BtcMappingProofs`, `LedgerProofs`, `SwapProofs`, `SlotAllocatorProofs`, `PartsProofs`, `LeakingHeapProofs` | lemmas and theorems |

### Correspondence with the code

**`BlockList`**: `blocks` is `b-<height>`, `lastHeight` is `h`, `seededAt` is a
history variable; `isTestnet` is the network the contract is built for, which no
step changes. A header is a model value that stands for its hash; `Prev`
gives the header it names, `ValidPow` whether it passes `CheckProofOfWork`.
`Admissible`, `Linked` and `Store` are the tests and the writes of the loop in
`HandleAddBlocks`, in its order.

**`BtcMapping`**: each variable is a state key, as commented at its declaration.
The two pools of slots are `0..ConfirmedStart-1` and `ConfirmedStart..LastSlot`
(64 and 255 in the code). `Map` is `HandleMap` followed by `SaveToState`, all of
it: `UpdateUtxoSpends` (the promotion loop, which a full pool cuts short, with
the error that `HandleMap` drops), `ForgetSpend`, `OutputsFit` (`indexOutputs`,
which traps unless as many outputs match as there are instructions),
`ProcessUtxos` (the loop over outputs, one `ProcessOutput` each) and
`SupplyFits`. `Unmap` is `HandleUnmap` followed by `SaveToState`:
`SelectInputs`, the fees, `SpendOuts`, `TrackOutputs`, the removal of the
inputs, signing data and supplies. Loops of the code that carry state are
recursive functions over the number of iterations, so they can be proved about.
Abstracted here:

- keys and router are registered and fixed (`Registration` has them change). An
  address is then determined by the tag of its script, and stands for it; the
  change address is that of the tag `nil`. `StoredTag` keeps what a trip through
  `MarshalUtxo` and `UnmarshalUtxo` does: `nil` comes back as an empty tag,
  which is another one.
- a transaction is an id with its outputs. `Known` are those that may be in a
  block, for which a Merkle proof exists: the given deposits, and any spend the
  contract has made, in any order. A spend may also be mined when its scripts or
  amounts would make Bitcoin refuse it, which allows more behaviours, not fewer.
- what the router does with a swap is one of two answers: it draws the amount it
  was allowed by `transferFrom`, or leaves it. `SwapReentry` has the others. A
  swap that makes the call abort is a stuttering step; where that matters, for
  what must eventually happen, `MappingBot` adds its conditions.
- intents cover what is drawn. `IntentSpending` has the others.
- amounts are integers. `MaxInt64` is a constant, so that the overflow tests of
  `safeAdd64` bite in small instances; sums the code does not test stay far
  below 2^63 for any amount of bitcoin that exists.
- the fee rate the administrator reports is not negative.

**`SlotAllocator`**: `call` is the call that is running, with the counter it
started from; `Return`, `Skip` and `Fail` are the ways a turn of the loop ends.
`Advanced` is the byte arithmetic of the counter.

**`MappingBot`**: `mined` is Bitcoin. `BotMaps` is the call the bot makes for a
mined transaction, with the instructions of all the addresses it pays;
`OthersCall` is everybody else, with any instructions. An abort is not a stutter
one may ignore here, so `map` is `MapSwapping`, with the three conditions under
which `processUtxos` carries out a swap (`SwapsSucceed`): a router is registered
(`mapping.go:171`), the instruction names an asset to buy (`:178`, the constant
`AssetNamed`), and the router answers with JSON (`:216`). `router` is the state
key `routerid` together with what the router does; `RegisterRouter` and
`RouterTurns` change it whenever they like, or never.

**`SwapReentry`**: `frames` is the stack of calls of `map` that are running,
each with the registry, counters, list of spends and supply it holds in memory
(`ContractState`, `types.go:106`). Slots, balances, observed keys and signing
data are written at once. `PromoteLoaded` is the loop of `updateUtxoSpends` over
the snapshot it makes (`Loaded`): with a stale registry two entries may name one
slot, and `PromoteEntry` promotes each of them, as the loop does. A frame that
waits is in `processUtxos` at the call of the router (`mapping.go:216`), and
`RouterDraws`, `RouterUnmaps` and `RouterMaps` are what the router may do
meanwhile; `reentered` remembers whether it has done one of the last two.

**`IntentSpending`**: `Begin` and `End` bound a transaction of the host, whose
ephemeral keys end with it. `Transfer` and `Unmap` are calls in it, by the
sender or by a contract with intents of its own. `SenderLimit` and
`CallerLimit` are the two different ways `checkAndDeductBalance` searches
intents.

**`Registration`**: `networkMode` is the string the contract is built with, which
no step changes. The calls are those of the owner; what `checkAdmin` refuses
changes nothing and has no step. `Track` and `Spend` stand for `map` and `unmap`
deriving an address when an output is made and when it is spent.

**`Instructions`**: one step for each turn of `parseInstructions`, which fills
the registry, and one for each output that pays an instruction's address. An
instruction is the values of its query keys.

**`WitnessScript`**: `Script` is `createP2WSHAddressWithBackup`; the actions
are the opcodes, on a stack that starts as any witness.

**`MerkleProof`**: `Climb` is a turn of the loop over the proof, `Compare` the
comparison with the header's root. `Level` is Bitcoin's tree, with an odd last
hash paired with itself. A hash is the tuple of what was hashed, one transaction
or two hashes. Places go up the tree by halving (`Above`), as the loop's index.

**`StateCodec`**: `kv` maps state keys to sequences of bytes. A byte has `Base`
values and each integer type a width, all parameters. A number is shifted out
byte by byte (`Shifts`), and a list is packed entry after entry, all of one width
(`Packed`), as the loops that copy each entry to its offset do. The actions are
the saves; `last` remembers what they meant to keep.

**`JsonInput`**: tinyjson writes one reader for all structs up to keys and
types, so the model has one reader (`ReadMember`, `Read`) and one writer
(`Write`) and the fields of each struct, in the source's order. A document comes
in member by member.

**`LeakingHeap`**: `heapptr` is the pointer, `pages` the memory; words wrap at
`Word`. `Begin` aligns and moves the pointer, `Grow` and `GrowFails` are the
two answers of the host to growing, `Return` zeroes the block, copies into it for a
`Realloc`, and hands it out. The sum in `align` is one of words: the sizes next
to the last word round to zero (`RoundsToZero`), and `alloc`, which takes any
size, hands out an empty block for them. `copied` is what `memcpy` writes.

## Runs

"Passes" means that TLC visits all reachable states of the instance.

| Run | What it shows |
|---|---|
| `BlockList` | on both networks the stored chain stays linked and carries work, with every batch in every state; on mainnet it is never rewritten |
| `Custody` | slots, registry, pending spends: nothing lost, overwritten, tracked or spent twice; and the refinement `KeepsPromises` |
| `Ledger` | money: supplies, balances, outputs and deposits agree |
| `SlotAllocator` | the loop implements `SlotAllocation` and ends |
| `MappingBot` | liveness with the bot: a mined withdrawal does not stay pending while the pool has room for the change it promotes and the deposits it makes; a mined deposit that pays each address once does not stay unmapped while the pool has room for it; both provided that the swaps due can be carried out in the end |
| `SwapReentry` | whatever the router calls, deposits are credited once and no slot in use is overwritten; a router that only draws leaves registry and supplies in agreement, which justifies `map` as one step in `BtcMapping` |
| `LeakingHeap` | blocks are apart, as large as asked for or empty when the size rounds to zero, and nothing is copied beyond them; the statistics add up, an allocation ends |
| `Parts` | seven parts, one in each behaviour, as `part` says; see the next table |
| `BlockListReset`, `ChangeConfirmed`, `InputsUnlock`, `OutputsPositive` | violated: what the repository says and the code does not do, below |

| Part of `Parts` | Properties | What they show |
|---|---|---|
| registration | `OutputsStaySpendable`, `RegistrationPermanent` | on mainnet keys and router are permanent and outputs stay spendable |
| intents | `Conserved`, `LossesCovered` | money is conserved, and what an account loses is covered by the sender's first intent or another caller's last one |
| witness | `OnlyKeysSpend`, `KeysSpend` | only the keys spend; the primary spends what has a tag, the backup recovers all after the delay |
| merkle | `Sound`, `Complete` | the loop accepts every member by Bitcoin's proof of its place, and nothing else; it is the place of the index, if the block has one there |
| codec | `SavedComesBack` | state, slots and balances come back from their bytes |
| json | `LastMembersDecide`, `StructsComeBack` | a struct has its types, integers their width; the last member with a key decides, whatever surrounds it; structs come back when written |
| parsing | `OutputsFollowTheirInstruction`, `LandsOnItsNetwork` | each output does what its own instruction says, on the network it names |

Every property of a passing run has a mutant: an operator beside the one it
mutates, named for what it gets wrong, that makes TLC find the property violated.

### Bounds

- `BlockList`: a forked chain of seven headers, one without work; heights to 4,
  seeds at 1 to 3; every batch of up to three headers in every state, on both
  networks. A batch can then fail at its first, a middle or its last header,
  reach the height limit, and leave stale headers above the height that a later
  batch meets. Everything the loop does depends on the tip and the batch alone.
- `Custody`: pools of two slots each, so that each fills up and its counter
  wraps around, with three deposits (one with an output that is not ours, one a
  swap) and two withdrawals. The larger withdrawal needs several inputs, and its
  change is split in two. The one account holds everything, which does not
  matter to the slots. The withdrawals' ids are symmetric.
- `Ledger`: two accounts, one of them the router's, balances that overflow at
  9000 with deposits of 6000, 1500 and 2500, withdrawals that leave dust, and
  a transfer.
- `SlotAllocator`: pools of three and four slots, in every state of use with the
  counters everywhere, so that a search may wrap around and find nothing.
- `MappingBot`: two deposits and two withdrawals of two amounts, in pools of two
  slots. Each deposit pays two addresses, one of them a swap, so that others may
  map the rest of it first. One swap waits for a router that answers; the other
  names no asset and is never carried out, so that its transaction is excepted
  from `DepositsMapped`, but not from what fills the pool. A withdrawal
  takes one input or two, the second may spend the change of the first, and both
  may pay a deposit address: the case occurs where the change takes the only free
  slot and the deposit beside it finds none. Nobody transfers,
  which would change neither slots nor confirmations, and the fee rate stays at
  its first value, zero; the two amounts vary the inputs instead. The one account
  is also the router's, whose draws then move nothing, and the amounts stay far
  below `MaxInt64`: what the accounts hold matters to these properties only for
  whether a withdrawal is possible. No symmetry is used, since they are about
  liveness.
- `SwapReentry`: a swap and a deposit in one transaction, another
  deposit, one withdrawal; the router may map the transaction it is called for,
  and `MaxDepth` bounds the calls of `map` that are under way.
- `Parts`, in turn:
  - registration: mainnet and testnet3; two keys, one field that is no key, two
    routers, two outputs, so that a key may change between two outputs;
  - intents: two users, a contract, an account that cannot be reached, two calls
    in a transaction (`MaxCalls`), five lists of intents with limits for
    others, several for the bridge, and with one and two decimals;
  - witness: every witness of up to three elements; the longest script consumes
    two. Ages on both sides of the delay;
  - merkle: blocks of up to six transactions, so that an odd hash occurs on the
    lowest level, on the one above and on both; every proof of up to three hashes
    of the tree. The indices are the first, one inside, one just beyond a block
    and one with a bit above the tree (0, 5, 6, 9). In a block of six the last
    pair is its own sibling, so index 6 leads to the root as index 4 does: an
    index beyond the block is only a place up to such copies, which is what
    `StandsAtIndex` says;
  - codec: bytes of four values, integers of three bytes, amounts at both ends of
    their range; lists of none to two;
  - json: two or three members in each document, every key and kind of value,
    integers just inside and outside of their width;
  - parsing: thirteen queries, up to three in a call: deposits, swaps, both,
    neither, networks spelled in both cases, unknown and absent.
- `LeakingHeap`: words of 64, so that the end of a full memory is 0 as in the
  code; four pages of 16; sizes that wrap the pointer, up to the last word, whose
  rounding wraps itself.

Some systems really stop and their runs do not check for deadlock: `BlockList`
(a malformed seed on mainnet can be neither replaced nor extended),
`SwapReentry` (a call that would abort does not go on), `Parts` (most of its
parts are algorithms that end) and `LeakingHeap`, whose memory is used up in the
end. The others never stop.

### What the violated runs show

- `BlockListReset`. `addBlocks` lets `ErrorSequenceIncorrect` through and stores
  the height 0 that comes with it (`blocklist.go:123`, `main.go:99-108`). No
  header is stored at 0, so no batch can be added any more, and mainnet refuses
  to seed again.
- `ChangeConfirmed`. `updateUtxoSpends` compares the index of an input with the
  index of an output (`mapping.go:102`). Change of a withdrawal with one input
  is at output 1 and is never promoted; its signing data is deleted all the same.
- `InputsUnlock`. A change output's tag is `nil` when its address is made and
  empty when it is read back (`utils.go:291`), which gives another script.
- `OutputsPositive`. The estimate takes a witness script to have 68 bytes
  (`unmapping.go:68`); that of a deposit has 111. Selected inputs can fall short,
  and the change becomes negative.

Other places where the code and the documents or comments differ were met while
modelling. The models do what the code does; no run is about them:

- After a seed at height 0, which the schema admits
  (`docs/instruction-schema.md:19`), the height 0 that comes with a rejected batch
  is that of a header: the batches after it start again from the seed and are
  stored over headers that were there, on mainnet too. With `SeedHeights = {0, 1}`
  TLC finds `HeadersPermanent` violated: seed g; a batch a1, a2 and a header that
  does not link; then a batch a1, b2 replaces a2. Hence `BlockList` seeds above 0
  and the theorem assumes it.
- What a sender has spent of an intent is read under one key (`utils.go:459`) and
  written under another (`utils.go:471`), so that an intent limits each call and
  not the transaction. Hence `LossesCovered` is about each call. Of several
  intents it is the first that counts for the sender and the last for another
  caller, and `LossesCovered` says so.
- `transfer` draws from the sender when `from` names the sender, not from the
  caller as documented (`handlers.go:148`).
- The script of the tag `nil` leaves a false element on the stack of its primary
  branch (`utils.go:38`): change can only be spent with the backup key. Hence
  `KeysSpend` has the primary key spend what has a tag.
- What an `unmap` or `map` that the router makes stores is overwritten when the
  outer `map` saves (`mapping.go:216`, `init.go:174`). Whether the host lets a
  router call back is not in the repository. Hence `AgreeAtRest` holds only
  while nothing `reentered`.
- A transaction that pays an address twice makes `indexOutputs` write past its
  array (`mapping.go:39`) and can never be mapped. Hence `DepositsMapped` leaves
  it out.
- A deposit beside a swap that can never be carried out, because its instruction
  names no asset (`mapping.go:178`), is only mapped by a call that leaves the
  swap's instruction out, and the swap not at all. `parseInstructions` accepts
  such an instruction. Hence `DepositsMapped` has the premise `SwapsSettle`.
- `align` rounds a size within the last 15 of a word to zero
  (`gc_leaking_exported.go:202`), and `alloc` returns an empty block for it. Hence
  `BlocksApart` says so.
- Keys of 65 bytes are refused (`utils.go:577`); the mode `testnet` is taken for
  mainnet (`constants.go:69`).
- The byte order that comments give for the registry (`types.go:60`, `:92`) is
  not the one of the codecs.
- An amount that is an integer, as the schema says, is refused
  (`mapping_tinyjson.go:111`).
- A deposit may go to a `did:` address that the contract does not take for valid
  elsewhere (`networks.go:30`).
- `realloc` copies with `memcpy` between areas that overlap
  (`gc_leaking_exported.go:122`).

### Refinement

- `BtcMapping` implements `Bridge` (`KeepsPromises`, checked in the run `Custody`
  and proved). The coins are the outputs in slots that are in use; promotion,
  forgetting and everything about registry, pools and tags is hidden. `Bridge`
  says that a coin is brought once, that a withdrawal gives up coins for good
  and costs an account at least what the bridge loses, and that nothing else
  happens to either.
- `SlotAllocator` implements `SlotAllocation` (`Implements`, checked and
  proved), with the counter as it was before a call as long as the call runs.
  `SlotAllocation` is written with `FirstFree` and `AfterSlot`, which
  `BtcMapping` uses: so what the loop does is what the contract is modelled to do.

### Fairness

The contract does nothing by itself, so fairness is assumed only where something
outside of a property's subject keeps it going:

- `SlotAllocator`, `LeakingHeap`: weak fairness of the steps of a call that has
  begun. The host runs a call to its end; no call is bound to begin.
- `MappingBot`: weak fairness of `BotMaps`, for each transaction. `map` is "Called
  by a bot monitoring transactions on an external chain"
  (`docs/RequiredActions.md:5`). Weak fairness suffices because a call that would
  be carried out stays so until somebody makes it, the pool fills or the router
  begins to fail. Nothing is assumed of miners, users or other callers, of the
  owner who registers the router, or of the router. Two outcomes are admitted
  instead. A confirmed pool without room for what a call brings into it
  (`Crowded`): nothing in the code forces anybody to withdraw. For a withdrawal
  that is room for the change its confirmation promotes and for the deposits it
  makes (`Needed`), since the change comes first, and a deposit that finds no
  slot aborts the whole call. And a swap that is not carried out: each property
  has the premise that from some moment on the swaps of the bot's calls with the
  transaction, if any are due, find a router that answers and name their asset
  (`SwapsSettle`). Without the premise the properties fail in these instances.

## Proofs

All proofs are checked by `tlapm` with no step taken on trust. They hold for
every value of the constants that satisfies the named assumptions, which give
the constants their types, order the pools and separate the kinds of values:
`BlockListAssumption`, `SlotPoolsAssumption`, `SlotAllocatorAssumption`,
`BtcMappingAssumption`, `RegistrationAssumption`, `LeakingHeapAssumption` and
`PartsAssumption`, which names those of the other five parts. (`MappingBot` has
`MappingBotAssumption`, and no theorem.) TLC evaluates
them in the runs of their modules. Two of them say that the accounts are finite
in number: a sum is only defined over a finite set, and a state has finitely
many keys.

### The header list

- `BlockListType`, `ChainIsLinked`, `HeadersArePermanent`. The first two go by
  induction over the steps; `TypeOK` together with `ChainLinked` is inductive.
  A batch writes only above the height, and `StoreLinked` shows that what it
  writes continues the chain below. `HeadersArePermanent`
  needs more, the invariant `Mainnet`: there, nothing is stored before the seed,
  at height 0, or above the stored height (`SeededOnce`). A rejected batch
  leaves the height at 0, where no header is, so that no batch is accepted after
  it: what keeps the headers is also what stops the list. The property is about
  mainnet, and the theorem assumes that no seed is at height 0: after such a
  seed a batch is built on it again and writes over the chain, as told
  under the violated runs.

### The contract

Three invariants, each proved with those before it. A loop of the code is
treated alike in all of them: a set of states of the loop is kept by one
iteration, hence (`StaysIn`, and `UpdateUtxoSpendsKeeps`, `ProcessUtxosKeeps`,
`TrackOutputsKeeps`) by the loop.

- `IInv`, for `BtcMappingType` and `RegistryAgreesWithStore`: types and the
  agreement of registry and slots. Neither is inductive alone. `unmap` loads the
  slot of each registry entry it selects, and has a `Utxo` of the right type
  only because a listed slot is set; and the registry is only kept in step
  because an allocated slot is free, which is a fact about the types of the
  counters. `FirstFreeIsFree` (the allocator's slot is free), `ConsistentAppend`,
  `ConsistentMove` and `ConsistentRemove` say what adding, promoting and
  spending an output do to registry and slots.
- `CustodyInv`, for `OutputsTrackedOnce`, `SpendsApart`, `PendingSpendsListed`
  and `OutputsKept`. It adds the set `Noticed`: the outputs that `map` has
  observed and the change of the withdrawals that were made. All that is tracked
  is noticed and not spent, all that is spent was noticed, and only known
  transactions have been observed. A new output is then new: a deposit that is
  not observed pays an instruction's address, so it is nobody's change; and a
  withdrawal that is being built has an id nobody knows. The inputs of a
  withdrawal are tracked, hence not yet spent. `MoveKeeps` and `AddKeeps` are
  what a promotion and an allocation do to a store.
- `KeepInv`, for `ConfirmationRepeatable`: a promotion loop that a full pool
  cuts short forgets nothing, and one that was not cut short leaves no output
  that it matches in the unconfirmed pool (`Promoting`). What is forgotten has
  then nothing left that a confirmation could promote.
- `LedgerInv`, for `SuppliesAreBalances`, `BalancesBacked` and
  `EveryDepositCreditedOnce`. The registry's sum is first turned into one over
  the slots (`RegistryWorth`), where a promotion changes nothing, an allocation
  adds a term and a withdrawal takes the sum of its inputs away. The loop of
  `map` adds the same total to the worth of the slots, to what was deposited
  and, unless a credit overflows, to the balances (`Credits`); if one does
  overflow, the supplies, which are at least as large, overflow too, the call
  aborts, and the error that the code drops has had no effect. That needs the
  supplies to equal the balances before: the error may only be dropped
  because of what the other test refuses. `Backed` holds because what a
  withdrawal gives to miners without charging it, dust of at most 546
  (`ChangeComesBack`), is less than its protocol fee of at least 1000
  (`VscFeeCoversDust`), which is charged and stays.
- `PromisesKept`: the contract implements `Bridge`. A step of `map` is `Deposit`
  or a stutter (`MapDeposits`), one of `unmap` is `Withdraw` (`UnmapWithdraws`),
  by the three invariants before and after the step. Coins of the abstract bridge
  are distinct since an output is tracked once, and what they are worth is then
  what the slots are worth (`CoinsAreWorth`).

### map with the calls of the router

The loops are those of the contract, so the lemmas about one iteration are, too.
They hold of whatever registry a call has in memory: those about types need no
agreement of registry and slots, those about agreement take it as a hypothesis.
Three invariants, none of which can lean on the others' hypotheses:

- `SwapTypes`, for `OutputsKeptByReentry`: the types of the state and of every
  frame. With nested calls the registries in memory, and in the end the stored
  one, disagree with the slots, so the proof may not use it: an allocation reads
  the slots and only takes an empty one (`HoldsAfterAdd`, `HoldsAfterMove`), and
  an `unmap` that selects an entry whose slot is empty aborts (`UnmapEmpties`).
  Hence no output in use is overwritten, even when the list that names it is.
- `AgreeInv`, for `DrawsAgree`: while the router only draws, there is one call
  at most, what it holds in memory agrees with the slots, and the balances are
  the supply it has loaded and the total it has counted. Unless these are more
  than an int64 holds: then a credit may have been dropped, but the call cannot
  end.
- `CreditInv`, for `CreditedOnceByReentry`, which is about every moment of every
  call, also of one that goes on to abort. There the test of the supplies has
  not been made yet, and a credit that overflows has been dropped: so the
  theorem assumes that the deposits fit (`DepositsFit`: no set of outputs of
  given transactions is worth more than `MaxInt64`; all bitcoin there will be
  are worth 2.1 * 10^15, and the instance TLC checks satisfies it). Spends of the
  contract can be deposits as well, and these are not bounded by it; but what
  such an output pays was charged to somebody before (`Charges`), which makes up
  for it in the sum of the balances (`CreditBound`).

### Algorithms and parts

- `AllocatorType`, `AllocatorImplements`: the loop implements `SlotAllocation`
  for pools of any size. The invariant says that all slots from the start of the
  search to the counter are in use.
- `HeapBlocksApart`, `HeapStatsFit`: for every width, page size and limit, and for
  every size up to the last word. An aligned size is as large as was asked for or,
  when its sum wraps, zero (`AlignHolds`). A copy of that size into an empty block
  leaves the memory (`PageLeft`: a word is a whole number of pages, each at least
  as large as the alignment), so that a `realloc` of it traps. The invariant places
  all blocks between the start of the heap and the pointer, which a request that
  wraps around cannot lower without the trap in zeroing it.
- `RegistrationType`, `KeysPermanent`, `OutputsSpendable`: the last two on
  mainnet, from the invariant (`Derived`) that an output exists only once both
  keys do.
- `MoneyConserved`, `LossesAreCovered`: intents. A transfer takes from one
  account what it gives to another, whichever they are, and a withdrawal records
  what it takes; each call draws on one account: the sender's, within the first of
  its intents for the contract, or else the caller's, within the last of its own.
- `KeysAlone`, `KeysCanSpend`: scripts. Of all that a witness may hold, only what
  a check of a signature or of the delay left is a true element of the stack at
  the end (`OnlyEarned`), so nobody else spends. That the keys do, is shown by
  following the witness of each through the script (`PrimaryAt`, `BackupAt`).
- `OutputsFollow`, `OutputsLand`: instructions. Each entry the parser has made is
  that of one of its instructions, which an output that pays the address then
  follows (`EntriesTrue`, `EffectsTrue`).
- `ProofsShowMembers`, `MembersAreShown`: Merkle proofs, for blocks of any size
  and any claimed index. From the transaction up, the hashes of Bitcoin's proof
  lead through the levels (`ProofLeadsToRoot`). From the root down, a hash comes
  apart in one way only, into the two hashes at the places under it
  (`PairsComeApart`, `StandsOneBelow`); since the hash of a transaction is no
  pair, the loop climbs all levels and not one more (`ClimbsAllLevels`). An index
  within the block is on its own side at each level, so it is that place
  (`SamePlace`). The levels of the tree and of the loop are counted with intervals
  of numbers (`UpTo`) and halvings, which needs no induction over data and no
  powers of two. Two hashes that collide, and a transaction whose bytes are two
  hashes, are outside of the model: its hashes are terms.
- `StateSurvives`: the codecs of the state, for lists, scripts and tags of any
  length, bytes of any number of values and integers of any width. The invariant
  (`CodecInv`) is that what is read now is what the calls meant to keep, and that
  it has its types; it needs the types since `addBlocks` writes a supply it has
  read. Each save then needs one fact about a codec:
  - numbers: read back most significant byte first, the bytes give the number
    back shift by shift (`UintComesBack`), by induction along an interval of
    numbers; an int64 goes through the uint64 with the same bits (`SameBits`);
  - lists: the place of each byte of each entry (`PackedFacts`, `RegistryBack`,
    `SpendsBack`); a list is split by its length alone, so that the lengths
    must divide;
  - slots: `UtxoBack`, where the length of script and tag are single bytes. The
    theorem assumes, with `Outputs`, that both are short enough for that. The code
    does not test it; the scripts it stores are those it derives, of 34 bytes, and
    a tag is a hash or nothing;
  - balances: of the bytes only zeros in front are dropped, and put back
    (`SignificantFacts`, `BalanceBack`). Only a balance of zero is stored as no
    bytes.
- `PartsTyped`: the types of intents, scripts, Merkle proofs and codecs. All but
  one are parts of the invariants above. That of a script's execution says that
  the stack is never longer than the longest witness. An execution pushes before
  it drops, so the invariant (`Roomy`) counts how much shorter than the witness
  the stack must be at each position of the script, on each branch (`Spare`).
- The theorems about parts are stated of `Parts`, whose behaviours run one part
  each: such a behaviour is one of that part, or leaves it idle (`PartStays`).

### Only model-checked

- `LastMembersDecide`, `StructsComeBack`: what a reader computes for every document.
  Documents nest, their readers are recursive operators, and a
  proof would be by induction over documents, for which the provers have no rule.
- Liveness, for which they have none either: `AllocationReturns`, `AllocEnds`,
  `SpendsForgotten`, `DepositsMapped`.

Every other property of a run that passes has a theorem.

## Not modelled

- `contracterrors`: it words errors. An error ends in an abort, which undoes the
  call, so what it says changes nothing.
- The host SDK: bindings without state. The modules take them by their use:
  state keys that read as empty when absent, calls that are atomic and one at a
  time, ephemeral state that ends with a transaction.
- The MessagePack of the signing data and the reader of `EnvMap`: the first is
  generated by a library of which only the output is here, and its value is
  passed to the host; the second holds values of any type and is not used by any
  action.
- SHA-256, bech32, hex, the grammar of JSON and of URL queries: taken as
  injective, or by what they tell apart.
- Logs and the text of results.

## Plan

Done: every component above, the refinements, the liveness of the bot, and a
theorem for each safety property that the prover can reach. What is left is out of
its reach and stays with TLC: the JSON readers and liveness.
