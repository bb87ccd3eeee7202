----------------------------- MODULE MappingBot -----------------------------
(***************************************************************************)
(* The contract together with Bitcoin, which includes deposits and spends  *)
(* in blocks, and with the bot of docs/RequiredActions.md, which monitors  *)
(* Bitcoin and passes each transaction it finds to map, with the           *)
(* instructions of the addresses the transaction pays.  Others call the    *)
(* contract too, when and as they like.                                    *)
(*                                                                         *)
(* What makes a call abort matters here, so map has the part of            *)
(* processUtxos that BtcMapping leaves out: a swap needs a registered      *)
(* router that answers and an instruction that names the asset to buy.     *)
(***************************************************************************)
EXTENDS BtcMapping

CONSTANTS
    Bot,        \* the account the bot sends from
    AssetNamed  \* the swap instructions with the member swap_asset_out

ASSUME MappingBotAssumption ==
    /\ Bot \in Accounts
    /\ AssetNamed \subseteq {i \in Instructions : Kind[i] = "swap"}

VARIABLES
    mined,  \* the transactions that are in a block
    router  \* "none" registered, or one whose calls are "failing" or "answered"

botVars == <<vars, mined, router>>

BotInit ==
    /\ Init
    /\ mined = {}
    /\ router = "none"

\* A spend is mined after the transactions it spends from.
Mine(txid) ==
    /\ Known(txid)
    /\ txid \notin mined
    /\ txid \in SpendIds =>
          \A i \in DOMAIN spendTx[txid].ins : spendTx[txid].ins[i][1] \in mined
    /\ mined' = mined \cup {txid}
    /\ UNCHANGED <<vars, router>>

\* The owner registers a router, at most once.
RegisterRouter ==
    /\ router = "none"
    /\ router' \in {"failing", "answered"}
    /\ UNCHANGED <<vars, mined>>

\* The router begins or ceases to fail: it aborts, or answers with no JSON.
RouterTurns ==
    /\ router # "none"
    /\ router' = IF router = "failing" THEN "answered" ELSE "failing"
    /\ UNCHANGED <<vars, mined>>

\* The deposits of a transaction that no call has observed.
Unobserved(txid) ==
    {v \in DOMAIN Outs(txid) : /\ Outs(txid)[v].addr \in Instructions
                               /\ <<txid, v - 1>> \notin observed}

\* The instructions whose addresses a transaction pays.
Paid(txid) ==
    {Outs(txid)[v].addr : v \in DOMAIN Outs(txid)} \cap Instructions

\* The swaps processUtxos comes upon in a call are all carried out.
SwapsSucceed(txid, instrs) ==
    /\ Known(txid)
    /\ \A v \in Unobserved(txid) :
           LET instr == Outs(txid)[v].addr
           IN  instr \in instrs /\ Kind[instr] = "swap"
                   => router = "answered" /\ instr \in AssetNamed

\* map as it is when the router may fail.
MapSwapping(txid, instrs, sender, drawn) ==
    /\ SwapsSucceed(txid, instrs)
    /\ Map(txid, instrs, sender, drawn)

\* The bot's call, as long as the transaction has something left to map.
BotMaps(txid) ==
    /\ txid \in mined
    /\ \/ Unobserved(txid) # {}
       \/ txid \in SpendIds /\ spends[txid] # NoTx
    /\ \E drawn \in BOOLEAN : MapSwapping(txid, Paid(txid), Bot, drawn)
    /\ UNCHANGED <<mined, router>>

\* Anybody's calls: any instructions, for transactions that are mined.
OthersCall ==
    /\ \/ \E txid \in mined, instrs \in MapInputs, sender \in Accounts,
             drawn \in BOOLEAN : MapSwapping(txid, instrs, sender, drawn)
       \/ \E sender \in Accounts, amount \in UnmapAmounts, dest \in Addresses,
             txid \in SpendIds : Unmap(sender, amount, dest, txid)
       \/ \E from \in Accounts, to \in Accounts, amount \in TransferAmounts :
             Transfer(from, to, amount)
       \/ \E rate \in FeeRates : AddBlocks(rate)
    /\ UNCHANGED <<mined, router>>

BotNext ==
    \/ \E txid \in TxIds : Mine(txid) \/ BotMaps(txid)
    \/ RegisterRouter \/ RouterTurns
    \/ OthersCall

\* The bot monitors Bitcoin: it does not give up a transaction while a call
\* with it would be carried out.  Nothing else is bound to happen.
BotSpec ==
    /\ BotInit
    /\ [][BotNext]_botVars
    /\ \A txid \in TxIds : WF_botVars(BotMaps(txid))

----------------------------------------------------------------------------

\* No room for n outputs in the confirmed pool.
Crowded(n) == Cardinality(Free(utxos, ConfirmedPool)) < n

\* The change that a confirmation promotes.
Promotable(txid) ==
    {s \in Used \cap UnconfirmedPool :
        utxos[s].txid = txid /\ utxos[s].vout < Len(spends[txid])}

\* The slots a call needs that confirms a withdrawal: for the change it
\* promotes, and for the output if the withdrawal pays a deposit address.
Needed(txid) == Cardinality(Promotable(txid)) + Cardinality(Unobserved(txid))

\* From some moment on the bot's calls with a transaction do not fail for a
\* swap: none is due, or the router answers and the assets are named.
SwapsSettle(txid) == <>[]SwapsSucceed(txid, Paid(txid))

\* A withdrawal that is mined does not stay pending: its signing data is
\* forgotten, unless the confirmed pool has no room for what the confirmation
\* brings into it, whoever else maps the transaction with whatever
\* instructions, and whatever is spent of its change in between.
SpendsForgotten ==
    \A t \in SpendIds :
        SwapsSettle(t) =>
            (t \in mined /\ spends[t] # NoTx
                 ~> spends[t] = NoTx \/ Crowded(Needed(t)))

PaysOncePerAddress(txid) ==
    \A v, w \in DOMAIN Outs(txid) :
        v # w => \/ Outs(txid)[v].addr # Outs(txid)[w].addr
                 \/ Outs(txid)[v].addr \notin Instructions

\* A deposit that pays each of its addresses once is mapped once it is mined,
\* although others may map parts of it first: what is left of it can still
\* be mapped by the instructions of the whole, unless the pool has no room or
\* a swap among its outputs cannot be carried out, which holds up the others.
DepositsMapped ==
    \A d \in Deposits :
        SwapsSettle(d) =>
            (d \in mined /\ PaysOncePerAddress(d)
                 ~> Unobserved(d) = {} \/ Crowded(Cardinality(Unobserved(d))))

=============================================================================
