--------------------------- MODULE IntentSpending ---------------------------
(***************************************************************************)
(* Spending from an account (contract/mapping: HandleTransfer,             *)
(* checkAndDeductBalance and the expenditure of intents).  A transaction   *)
(* of the host chain has a sender and the sender's intents, each a limit   *)
(* on what a contract may draw.  In the course of it the bridge is called  *)
(* any number of times, by the sender or by contracts the sender has       *)
(* called, which give the call intents of their own.  What was drawn from  *)
(* the sender is kept in ephemeral state, which ends with the transaction. *)
(***************************************************************************)
EXTENDS Integers, Sequences, FiniteSets, Functions

CONSTANTS
    Users,          \* accounts that sign transactions
    Contracts,      \* contracts that call the bridge
    Unreachable,    \* accounts whose address IsValid does not accept
    Bridge,         \* env.ContractId
    Others,         \* what else an intent may be for
    IntentLists,    \* the intents senders and callers give
    Amounts,        \* the amounts callers pass
    Opening,        \* the balances to start from
    MaxInt64,       \* math.MaxInt64
    MaxCalls,       \* bound on the calls of a transaction
    Unnamed,        \* the field from left empty
    NoTx            \* no transaction is under way

Accounts == Users \cup Contracts \cup Unreachable
\* The value of a limit is that of its digits, whatever points are in it.
Intent == [for : {Bridge} \cup Others, value : Int, points : Nat]

IntentSpendingAssumption ==
    /\ IsFiniteSet(Accounts)
    /\ Bridge \notin Others
    /\ Unnamed \notin Accounts
    /\ Users \cap Contracts = {}
    /\ NoTx \notin [sender : Accounts, intents : Seq(Intent), active : BOOLEAN]
    /\ IntentLists \subseteq Seq(Intent)
    /\ Amounts \subseteq Nat \ {0}
    /\ MaxInt64 \in Nat
    /\ MaxCalls \in Nat
    /\ Opening \in [Accounts -> 0..MaxInt64]

VARIABLES
    balances,   \* state keys "a-<account>"
    ephemeral,  \* ephemeral keys "l-<account>" and "a-<account>"
    tx,         \* the transaction under way: its sender, intents and auths
    calls,      \* how often it has called the bridge
    call,       \* history variable: caller and intents of the last call
    withdrawn   \* history variable: what unmap has taken from accounts

vars == <<balances, ephemeral, tx, calls, call, withdrawn>>

NoExpenditure == [k \in {"l", "a"} \X Accounts |-> 0]
NoCall == [caller |-> Unnamed, intents |-> <<>>]

Init ==
    /\ balances = Opening
    /\ ephemeral = NoExpenditure
    /\ tx = NoTx
    /\ calls = 0
    /\ call = NoCall
    /\ withdrawn = 0

\* The host runs a transaction of sender, with the active authority or
\* without it.
Begin(sender, intents, active) ==
    /\ tx = NoTx
    /\ tx' = [sender |-> sender, intents |-> intents, active |-> active]
    /\ UNCHANGED <<balances, ephemeral, calls, call, withdrawn>>

\* The transaction ends, and what is ephemeral with it.
End ==
    /\ tx # NoTx
    /\ tx' = NoTx
    /\ ephemeral' = NoExpenditure
    /\ calls' = 0
    /\ call' = NoCall
    /\ UNCHANGED <<balances, withdrawn>>

----------------------------------------------------------------------------
\* The intents that allow a draw from this contract.

ForBridge(intents) == {i \in DOMAIN intents : intents[i].for = Bridge}

\* Of the sender's intents the first one counts.  ParseInt takes no point.
SenderLimitParses(intents) ==
    \A i \in ForBridge(intents) :
        (\A j \in ForBridge(intents) : i <= j) => intents[i].points = 0

\* Mutant of SenderLimit: the last one counts, as it does for the caller.
SenderLimitLast(intents) ==
    IF ForBridge(intents) = {} THEN 0
    ELSE intents[CHOOSE i \in ForBridge(intents) :
                    \A j \in ForBridge(intents) : i >= j].value

SenderLimit(intents) ==
    IF ForBridge(intents) = {} THEN 0
    ELSE intents[CHOOSE i \in ForBridge(intents) :
                    \A j \in ForBridge(intents) : i <= j].value

\* Of the caller's intents the last one counts, and each must be a number
\* once its first point is taken out.
CallerLimitParses(intents) ==
    \A i \in ForBridge(intents) : intents[i].points <= 1

CallerLimit(intents) ==
    IF ForBridge(intents) = {} THEN 0
    ELSE intents[CHOOSE i \in ForBridge(intents) :
                    \A j \in ForBridge(intents) : i >= j].value

\* getAccExpenditure reads the key "l-<account>".
Expenditure(account) == ephemeral[<<"l", account>>]

\* checkAndDeductBalance, up to the new balance: the sender is looked at
\* first, so a sender that calls the bridge itself is covered by its own
\* intents.  setAccExpenditure writes the key "a-<account>".
Deduct(account, caller, intents, amount) ==
    /\ balances[account] >= amount
    /\ \/ /\ account = tx.sender
          /\ SenderLimitParses(tx.intents)
          /\ SenderLimit(tx.intents) - Expenditure(account) >= amount
          /\ ephemeral' = [ephemeral EXCEPT ![<<"a", account>>] =
                                                Expenditure(account) + amount]
       \/ /\ account # tx.sender
          /\ account = caller
          /\ CallerLimitParses(intents)
          /\ CallerLimit(intents) >= amount
          /\ UNCHANGED ephemeral

----------------------------------------------------------------------------
\* The calls.

\* A call of the bridge in the transaction under way, with checkAuth.
Called(caller, intents) ==
    /\ tx # NoTx
    /\ tx.active
    /\ caller = tx.sender \/ caller \in Contracts
    /\ calls < MaxCalls
    /\ calls' = calls + 1
    /\ call' = [caller |-> caller, intents |-> intents]

\* Whom a transfer draws from: the caller if nobody is named.
Payer(from, caller) == IF from = Unnamed THEN caller ELSE from

\* Mutant of Moved: the recipient's balance is read before the deduction.
MovedReadEarly(payer, to, amount) ==
    /\ balances[to] + amount <= MaxInt64
    /\ balances' = [balances EXCEPT ![payer] = @ - amount,
                                    ![to] = balances[to] + amount]

\* The recipient's balance is read once the payer's is written.
Moved(payer, to, amount) ==
    LET deducted == [balances EXCEPT ![payer] = @ - amount]
    IN  /\ deducted[to] + amount <= MaxInt64
        /\ balances' = [deducted EXCEPT ![to] = @ + amount]

\* transfer and transferFrom, which run the same handler.
Transfer(caller, intents, from, to, amount) ==
    /\ Called(caller, intents)
    /\ to \notin Unreachable
    /\ Payer(from, caller) \in {caller, tx.sender}
    /\ Deduct(Payer(from, caller), caller, intents, amount)
    /\ Moved(Payer(from, caller), to, amount)
    /\ UNCHANGED <<tx, withdrawn>>

\* unmap as far as it draws: always from the sender.
Unmap(caller, intents, amount) ==
    /\ Called(caller, intents)
    /\ Deduct(tx.sender, caller, intents, amount)
    /\ balances' = [balances EXCEPT ![tx.sender] = @ - amount]
    /\ withdrawn' = withdrawn + amount
    /\ UNCHANGED tx

Next ==
    \/ \E sender \in Users, intents \in IntentLists, active \in BOOLEAN :
          Begin(sender, intents, active)
    \/ \E caller \in Users \cup Contracts, intents \in IntentLists,
          from \in Accounts \cup {Unnamed}, to \in Accounts, amount \in Amounts :
          Transfer(caller, intents, from, to, amount)
    \/ \E caller \in Users \cup Contracts, intents \in IntentLists,
          amount \in Amounts : Unmap(caller, intents, amount)
    \/ End

Spec == Init /\ [][Next]_vars

----------------------------------------------------------------------------

TypeOK ==
    /\ balances \in [Accounts -> 0..MaxInt64]
    /\ ephemeral \in [{"l", "a"} \X Accounts -> Nat]
    /\ tx \in [sender : Users, intents : Seq(Intent), active : BOOLEAN] \cup {NoTx}
    /\ calls \in 0..MaxCalls
    /\ call \in [caller : Accounts \cup {Unnamed}, intents : Seq(Intent)]
    /\ withdrawn \in Nat

\* Calls nested in a transaction, among them an account's transfer to itself,
\* neither make nor destroy money.
Conserved == SumFunction(balances) + withdrawn = SumFunction(Opening)

\* The first, or the last, of the intents for this contract allows a loss.
FirstAllows(intents, loss) ==
    \E i \in DOMAIN intents :
        /\ intents[i].for = Bridge /\ intents[i].value >= loss
        /\ \A j \in DOMAIN intents : intents[j].for = Bridge => i <= j

LastAllows(intents, loss) ==
    \E i \in DOMAIN intents :
        /\ intents[i].for = Bridge /\ intents[i].value >= loss
        /\ \A j \in DOMAIN intents : intents[j].for = Bridge => j <= i

\* What a call takes from an account is covered by an intent the account
\* itself has given: the sender's first with the transaction, also when the
\* sender is the caller, and another caller's last with the call.  Nobody else
\* loses anything, whoever calls in between.
LossCovered ==
    \A a \in Accounts : balances'[a] < balances[a] =>
        /\ tx.active
        /\ IF a = tx.sender
           THEN FirstAllows(tx.intents, balances[a] - balances'[a])
           ELSE /\ a = call'.caller
                /\ LastAllows(call'.intents, balances[a] - balances'[a])

LossesCovered == [][LossCovered]_vars

=============================================================================
