------------------------------- MODULE Bridge -------------------------------
(***************************************************************************)
(* What the bridge promises, without slots, registries, pools, tags or     *)
(* fees: it holds coins, outputs of bitcoin transactions, and keeps        *)
(* accounts.  A deposit brings coins nobody has brought before and credits *)
(* exactly their worth.  A withdrawal gives up coins for good, may get     *)
(* some back as change, and costs one account at least what the bridge     *)
(* gives up.  A transfer concerns two accounts and no coin.                *)
(***************************************************************************)
EXTENDS Integers, FiniteSets, Functions

CONSTANT Accounts

VARIABLES
    coins,      \* the coins held: [txid, vout, amount]
    seen,       \* the outputs that deposits have brought
    spent,      \* the outputs that withdrawals have spent
    balances    \* what each account holds

vars == <<coins, seen, spent, balances>>

Point(c) == <<c.txid, c.vout>>
Points(S) == {Point(c) : c \in S}
Worth(S) == SumFunction([c \in S |-> c.amount])
Total(bal) == SumFunction(bal)

Init ==
    /\ coins = {}
    /\ seen = {}
    /\ spent = {}
    /\ balances = [a \in Accounts |-> 0]

\* One transaction's outputs arrive.
Deposit ==
    LET new == coins' \ coins
    IN  /\ coins \subseteq coins'
        /\ new # {}
        /\ \A c, d \in new : c.txid = d.txid
        /\ Points(new) \cap (seen \cup spent \cup Points(coins)) = {}
        /\ seen' = seen \cup Points(new)
        /\ Total(balances') = Total(balances) + Worth(new)
        /\ \A a \in Accounts : balances'[a] >= balances[a]
        /\ UNCHANGED spent

\* Coins go out in a transaction whose change, if any, comes back.  The
\* account pays for what is missing, with the fees and the dust.
Withdraw(account) ==
    LET gone == coins \ coins'
        change == coins' \ coins
    IN  /\ gone # {}
        /\ spent' = spent \cup Points(gone)
        /\ \A c, d \in change : c.txid = d.txid
        /\ Points(change) \cap (seen \cup spent' \cup Points(coins)) = {}
        /\ balances'[account] >= 0
        /\ balances[account] - balances'[account] >= Worth(gone) - Worth(change)
        /\ \A a \in Accounts \ {account} : balances'[a] = balances[a]
        /\ UNCHANGED seen

Transfer(from, to) ==
    /\ balances'[from] + balances'[to] = balances[from] + balances[to]
    /\ balances'[from] >= 0 /\ balances'[to] >= balances[to]
    /\ \A a \in Accounts \ {from, to} : balances'[a] = balances[a]
    /\ UNCHANGED <<coins, seen, spent>>

Next ==
    \/ Deposit
    \/ \E account \in Accounts : Withdraw(account)
    \/ \E from, to \in Accounts : Transfer(from, to)

Spec == Init /\ [][Next]_vars

=============================================================================
