---------------------------- MODULE Registration ----------------------------
(***************************************************************************)
(* What the owner registers (contract/main.go): the primary and the backup *)
(* key, the router, the threshold key pair.  Deposit and change addresses  *)
(* are derived from both keys as they are registered when map or unmap     *)
(* runs, and the contract derives them again when it spends, so an output  *)
(* is of use only while its keys stay.                                     *)
(***************************************************************************)
EXTENDS Integers, FiniteSets

CONSTANTS
    NetworkModes,       \* values of main.NetworkMode
    Owner,              \* contract.owner
    Others,             \* other accounts
    CompressedKeys,     \* 33 bytes, the first of them 2 or 3
    OtherFields,        \* 65 bytes, and what is no key at all
    Routers,            \* contract ids
    Outpoints,          \* outputs that come to be tracked
    Nothing             \* an empty field, or a state key that is not set

Accounts == {Owner} \cup Others
Fields == CompressedKeys \cup OtherFields \cup {Nothing}
Keys == CompressedKeys \cup {Nothing}

ASSUME RegistrationAssumption ==
    /\ NetworkModes \subseteq STRING
    /\ Nothing \notin CompressedKeys \cup OtherFields \cup Routers
    /\ CompressedKeys \cap OtherFields = {}

VARIABLES
    networkMode,    \* main.NetworkMode, set when the contract is built
    primary,        \* state key "pubkey"
    backup,         \* state key "backupkey"
    routerId,       \* state key "routerid"
    keyPair,        \* whether the host has the key constants.TssKeyName
    outputs         \* the keys each tracked output was derived from, or Nothing

vars == <<networkMode, primary, backup, routerId, keyPair, outputs>>

\* constants.IsTestnet
IsTestnet == networkMode \in {"testnet3", "testnet4", "regtest"}

Init ==
    /\ networkMode \in NetworkModes
    /\ primary = Nothing
    /\ backup = Nothing
    /\ routerId = Nothing
    /\ keyPair = FALSE
    /\ outputs = [o \in Outpoints |-> Nothing]

----------------------------------------------------------------------------
\* Mutant of Registered: what is there is overwritten.
Overwritten(existing, field) == IF field = Nothing THEN existing ELSE field

\* A field that is given replaces what is there on a testnet, and otherwise
\* only if nothing is.
Registered(existing, field) ==
    IF field # Nothing /\ (existing = Nothing \/ IsTestnet)
    THEN field ELSE existing

\* DecodeCompressedPubKey, for a field that is given.
Decodes(field) == field \in CompressedKeys \cup {Nothing}

\* registerPublicKey.  Both keys are decoded before the call commits, so a
\* bad backup key undoes the primary one.
RegisterPublicKey(sender, p, b) ==
    /\ sender = Owner
    /\ Decodes(p)
    /\ Decodes(b)
    /\ primary' = Registered(primary, p)
    /\ backup' = Registered(backup, b)
    /\ UNCHANGED <<networkMode, routerId, keyPair, outputs>>

\* registerRouter
RegisterRouter(sender, r) ==
    /\ sender = Owner
    /\ routerId' = Registered(routerId, r)
    /\ UNCHANGED <<networkMode, primary, backup, keyPair, outputs>>

\* createKeyPair
CreateKeyPair(sender) ==
    /\ sender = Owner
    /\ keyPair' = TRUE
    /\ UNCHANGED <<networkMode, primary, backup, routerId, outputs>>

\* Mutant of LoadPublicKeys: the backup key is not looked at.
LoadPrimaryKey == primary # Nothing

\* loadPublicKeys: both keys are there.
LoadPublicKeys == primary # Nothing /\ backup # Nothing

\* map and unmap: outputs come to be tracked, at addresses of the keys that
\* are registered.  A swap needs a router.
Track(o, swap) ==
    /\ LoadPublicKeys
    /\ swap => routerId # Nothing
    /\ outputs[o] = Nothing
    /\ outputs' = [outputs EXCEPT ![o] = <<primary, backup>>]
    /\ UNCHANGED <<networkMode, primary, backup, routerId, keyPair>>

\* unmap: an output is spent.  The witness script is that of the keys that
\* are registered.
Spend(o) ==
    /\ outputs[o] # Nothing
    /\ LoadPublicKeys
    /\ outputs' = [outputs EXCEPT ![o] = Nothing]
    /\ UNCHANGED <<networkMode, primary, backup, routerId, keyPair>>

Next ==
    \/ \E sender \in Accounts, p, b \in Fields : RegisterPublicKey(sender, p, b)
    \/ \E sender \in Accounts, r \in Routers \cup {Nothing} :
          RegisterRouter(sender, r)
    \/ \E sender \in Accounts : CreateKeyPair(sender)
    \/ \E o \in Outpoints, swap \in BOOLEAN : Track(o, swap)
    \/ \E o \in Outpoints : Spend(o)

Spec == Init /\ [][Next]_vars

----------------------------------------------------------------------------

TypeOK ==
    /\ networkMode \in NetworkModes
    /\ primary \in Keys
    /\ backup \in Keys
    /\ routerId \in Routers \cup {Nothing}
    /\ keyPair \in BOOLEAN
    /\ outputs \in [Outpoints -> (CompressedKeys \X CompressedKeys) \cup {Nothing}]

\* On mainnet every output that is tracked pays to an address the contract
\* derives from the keys it has, whenever it spends it: no registration in
\* between makes it unspendable.
OutputsStaySpendable ==
    ~IsTestnet =>
        \A o \in Outpoints : outputs[o] # Nothing => outputs[o] = <<primary, backup>>

\* Once a key or the router is registered on mainnet, no call of anybody
\* replaces or removes it.
RegistrationPermanent ==
    [][~IsTestnet =>
          /\ primary # Nothing => primary' = primary
          /\ backup # Nothing => backup' = backup
          /\ routerId # Nothing => routerId' = routerId]_vars

=============================================================================
