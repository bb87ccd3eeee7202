---------------------------- MODULE WitnessScript ----------------------------
(***************************************************************************)
(* The witness script of an address of the bridge (contract/mapping/       *)
(* utils.go, createP2WSHAddressWithBackup) and what it takes to spend an   *)
(* output that pays to it.  The primary key can spend at any time, the     *)
(* backup key once the output has been confirmed for a number of blocks.   *)
(* The contract only builds the script.  Bitcoin executes it, one          *)
(* operation at a time, on a stack that starts as the spender's witness.   *)
(***************************************************************************)
EXTENDS Integers, Sequences, FiniteSets

CONSTANTS
    Mainnet,        \* network.Net = chaincfg.MainNetParams.Net
    Instructions,   \* the tags of deposit addresses, hashes of instructions
    Nil,            \* the tag nil, of the change address
    Ages,           \* the confirmations an output has when it is spent
    MaxWitness,     \* bound on the elements of a witness
    Primary, Backup,        \* the public keys
    BySignerOf(_),  \* the signature that is valid for a key
    Delay,          \* the number of blocks, as an element of the stack
    Empty, One      \* the elements of no bytes and of the byte 1

WitnessScriptAssumption == One # Empty /\ Ages \subseteq Nat /\ MaxWitness \in Nat

Tags == Instructions \cup {Nil, Empty}

\* The delay of the backup path, in blocks.
CsvBlocks == IF Mainnet THEN 4320 ELSE 2

Op(name) == [op |-> name, data |-> Empty]
Push(data) == [op |-> "PUSH", data |-> data]

\* AddData(nil) pushes the empty element, as AddData of no bytes does.
Bytes(tag) == IF tag = Nil THEN Empty ELSE tag

----------------------------------------------------------------------------
\* Mutant of BackupPath: the backup key need not wait.
BackupPathAtOnce ==
    << Push(Backup), Op("CHECKSIG") >>

BackupPath ==
    << Push(Delay), Op("CHECKSEQUENCEVERIFY"), Op("DROP"),
       Push(Backup), Op("CHECKSIG") >>

\* A tag of no bytes that is not nil leaves the result of the signature on
\* the stack; any other tag is left there itself.
PrimaryPath(tag) ==
    IF tag = Nil \/ tag # Empty
    THEN << Push(Primary), Op("CHECKSIGVERIFY"), Push(Bytes(tag)) >>
    ELSE << Push(Primary), Op("CHECKSIG") >>

\* Mutant of Script: the branches are swapped.
ScriptSwapped(tag) ==
    <<Op("IF")>> \o BackupPath \o <<Op("ELSE")>> \o PrimaryPath(tag) \o <<Op("ENDIF")>>

Script(tag) ==
    <<Op("IF")>> \o PrimaryPath(tag) \o <<Op("ELSE")>> \o BackupPath \o <<Op("ENDIF")>>

----------------------------------------------------------------------------
VARIABLES
    tag,        \* the tag of the output that is spent
    witness,    \* the elements its spender gives, the script left out
    age,        \* the output's confirmations
    pc,         \* the position in the script
    stack,      \* the stack of the execution, its top last
    branch,     \* "none" outside OP_IF, else "taken" or "skipped"
    verdict     \* "none" while the script runs, then "valid" or "invalid"

vars == <<tag, witness, age, pc, stack, branch, verdict>>

Signatures == {BySignerOf(Primary), BySignerOf(Backup)}
Elements == Signatures \cup {Empty, One}
Witnesses == UNION {[1..n -> Elements] : n \in 1..MaxWitness}

Init ==
    /\ tag \in Tags
    /\ witness \in Witnesses
    /\ age \in Ages
    /\ pc = 1
    /\ stack = witness
    /\ branch = "none"
    /\ verdict = "none"

Top == stack[Len(stack)]
Pop == SubSeq(stack, 1, Len(stack) - 1)
Truth(b) == IF b THEN One ELSE Empty

Advance == /\ pc' = pc + 1
           /\ UNCHANGED <<tag, witness, age, verdict>>

Fail == /\ verdict' = "invalid"
        /\ UNCHANGED <<tag, witness, age, pc, stack, branch>>

Running(name) ==
    /\ verdict = "none"
    /\ pc <= Len(Script(tag))
    /\ Script(tag)[pc].op = name

\* An operation in the branch that is not taken is passed over.
Skip ==
    /\ branch = "skipped"
    /\ \E name \in {"PUSH", "CHECKSIG", "CHECKSIGVERIFY", "CHECKSEQUENCEVERIFY",
                    "DROP"} : Running(name)
    /\ Advance
    /\ UNCHANGED <<stack, branch>>

\* The branch is chosen by the top of the stack.
If ==
    /\ Running("IF")
    /\ branch' = IF Top = Empty THEN "skipped" ELSE "taken"
    /\ stack' = Pop
    /\ Advance

Else ==
    /\ Running("ELSE")
    /\ branch' = IF branch = "taken" THEN "skipped" ELSE "taken"
    /\ Advance
    /\ UNCHANGED stack

EndIf ==
    /\ Running("ENDIF")
    /\ branch' = "none"
    /\ Advance
    /\ UNCHANGED stack

PushData ==
    /\ branch = "taken"
    /\ Running("PUSH")
    /\ stack' = Append(stack, Script(tag)[pc].data)
    /\ Advance
    /\ UNCHANGED branch

Drop ==
    /\ branch = "taken"
    /\ Running("DROP")
    /\ stack' = Pop
    /\ Advance
    /\ UNCHANGED branch

\* A key and a signature become the answer.  A signature that is neither
\* valid nor empty fails the script.
CheckSig ==
    /\ branch = "taken"
    /\ Running("CHECKSIG")
    /\ IF Len(stack) < 2 THEN Fail
       ELSE LET signature == stack[Len(stack) - 1]
            IN  IF signature \notin {BySignerOf(Top), Empty} THEN Fail
                ELSE /\ stack' = Append(SubSeq(stack, 1, Len(stack) - 2),
                                        Truth(signature = BySignerOf(Top)))
                     /\ Advance
                     /\ UNCHANGED branch

CheckSigVerify ==
    /\ branch = "taken"
    /\ Running("CHECKSIGVERIFY")
    /\ IF Len(stack) < 2 \/ stack[Len(stack) - 1] # BySignerOf(Top) THEN Fail
       ELSE /\ stack' = SubSeq(stack, 1, Len(stack) - 2)
            /\ Advance
            /\ UNCHANGED branch

CheckSequenceVerify ==
    /\ branch = "taken"
    /\ Running("CHECKSEQUENCEVERIFY")
    /\ IF age < CsvBlocks THEN Fail ELSE Advance /\ UNCHANGED <<stack, branch>>

\* One true element is to be left.
Finish ==
    /\ verdict = "none"
    /\ pc > Len(Script(tag))
    /\ verdict' = IF Len(stack) = 1 /\ stack[1] # Empty THEN "valid" ELSE "invalid"
    /\ UNCHANGED <<tag, witness, age, pc, stack, branch>>

Next ==
    \/ If \/ Else \/ EndIf \/ Skip
    \/ PushData \/ Drop
    \/ CheckSig \/ CheckSigVerify \/ CheckSequenceVerify
    \/ Finish

Spec == Init /\ [][Next]_vars

----------------------------------------------------------------------------

Gives(signature) == \E i \in DOMAIN witness : witness[i] = signature

TypeOK ==
    /\ tag \in Tags
    /\ age \in Ages
    /\ pc \in 1..(Len(Script(tag)) + 1)
    /\ stack \in Seq(Elements \cup Instructions \cup {Primary, Backup, Delay})
    /\ Len(stack) <= MaxWitness
    /\ branch \in {"none", "taken", "skipped"}
    /\ verdict \in {"none", "valid", "invalid"}

\* Whatever witness is tried against the script, with elements missing,
\* repeated or out of order, it takes the signature of the primary key, or
\* that of the backup key on an output that is old enough.
OnlyKeysSpend ==
    verdict = "valid" =>
        \/ Gives(BySignerOf(Primary))
        \/ Gives(BySignerOf(Backup)) /\ age >= CsvBlocks

\* The primary key can always spend a deposit, and an output stored with the
\* tag that is empty and not nil: the two kinds the contract signs for.
PrimarySpendsTagged ==
    witness = <<BySignerOf(Primary), One>> /\ tag # Nil => verdict # "invalid"

\* The backup key recovers every output, change included, once it is old
\* enough.
BackupRecovers ==
    witness = <<BySignerOf(Backup), Empty>> /\ age >= CsvBlocks
        => verdict # "invalid"

\* The keys can spend what is theirs: neither witness fails.
KeysSpend == PrimarySpendsTagged /\ BackupRecovers

=============================================================================
