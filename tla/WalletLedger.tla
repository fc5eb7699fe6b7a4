---------------------------- MODULE WalletLedger ----------------------------
(***************************************************************************)
(* What the wallet service promises its callers (the rules at the top of   *)
(* apps/wallet/services.py): a balance only changes together with one new  *)
(* ledger entry that explains the change, no idempotency ref is posted     *)
(* twice, and no debit takes a balance below zero.                         *)
(***************************************************************************)
EXTENDS Integers, Sequences

CONSTANTS Wallets,  \* Wallet rows
          Refs,     \* idempotency refs ("topup:<id>", "order:<id>", ...)
          Types,    \* LedgerEntry.Type values
          Amounts   \* amounts callers may ask for

VARIABLES balance,  \* balance[w]: the column Wallet.balance
          ledger    \* ledger[w]: the LedgerEntry rows of w, oldest first

lvars == <<balance, ledger>>

\* The ref is already recorded in some wallet's ledger.
Posted(ref) ==
  \E w \in Wallets : \E i \in DOMAIN ledger[w] : ledger[w][i].ref = ref

Init == /\ balance = [w \in Wallets |-> 0]
        /\ ledger = [w \in Wallets |-> <<>>]

\* One credit (signed > 0) or one debit (signed < 0) takes effect.
Post(w, type, signed, ref) ==
  /\ ~Posted(ref)
  /\ balance[w] + signed >= 0
  /\ balance' = [balance EXCEPT ![w] = @ + signed]
  /\ ledger' = [ledger EXCEPT ![w] = Append(@,
                  [type |-> type, amount |-> signed,
                   balance_after |-> balance[w] + signed, ref |-> ref])]

Next ==
  \E w \in Wallets, type \in Types, ref \in Refs, amount \in Amounts :
     /\ amount > 0
     /\ \/ Post(w, type, amount, ref)
        \/ Post(w, type, -amount, ref)

Spec == Init /\ [][Next]_lvars
=============================================================================
