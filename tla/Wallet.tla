------------------------------- MODULE Wallet -------------------------------
(***************************************************************************)
(* apps/wallet/services.py: credit() and debit(), called concurrently by   *)
(* web workers and Celery workers on PostgreSQL (READ COMMITTED).          *)
(*                                                                         *)
(* A call is split where another transaction can run in between: the fast  *)
(* path read, the row lock, the re-check under the lock, the insert (where *)
(* the unique index on LedgerEntry.ref makes it wait for, or fail on, a    *)
(* competing insert) and the commit, which publishes the entry and the     *)
(* balance together.  Callers such as complete_pending_order() wrap the    *)
(* call in a transaction of their own, so until the commit the call can    *)
(* also be rolled back by what the caller does next or by a crash.         *)
(***************************************************************************)
EXTENDS Integers, Sequences

CONSTANTS Wallets,   \* Wallet rows
          Refs,      \* idempotency refs
          Types,     \* LedgerEntry.Type.values
          Requests,  \* the calls made, refused arguments included
          Callers,   \* concurrent callers: web requests and jobs
          NoCaller   \* an unlocked row

\* entry_type is a string the service itself validates, so it is not typed.
ASSUME WalletAssumption ==
  /\ \A r \in Requests : /\ r.op \in {"credit", "debit"}
                         /\ r.wallet \in Wallets
                         /\ r.amount \in Int
                         /\ r.ref \in Refs
  /\ Requests # {}
  /\ NoCaller \notin Callers

VARIABLES balance,  \* balance[w]: the column Wallet.balance
          ledger,   \* ledger[w]: the LedgerEntry rows of w, oldest first
          lock,     \* lock[w]: the transaction holding FOR UPDATE on w's row
          pc,       \* pc[c]: where caller c is in credit() or debit()
          req,      \* req[c]: the arguments of c's call
          answer    \* answer[c]: what c's last call returned or raised

vars == <<balance, ledger, lock, pc, req, answer>>

\* Ledger amounts are negative for debits.
Signed(r) == IF r.op = "credit" THEN r.amount ELSE -r.amount

Entry == [type : Types, amount : Int, balance_after : Int, ref : Refs]

\* Program points at which a caller holds its wallet's row lock.
Holding == {"recheck", "insert", "commit"}

Outcomes == {"none", "entry", "ValueError", "InsufficientBalance", "rolled_back"}

-----------------------------------------------------------------------------
\* LedgerEntry.objects.filter(ref=ref).first() finds a committed row.
Posted(ref) ==
  \E w \in Wallets : \E i \in DOMAIN ledger[w] : ledger[w][i].ref = ref

\* The recorded entry has the wallet, the type and the direction asked for;
\* the amounts are not compared.
check_idempotent_match(r) ==
  \E i \in DOMAIN ledger[r.wallet] :
     LET e == ledger[r.wallet][i] IN
     /\ e.ref = r.ref
     /\ e.type = r.type
     /\ (e.amount > 0) = (r.op = "credit")

\* Mutant: any recorded entry with the ref counts as success.
ReplayUnchecked(r) == "entry"

\* What a call that finds its ref recorded returns or raises.
Replay(r) == IF check_idempotent_match(r) THEN "entry" ELSE "ValueError"

Finish(c, outcome) ==
  /\ pc' = [pc EXCEPT ![c] = "idle"]
  /\ answer' = [answer EXCEPT ![c] = outcome]

Goto(c, point) ==
  /\ pc' = [pc EXCEPT ![c] = point]
  /\ UNCHANGED answer

\* Mutant: the row lock outlives the transaction.
UnlockForgotten(c) == UNCHANGED lock

Unlock(c) == lock' = [lock EXCEPT ![req[c].wallet] = NoCaller]

-----------------------------------------------------------------------------
Init ==
  /\ balance = [w \in Wallets |-> 0]
  /\ ledger = [w \in Wallets |-> <<>>]
  /\ lock = [w \in Wallets |-> NoCaller]
  /\ pc = [c \in Callers |-> "idle"]
  /\ req = [c \in Callers |-> CHOOSE r \in Requests : TRUE]
  /\ answer = [c \in Callers |-> "none"]

\* A positive amount and, by _validate_entry_type, a known entry type.
Valid(r) == r.amount > 0 /\ r.type \in Types

\* The arguments are validated before anything is read.
Call(c, r) ==
  /\ pc[c] = "idle"
  /\ req' = [req EXCEPT ![c] = r]
  /\ IF Valid(r)
       THEN /\ pc' = [pc EXCEPT ![c] = "fast"]
            /\ answer' = [answer EXCEPT ![c] = "none"]
       ELSE Finish(c, "ValueError")
  /\ UNCHANGED <<balance, ledger, lock>>

\* Already processed: answered without taking the lock.
FastPath(c) ==
  /\ pc[c] = "fast"
  /\ IF Posted(req[c].ref) THEN Finish(c, Replay(req[c])) ELSE Goto(c, "lock")
  /\ UNCHANGED <<balance, ledger, lock, req>>

\* Wallet.objects.select_for_update().get(pk=wallet.pk)
LockWallet(c) ==
  /\ pc[c] = "lock"
  /\ lock[req[c].wallet] = NoCaller
  /\ lock' = [lock EXCEPT ![req[c].wallet] = c]
  /\ Goto(c, "recheck")
  /\ UNCHANGED <<balance, ledger, req>>

\* Under the lock: the ref again, then, for a debit, the balance.
Recheck(c) ==
  LET r == req[c]
      short == r.op = "debit" /\ balance[r.wallet] < r.amount
  IN
  /\ pc[c] = "recheck"
  /\ \/ /\ Posted(r.ref)
        /\ Finish(c, Replay(r))
        /\ Unlock(c)
     \/ /\ ~Posted(r.ref) /\ short
        /\ Finish(c, "InsufficientBalance")
        /\ Unlock(c)
     \/ /\ ~Posted(r.ref) /\ ~short
        /\ Goto(c, "insert")
        /\ UNCHANGED lock
  /\ UNCHANGED <<balance, ledger, req>>

\* Mutant: no unique index on ref.
InsertUnindexed(c) ==
  /\ pc[c] = "insert"
  /\ Goto(c, "commit")
  /\ UNCHANGED <<balance, ledger, lock, req>>

\* LedgerEntry.objects.create().  The unique index makes the insert wait for
\* an uncommitted row with the same ref.  A committed one is an
\* IntegrityError, after which the transaction accepts no further query: the
\* backstop's own lookup raises and everything is rolled back.
Insert(c) ==
  /\ pc[c] = "insert"
  /\ \A d \in Callers \ {c} : ~(pc[d] = "commit" /\ req[d].ref = req[c].ref)
  /\ \/ /\ Posted(req[c].ref)
        /\ Finish(c, "rolled_back")
        /\ Unlock(c)
     \/ /\ ~Posted(req[c].ref)
        /\ Goto(c, "commit")
        /\ UNCHANGED lock
  /\ UNCHANGED <<balance, ledger, req>>

\* Mutant: the entry is written, the balance not saved.
CommitUnsaved(c) ==
  LET w == req[c].wallet
      entry == [type |-> req[c].type, amount |-> Signed(req[c]),
                balance_after |-> balance[w] + Signed(req[c]), ref |-> req[c].ref]
  IN
  /\ pc[c] = "commit"
  /\ ledger' = [ledger EXCEPT ![w] = Append(@, entry)]
  /\ Unlock(c) /\ Finish(c, "entry")
  /\ UNCHANGED <<balance, req>>

\* locked.save() and the commit: entry and balance become visible together.
Commit(c) ==
  LET w == req[c].wallet
      new_balance == balance[w] + Signed(req[c])
  IN
  /\ pc[c] = "commit"
  /\ ledger' = [ledger EXCEPT ![w] = Append(@,
                  [type |-> req[c].type, amount |-> Signed(req[c]),
                   balance_after |-> new_balance, ref |-> req[c].ref])]
  /\ balance' = [balance EXCEPT ![w] = new_balance]
  /\ Unlock(c)
  /\ Finish(c, "entry")
  /\ UNCHANGED req

\* The surrounding transaction fails after the lock was taken: another step
\* of the caller raises, or its process dies.
Rollback(c) ==
  /\ pc[c] \in Holding
  /\ Unlock(c)
  /\ Finish(c, "rolled_back")
  /\ UNCHANGED <<balance, ledger, req>>

Step(c) ==
  FastPath(c) \/ LockWallet(c) \/ Recheck(c) \/ Insert(c) \/ Commit(c)

Next == \E c \in Callers :
          \/ \E r \in Requests : Call(c, r)
          \/ Step(c)
          \/ Rollback(c)

\* A running worker goes on; PostgreSQL queues the waiters of a row lock and
\* of an index entry, so a waiter is served in turn.
Spec == Init /\ [][Next]_vars /\ \A c \in Callers : SF_vars(Step(c))

-----------------------------------------------------------------------------
TypeOK ==
  /\ balance \in [Wallets -> Int]
  /\ ledger \in [Wallets -> Seq(Entry)]
  /\ lock \in [Wallets -> Callers \cup {NoCaller}]
  /\ pc \in [Callers -> {"idle", "fast", "lock"} \cup Holding]
  /\ req \in [Callers -> Requests]
  /\ answer \in [Callers -> Outcomes]

\* The balance column and every balance_after are what replaying the amounts
\* of the wallet's ledger from zero gives, whatever calls interleave.
LedgerReplays ==
  \A w \in Wallets :
    /\ \A i \in DOMAIN ledger[w] :
         ledger[w][i].balance_after =
           ledger[w][i].amount + IF i = 1 THEN 0 ELSE ledger[w][i-1].balance_after
    /\ balance[w] = IF ledger[w] = <<>> THEN 0
                    ELSE ledger[w][Len(ledger[w])].balance_after

\* No debit ever overdraws: concurrent debits that each passed their check
\* cannot together take a wallet below zero, now or in any recorded row.
NeverOverdrawn ==
  \A w \in Wallets :
    /\ balance[w] >= 0
    /\ \A i \in DOMAIN ledger[w] : ledger[w][i].balance_after >= 0

\* A ref moves money at most once over all wallets, although two calls with
\* the same ref on different wallets hold different row locks.
RefPostedOnce ==
  \A v, w \in Wallets : \A i \in DOMAIN ledger[v], j \in DOMAIN ledger[w] :
    ledger[v][i].ref = ledger[w][j].ref => v = w /\ i = j

\* A call that returned an entry really has one on record for its wallet, its
\* type and its direction: success is never reported for money that did not
\* move, not even when the answer came from the lock-free fast path.
AnswerIsOnRecord ==
  \A c \in Callers : answer[c] = "entry" => check_idempotent_match(req[c])

\* The concurrent service implements the abstract ledger: every step either
\* posts exactly one fresh ref or leaves balances and ledger alone.
Ledger == INSTANCE WalletLedger
            WITH Amounts <- {r.amount : r \in Requests}
ImplementsLedger == Ledger!Spec

\* Every call returns or raises: no caller waits for ever on the row lock or
\* on the unique index.
CallsReturn == \A c \in Callers : pc[c] # "idle" ~> pc[c] = "idle"
=============================================================================
