---------------------------- MODULE WalletProofs ----------------------------
(***************************************************************************)
(* The wallet service is correct for any number of wallets, refs, callers  *)
(* and calls.  IInv is inductive: mutual exclusion on the wallet row, the  *)
(* conditions a caller established under the lock still hold when it       *)
(* commits, and the unique index keeps competing inserts of a ref apart.   *)
(***************************************************************************)
EXTENDS Wallet, TLAPS

-----------------------------------------------------------------------------
\* Appending one entry to the ledger of w, pointwise.
LEMMA AppendEntry ==
  ASSUME TypeOK, NEW w \in Wallets, NEW e \in Entry,
         ledger' = [ledger EXCEPT ![w] = Append(@, e)]
  PROVE  /\ ledger' \in [Wallets -> Seq(Entry)]
         /\ \A v \in Wallets : v # w => ledger'[v] = ledger[v]
         /\ ledger'[w] # <<>>
         /\ Len(ledger'[w]) = Len(ledger[w]) + 1
         /\ DOMAIN ledger'[w] = DOMAIN ledger[w] \cup {Len(ledger[w]) + 1}
         /\ \A i \in DOMAIN ledger[w] : ledger'[w][i] = ledger[w][i]
         /\ ledger'[w][Len(ledger[w]) + 1] = e
<1>1. ledger[w] \in Seq(Entry) /\ ledger'[w] = Append(ledger[w], e)
  BY DEF TypeOK
<1>2. /\ ledger' \in [Wallets -> Seq(Entry)]
      /\ \A v \in Wallets : v # w => ledger'[v] = ledger[v]
  BY <1>1 DEF TypeOK
<1>3. /\ Len(ledger'[w]) = Len(ledger[w]) + 1
      /\ \A i \in 1..Len(ledger[w]) : ledger'[w][i] = ledger[w][i]
      /\ ledger'[w][Len(ledger[w]) + 1] = e
  BY <1>1
<1>4. DOMAIN ledger[w] = 1..Len(ledger[w]) /\ DOMAIN ledger'[w] = 1..Len(ledger'[w])
  BY <1>1, <1>2
<1>5. Len(ledger[w]) \in Nat
  BY <1>1
<1>6. ledger'[w] # <<>>
  BY <1>3, <1>5
<1> QED BY <1>2, <1>3, <1>4, <1>5, <1>6

\* A recorded ref stays recorded, and only the appended one is new.
LEMMA PostedAfterAppend ==
  ASSUME TypeOK, NEW w \in Wallets, NEW e \in Entry,
         ledger' = [ledger EXCEPT ![w] = Append(@, e)]
  PROVE  \A ref : Posted(ref)' <=> Posted(ref) \/ ref = e.ref
<1>1. ASSUME NEW ref, Posted(ref) PROVE Posted(ref)'
  <2>1. PICK v \in Wallets : \E i \in DOMAIN ledger[v] : ledger[v][i].ref = ref
    BY <1>1 DEF Posted
  <2>2. PICK i \in DOMAIN ledger[v] : ledger[v][i].ref = ref
    BY <2>1
  <2>3. i \in DOMAIN ledger'[v] /\ ledger'[v][i] = ledger[v][i]
    BY AppendEntry, <2>2
  <2> QED BY <2>2, <2>3 DEF Posted
<1>2. Posted(e.ref)'
  <2>1. Len(ledger[w]) + 1 \in DOMAIN ledger'[w] /\ ledger'[w][Len(ledger[w]) + 1] = e
    BY AppendEntry
  <2> QED BY <2>1 DEF Posted
<1>3. ASSUME NEW ref, Posted(ref)', ~Posted(ref) PROVE ref = e.ref
  <2>1. PICK v \in Wallets : \E i \in DOMAIN ledger'[v] : ledger'[v][i].ref = ref
    BY <1>3 DEF Posted
  <2>2. PICK i \in DOMAIN ledger'[v] : ledger'[v][i].ref = ref
    BY <2>1
  <2>3. CASE v # w
    BY <2>2, <2>3, <1>3, AppendEntry DEF Posted
  <2>4. CASE v = w
    BY <2>2, <2>4, <1>3, AppendEntry DEF Posted
  <2> QED BY <2>3, <2>4
<1> QED BY <1>1, <1>2, <1>3

-----------------------------------------------------------------------------
\* A row is locked exactly by the caller working on it.
LockInv ==
  \A c \in Callers :
    /\ pc[c] \in Holding => lock[req[c].wallet] = c
    /\ \A w \in Wallets : lock[w] = c => pc[c] \in Holding /\ req[c].wallet = w

\* What a caller has established on the way to its commit and relies on there.
InFlight ==
  \A c \in Callers :
    /\ pc[c] # "idle" => req[c].amount > 0 /\ req[c].type \in Types
    /\ pc[c] \in {"insert", "commit"} =>
         balance[req[c].wallet] + Signed(req[c]) >= 0
    /\ pc[c] = "commit" => ~Posted(req[c].ref)

\* The unique index admits one uncommitted row per ref.
OneInsertPerRef ==
  \A c, d \in Callers :
    pc[c] = "commit" /\ pc[d] = "commit" /\ req[c].ref = req[d].ref => c = d

IInv == /\ TypeOK
        /\ LockInv
        /\ InFlight
        /\ OneInsertPerRef
        /\ LedgerReplays
        /\ NeverOverdrawn
        /\ RefPostedOnce
        /\ AnswerIsOnRecord

-----------------------------------------------------------------------------
\* Steps that leave the ledger and the balances alone keep what is said of
\* them; only the callers' own state is left to look at.
LEMMA BooksUntouched ==
  ASSUME IInv, UNCHANGED <<balance, ledger>>
  PROVE  /\ LedgerReplays' /\ NeverOverdrawn' /\ RefPostedOnce'
         /\ \A ref : Posted(ref)' <=> Posted(ref)
         /\ \A r : check_idempotent_match(r)' <=> check_idempotent_match(r)
BY DEF IInv, LedgerReplays, NeverOverdrawn, RefPostedOnce, Posted,
       check_idempotent_match

LEMMA InitIInv == Init => IInv
<1> SUFFICES ASSUME Init PROVE IInv
  OBVIOUS
<1> USE DEF Init
<1>1. (CHOOSE r \in Requests : TRUE) \in Requests
  BY WalletAssumption
<1>2. TypeOK
  BY <1>1 DEF TypeOK, Outcomes
<1>3. LockInv /\ InFlight /\ OneInsertPerRef
  BY WalletAssumption DEF LockInv, InFlight, OneInsertPerRef, Holding
<1>4. LedgerReplays /\ NeverOverdrawn /\ RefPostedOnce
  BY DEF LedgerReplays, NeverOverdrawn, RefPostedOnce
<1>5. AnswerIsOnRecord
  BY DEF AnswerIsOnRecord
<1> QED BY <1>2, <1>3, <1>4, <1>5 DEF IInv

\* The steps that post nothing.
LEMMA QuietSteps ==
  ASSUME IInv, NEW c \in Callers,
         \/ \E r \in Requests : Call(c, r)
         \/ FastPath(c) \/ LockWallet(c) \/ Recheck(c) \/ Insert(c) \/ Rollback(c)
  PROVE  IInv'
<1>0. TypeOK /\ LockInv /\ InFlight /\ OneInsertPerRef /\ AnswerIsOnRecord
  BY DEF IInv
<1>1. UNCHANGED <<balance, ledger>>
  BY DEF Call, FastPath, LockWallet, Recheck, Insert, Rollback
<1>2. /\ LedgerReplays' /\ NeverOverdrawn' /\ RefPostedOnce'
      /\ \A ref : Posted(ref)' <=> Posted(ref)
      /\ \A r : check_idempotent_match(r)' <=> check_idempotent_match(r)
  BY <1>1, BooksUntouched
<1>3. TypeOK'
  <2>1. balance' \in [Wallets -> Int] /\ ledger' \in [Wallets -> Seq(Entry)]
    BY <1>0, <1>1 DEF TypeOK
  <2>2. req' \in [Callers -> Requests]
    BY <1>0 DEF TypeOK, Call, FastPath, LockWallet, Recheck, Insert, Rollback
  <2>3. /\ pc' \in [Callers -> {"idle", "fast", "lock"} \cup Holding]
        /\ answer' \in [Callers -> Outcomes]
    BY <1>0 DEF TypeOK, Call, FastPath, LockWallet, Recheck, Insert, Rollback,
                Finish, Goto, Replay, Outcomes, Holding
  <2>4. lock' \in [Wallets -> Callers \cup {NoCaller}]
    BY <1>0 DEF TypeOK, Call, FastPath, LockWallet, Recheck, Insert, Rollback, Unlock
  <2> QED BY <2>1, <2>2, <2>3, <2>4 DEF TypeOK
<1>4. ASSUME NEW r \in Requests, Call(c, r) PROVE IInv'
  <2>1. /\ pc[c] = "idle" /\ req' = [req EXCEPT ![c] = r] /\ lock' = lock
        /\ \/ /\ r.amount > 0 /\ r.type \in Types
              /\ pc' = [pc EXCEPT ![c] = "fast"]
              /\ answer' = [answer EXCEPT ![c] = "none"]
           \/ /\ pc' = [pc EXCEPT ![c] = "idle"]
              /\ answer' = [answer EXCEPT ![c] = "ValueError"]
    BY <1>4 DEF Call, Valid, Finish
  <2>2. LockInv'
    BY <1>0, <2>1 DEF LockInv, TypeOK, Holding
  <2>3. InFlight'
    BY <1>0, <1>1, <1>2, <2>1 DEF InFlight, TypeOK, Signed, Holding
  <2>4. OneInsertPerRef'
    BY <1>0, <2>1 DEF OneInsertPerRef, TypeOK
  <2>5. AnswerIsOnRecord'
    BY <1>0, <1>2, <2>1 DEF AnswerIsOnRecord, TypeOK
  <2> QED BY <1>2, <1>3, <2>2, <2>3, <2>4, <2>5 DEF IInv
<1>5. ASSUME FastPath(c) PROVE IInv'
  <2>1. /\ pc[c] = "fast" /\ req' = req /\ lock' = lock
        /\ \/ /\ Posted(req[c].ref)
              /\ pc' = [pc EXCEPT ![c] = "idle"]
              /\ answer' = [answer EXCEPT ![c] = Replay(req[c])]
           \/ /\ pc' = [pc EXCEPT ![c] = "lock"]
              /\ answer' = answer
    BY <1>5 DEF FastPath, Finish, Goto
  <2>2. LockInv'
    BY <1>0, <2>1 DEF LockInv, TypeOK, Holding
  <2>3. InFlight'
    BY <1>0, <1>1, <1>2, <2>1 DEF InFlight, TypeOK, Signed
  <2>4. OneInsertPerRef'
    BY <1>0, <2>1 DEF OneInsertPerRef, TypeOK
  <2>5. AnswerIsOnRecord'
    BY <1>0, <1>2, <2>1 DEF AnswerIsOnRecord, TypeOK, Replay
  <2> QED BY <1>2, <1>3, <2>2, <2>3, <2>4, <2>5 DEF IInv
<1>6. ASSUME LockWallet(c) PROVE IInv'
  <2>1. /\ pc[c] = "lock" /\ req' = req /\ answer' = answer
        /\ lock[req[c].wallet] = NoCaller
        /\ lock' = [lock EXCEPT ![req[c].wallet] = c]
        /\ pc' = [pc EXCEPT ![c] = "recheck"]
    BY <1>6 DEF LockWallet, Goto
  <2>2. req[c].wallet \in Wallets
    BY <1>0, WalletAssumption DEF TypeOK
  <2>3. LockInv'
    BY <1>0, <2>1, <2>2, WalletAssumption DEF LockInv, TypeOK, Holding
  <2>4. InFlight' /\ OneInsertPerRef'
    BY <1>0, <1>1, <1>2, <2>1 DEF InFlight, OneInsertPerRef, TypeOK, Signed
  <2>5. AnswerIsOnRecord'
    BY <1>0, <1>2, <2>1 DEF AnswerIsOnRecord, TypeOK
  <2> QED BY <1>2, <1>3, <2>3, <2>4, <2>5 DEF IInv
\* c gives the row back and answers with an outcome that is not made up.
<1>7. ASSUME pc[c] \in Holding, req' = req, Unlock(c),
             NEW outcome \in Outcomes, Finish(c, outcome),
             outcome = "entry" => check_idempotent_match(req[c])
      PROVE  IInv'
  <2>1. /\ lock' = [lock EXCEPT ![req[c].wallet] = NoCaller]
        /\ pc' = [pc EXCEPT ![c] = "idle"]
        /\ answer' = [answer EXCEPT ![c] = outcome]
    BY <1>7 DEF Unlock, Finish
  <2>2. \A d \in Callers : req[d].wallet \in Wallets
    BY <1>0, WalletAssumption DEF TypeOK
  <2>3. LockInv'
    BY <1>0, <1>7, <2>1, <2>2, WalletAssumption DEF LockInv, TypeOK, Holding
  <2>4. InFlight' /\ OneInsertPerRef'
    BY <1>0, <1>1, <1>2, <1>7, <2>1 DEF InFlight, OneInsertPerRef, TypeOK, Signed
  <2>5. AnswerIsOnRecord'
    BY <1>0, <1>2, <1>7, <2>1 DEF AnswerIsOnRecord, TypeOK
  <2> QED BY <1>2, <1>3, <2>3, <2>4, <2>5 DEF IInv
<1>8. ASSUME Recheck(c) PROVE IInv'
  <2>1. pc[c] \in Holding /\ req' = req
    BY <1>8 DEF Recheck, Holding
  <2>2. CASE Posted(req[c].ref)
    <3>1. Finish(c, Replay(req[c])) /\ Unlock(c)
      BY <1>8, <2>2 DEF Recheck
    <3>2. Replay(req[c]) \in Outcomes
      BY DEF Replay, Outcomes
    <3>3. Replay(req[c]) = "entry" => check_idempotent_match(req[c])
      BY DEF Replay
    <3> QED BY <1>7, <2>1, <3>1, <3>2, <3>3
  <2>3. CASE ~Posted(req[c].ref) /\ req[c].op = "debit"
                                /\ balance[req[c].wallet] < req[c].amount
    <3>1. Finish(c, "InsufficientBalance") /\ Unlock(c)
      BY <1>8, <2>3 DEF Recheck
    <3> QED BY <1>7, <2>1, <3>1 DEF Outcomes
  <2>4. CASE ~Posted(req[c].ref) /\ ~(req[c].op = "debit"
                                /\ balance[req[c].wallet] < req[c].amount)
    <3>1. /\ pc[c] = "recheck" /\ lock' = lock /\ answer' = answer
          /\ pc' = [pc EXCEPT ![c] = "insert"]
      BY <1>8, <2>4 DEF Recheck, Goto
    <3>2. LockInv' /\ OneInsertPerRef'
      BY <1>0, <2>1, <3>1 DEF LockInv, OneInsertPerRef, TypeOK, Holding
    <3>3. balance[req[c].wallet] + Signed(req[c]) >= 0
      <4>1. /\ req[c].amount \in Int /\ req[c].amount > 0
            /\ req[c].op \in {"credit", "debit"} /\ req[c].wallet \in Wallets
        BY <1>0, <3>1, WalletAssumption DEF TypeOK, InFlight
      <4>2. balance[req[c].wallet] \in Int /\ balance[req[c].wallet] >= 0
        BY <4>1 DEF IInv, TypeOK, NeverOverdrawn
      <4> QED BY <2>4, <4>1, <4>2 DEF Signed
    <3>4. InFlight'
      BY <1>0, <1>1, <1>2, <2>1, <3>1, <3>3 DEF InFlight, TypeOK, Signed
    <3>5. AnswerIsOnRecord'
      BY <1>0, <1>2, <2>1, <3>1 DEF AnswerIsOnRecord, TypeOK
    <3> QED BY <1>2, <1>3, <3>2, <3>4, <3>5 DEF IInv
  <2> QED BY <2>2, <2>3, <2>4
<1>9. ASSUME Insert(c) PROVE IInv'
  <2>1. pc[c] \in Holding /\ req' = req
    BY <1>9 DEF Insert, Holding
  <2>2. CASE Posted(req[c].ref)
    <3>1. Finish(c, "rolled_back") /\ Unlock(c)
      BY <1>9, <2>2 DEF Insert
    <3> QED BY <1>7, <2>1, <3>1 DEF Outcomes
  <2>3. CASE ~Posted(req[c].ref)
    <3>1. /\ pc[c] = "insert" /\ lock' = lock /\ answer' = answer
          /\ pc' = [pc EXCEPT ![c] = "commit"]
          /\ \A d \in Callers \ {c} : ~(pc[d] = "commit" /\ req[d].ref = req[c].ref)
      BY <1>9, <2>3 DEF Insert, Goto
    <3>2. LockInv' /\ OneInsertPerRef'
      BY <1>0, <2>1, <3>1 DEF LockInv, OneInsertPerRef, TypeOK, Holding
    <3>3. InFlight'
      BY <1>0, <1>1, <1>2, <2>1, <2>3, <3>1 DEF InFlight, TypeOK, Signed
    <3>4. AnswerIsOnRecord'
      BY <1>0, <1>2, <2>1, <3>1 DEF AnswerIsOnRecord, TypeOK
    <3> QED BY <1>2, <1>3, <3>2, <3>3, <3>4 DEF IInv
  <2> QED BY <2>2, <2>3
<1>10. ASSUME Rollback(c) PROVE IInv'
  BY <1>7, <1>10 DEF Rollback, Outcomes
<1> QED BY <1>4, <1>5, <1>6, <1>8, <1>9, <1>10

\* The step that posts: the caller's guarantees under the lock make the new
\* entry consistent, and no other caller loses what it established.
LEMMA CommitStep ==
  ASSUME IInv, NEW c \in Callers, Commit(c)
  PROVE  IInv'
<1> DEFINE w == req[c].wallet
           e == [type |-> req[c].type, amount |-> Signed(req[c]),
                 balance_after |-> balance[w] + Signed(req[c]), ref |-> req[c].ref]
<1>0. TypeOK /\ LockInv /\ InFlight /\ OneInsertPerRef /\ AnswerIsOnRecord
  BY DEF IInv
<1>1. /\ pc[c] = "commit" /\ req' = req
      /\ ledger' = [ledger EXCEPT ![w] = Append(@, e)]
      /\ balance' = [balance EXCEPT ![w] = balance[w] + Signed(req[c])]
      /\ lock' = [lock EXCEPT ![w] = NoCaller]
      /\ pc' = [pc EXCEPT ![c] = "idle"]
      /\ answer' = [answer EXCEPT ![c] = "entry"]
  BY DEF Commit, Unlock, Finish
<1>2. /\ \A d \in Callers : req[d].wallet \in Wallets
      /\ req[c].amount \in Int /\ req[c].amount > 0
      /\ req[c].op \in {"credit", "debit"}
      /\ req[c].type \in Types /\ req[c].ref \in Refs
  BY <1>0, <1>1, WalletAssumption DEF TypeOK, InFlight
<1>3. /\ Signed(req[c]) \in Int
      /\ (Signed(req[c]) > 0) = (req[c].op = "credit")
  BY <1>2 DEF Signed
<1>4. w \in Wallets /\ balance[w] \in Int /\ e \in Entry
  BY <1>0, <1>2, <1>3 DEF TypeOK, Entry
<1>5. balance[w] + Signed(req[c]) >= 0 /\ ~Posted(req[c].ref)
  BY <1>0, <1>1 DEF InFlight
<1>6. /\ ledger' \in [Wallets -> Seq(Entry)]
      /\ \A v \in Wallets : v # w => ledger'[v] = ledger[v]
      /\ ledger'[w] # <<>>
      /\ Len(ledger'[w]) = Len(ledger[w]) + 1
      /\ DOMAIN ledger'[w] = DOMAIN ledger[w] \cup {Len(ledger[w]) + 1}
      /\ \A i \in DOMAIN ledger[w] : ledger'[w][i] = ledger[w][i]
      /\ ledger'[w][Len(ledger[w]) + 1] = e
  BY <1>0, <1>1, <1>4, AppendEntry
<1>7. \A ref : Posted(ref)' <=> Posted(ref) \/ ref = req[c].ref
  BY <1>0, <1>1, <1>4, PostedAfterAppend
<1>8. \A d \in Callers : pc[d] \in Holding /\ d # c => req[d].wallet # w
  BY <1>0, <1>1 DEF LockInv, Holding
<1>9. Len(ledger[w]) \in Nat /\ DOMAIN ledger[w] = 1..Len(ledger[w])
      /\ (ledger[w] = <<>> <=> Len(ledger[w]) = 0)
  <2>1. ledger[w] \in Seq(Entry)
    BY <1>0, <1>4 DEF TypeOK
  <2> QED BY <2>1
<1>10. TypeOK'
  <2>1. balance' \in [Wallets -> Int]
    BY <1>0, <1>1, <1>3, <1>4 DEF TypeOK
  <2>2. lock' \in [Wallets -> Callers \cup {NoCaller}] /\ req' \in [Callers -> Requests]
    BY <1>0, <1>1 DEF TypeOK
  <2>3. /\ pc' \in [Callers -> {"idle", "fast", "lock"} \cup Holding]
        /\ answer' \in [Callers -> Outcomes]
    BY <1>0, <1>1 DEF TypeOK, Outcomes
  <2> QED BY <1>6, <2>1, <2>2, <2>3 DEF TypeOK
<1>11. LockInv'
  BY <1>0, <1>1, <1>2, <1>8, WalletAssumption DEF LockInv, TypeOK, Holding
<1>12. InFlight'
  <2>1. ASSUME NEW d \in Callers, pc'[d] # "idle"
        PROVE  /\ d # c /\ pc'[d] = pc[d] /\ req'[d] = req[d]
               /\ req[d].amount > 0 /\ req[d].type \in Types
    BY <1>0, <1>1, <2>1 DEF TypeOK, InFlight
  <2>2. ASSUME NEW d \in Callers, pc'[d] \in {"insert", "commit"}
        PROVE  balance'[req[d].wallet] + Signed(req[d]) >= 0
    <3>1. d # c /\ pc[d] \in {"insert", "commit"}
      BY <2>1, <2>2
    <3>2. req[d].wallet # w /\ req[d].wallet \in Wallets
      BY <1>2, <1>8, <3>1 DEF Holding
    <3>3. balance'[req[d].wallet] = balance[req[d].wallet]
      BY <1>0, <1>1, <3>2 DEF TypeOK
    <3> QED BY <1>0, <3>1, <3>3 DEF InFlight
  <2>3. ASSUME NEW d \in Callers, pc'[d] = "commit"
        PROVE  ~Posted(req[d].ref)'
    <3>1. d # c /\ pc[d] = "commit"
      BY <2>1, <2>3
    <3>2. req[d].ref # req[c].ref
      BY <1>0, <1>1, <3>1 DEF OneInsertPerRef
    <3>3. ~Posted(req[d].ref)
      BY <1>0, <3>1 DEF InFlight
    <3>4. Posted(req[d].ref)' <=> Posted(req[d].ref) \/ req[d].ref = req[c].ref
      BY <1>0, <1>1, <1>4, PostedAfterAppend
    <3> QED BY <3>2, <3>3, <3>4
  <2> QED BY <1>1, <2>1, <2>2, <2>3 DEF InFlight, Signed
<1>13. OneInsertPerRef'
  BY <1>0, <1>1 DEF OneInsertPerRef, TypeOK
<1>14. LedgerReplays'
  <2>1. ASSUME NEW v \in Wallets, v # w
        PROVE  balance'[v] = balance[v] /\ ledger'[v] = ledger[v]
    BY <1>0, <1>1, <1>6, <2>1 DEF TypeOK
  <2>2. balance'[w] = e.balance_after
    BY <1>0, <1>1, <1>4 DEF TypeOK
  <2>3. e.balance_after = e.amount + IF Len(ledger[w]) = 0 THEN 0
                                     ELSE ledger[w][Len(ledger[w])].balance_after
    <3>1. balance[w] = IF ledger[w] = <<>> THEN 0
                       ELSE ledger[w][Len(ledger[w])].balance_after
      BY <1>4 DEF IInv, LedgerReplays
    <3> QED BY <1>3, <1>4, <1>9, <3>1
  <2>4. ASSUME NEW i \in DOMAIN ledger'[w]
        PROVE  ledger'[w][i].balance_after =
                 ledger'[w][i].amount + IF i = 1 THEN 0
                                        ELSE ledger'[w][i-1].balance_after
    <3>1. CASE i \in DOMAIN ledger[w]
      <4>1. i = 1 \/ i - 1 \in DOMAIN ledger[w]
        BY <1>9, <3>1
      <4>2. ledger'[w][i] = ledger[w][i] /\ (i # 1 => ledger'[w][i-1] = ledger[w][i-1])
        BY <1>6, <3>1, <4>1
      <4> QED BY <1>4, <3>1, <4>2 DEF IInv, LedgerReplays
    <3>2. CASE i = Len(ledger[w]) + 1
      <4>1. i # 1 => ledger'[w][i-1] = ledger[w][Len(ledger[w])]
        BY <1>6, <1>9, <3>2
      <4>2. i = 1 <=> Len(ledger[w]) = 0
        BY <1>9, <3>2
      <4> QED BY <1>6, <2>3, <3>2, <4>1, <4>2
    <3> QED BY <1>6, <2>4, <3>1, <3>2
  <2>5. \A v \in Wallets :
          /\ \A i \in DOMAIN ledger'[v] :
               ledger'[v][i].balance_after =
                 ledger'[v][i].amount + IF i = 1 THEN 0
                                        ELSE ledger'[v][i-1].balance_after
          /\ balance'[v] = IF ledger'[v] = <<>> THEN 0
                           ELSE ledger'[v][Len(ledger'[v])].balance_after
    <3> SUFFICES ASSUME NEW v \in Wallets
                 PROVE  /\ \A i \in DOMAIN ledger'[v] :
                             ledger'[v][i].balance_after =
                               ledger'[v][i].amount + IF i = 1 THEN 0
                                                      ELSE ledger'[v][i-1].balance_after
                        /\ balance'[v] = IF ledger'[v] = <<>> THEN 0
                                         ELSE ledger'[v][Len(ledger'[v])].balance_after
      OBVIOUS
    <3>1. CASE v # w
      BY <2>1, <3>1 DEF IInv, LedgerReplays
    <3>2. CASE v = w
      BY <1>6, <2>2, <2>4, <3>2
    <3> QED BY <3>1, <3>2
  <2> QED BY <2>5 DEF LedgerReplays
<1>15. NeverOverdrawn'
  <2>1. NeverOverdrawn
    BY DEF IInv
  <2>2. ASSUME NEW v \in Wallets PROVE balance'[v] >= 0
    BY <1>0, <1>1, <1>5, <2>1 DEF TypeOK, NeverOverdrawn
  <2>3. ASSUME NEW v \in Wallets, NEW i \in DOMAIN ledger'[v]
        PROVE  ledger'[v][i].balance_after >= 0
    <3>1. CASE v # w
      BY <1>6, <2>1, <2>3, <3>1 DEF NeverOverdrawn
    <3>2. CASE v = w /\ i \in DOMAIN ledger[w]
      BY <1>6, <2>1, <3>2 DEF NeverOverdrawn
    <3>3. CASE v = w /\ i = Len(ledger[w]) + 1
      BY <1>5, <1>6, <3>3
    <3> QED BY <1>6, <2>3, <3>1, <3>2, <3>3
  <2> QED BY <2>2, <2>3 DEF NeverOverdrawn
<1>16. RefPostedOnce'
  <2>1. ASSUME NEW u \in Wallets, NEW v \in Wallets,
               NEW i \in DOMAIN ledger'[u], NEW j \in DOMAIN ledger'[v],
               ledger'[u][i].ref = ledger'[v][j].ref
        PROVE  u = v /\ i = j
    <3> DEFINE Fresh(x, k) == x = w /\ k = Len(ledger[w]) + 1
    <3>1. ASSUME NEW x \in Wallets, NEW k \in DOMAIN ledger'[x]
          PROVE  \/ Fresh(x, k) /\ ledger'[x][k].ref = req[c].ref
                 \/ /\ k \in DOMAIN ledger[x]
                    /\ ledger'[x][k] = ledger[x][k]
                    /\ ledger[x][k].ref # req[c].ref
      <4>1. CASE x # w
        BY <1>5, <1>6, <3>1, <4>1 DEF Posted
      <4>2. CASE x = w
        BY <1>5, <1>6, <3>1, <4>2 DEF Posted
      <4> QED BY <4>1, <4>2
    <3>2. CASE Fresh(u, i)
      BY <2>1, <3>1, <3>2, <1>5, <1>6, <1>9 DEF Posted
    <3>3. CASE Fresh(v, j)
      BY <2>1, <3>1, <3>3, <1>5, <1>6, <1>9 DEF Posted
    <3>4. CASE ~Fresh(u, i) /\ ~Fresh(v, j)
      BY <2>1, <3>1, <3>4 DEF IInv, RefPostedOnce
    <3> QED BY <3>2, <3>3, <3>4
  <2> QED BY <2>1 DEF RefPostedOnce
<1>17. AnswerIsOnRecord'
  <2>1. ASSUME NEW d \in Callers, answer'[d] = "entry"
        PROVE  check_idempotent_match(req[d])'
    <3>1. CASE d = c
      <4>1. /\ Len(ledger[w]) + 1 \in DOMAIN ledger'[w]
            /\ ledger'[w][Len(ledger[w]) + 1] = e
        BY <1>6
      <4>2. /\ e.ref = req[c].ref /\ e.type = req[c].type
            /\ (e.amount > 0) = (req[c].op = "credit")
        BY <1>3
      <4> HIDE DEF e
      <4> QED BY <1>1, <3>1, <4>1, <4>2 DEF check_idempotent_match
    <3>2. CASE d # c
      <4>1. check_idempotent_match(req[d])
        BY <1>0, <1>1, <2>1, <3>2 DEF AnswerIsOnRecord, TypeOK
      <4>2. PICK i \in DOMAIN ledger[req[d].wallet] :
              /\ ledger[req[d].wallet][i].ref = req[d].ref
              /\ ledger[req[d].wallet][i].type = req[d].type
              /\ (ledger[req[d].wallet][i].amount > 0) = (req[d].op = "credit")
        BY <4>1 DEF check_idempotent_match
      <4>3. /\ i \in DOMAIN ledger'[req[d].wallet]
            /\ ledger'[req[d].wallet][i] = ledger[req[d].wallet][i]
        BY <1>2, <1>6, <4>2
      <4> QED BY <1>1, <4>2, <4>3 DEF check_idempotent_match
    <3> QED BY <3>1, <3>2
  <2>2. \A d \in Callers : answer'[d] = "entry" => check_idempotent_match(req[d])'
    BY <2>1
  <2> QED BY <1>1, <2>2 DEF AnswerIsOnRecord, check_idempotent_match
<1> QED BY <1>10, <1>11, <1>12, <1>13, <1>14, <1>15, <1>16, <1>17 DEF IInv

-----------------------------------------------------------------------------
\* IInv holds in every reachable state of the wallet service.
THEOREM Invariance == Spec => []IInv
<1>1. IInv /\ [Next]_vars => IInv'
  <2> SUFFICES ASSUME IInv, [Next]_vars PROVE IInv'
    OBVIOUS
  <2>1. CASE Next
    <3>1. PICK c \in Callers :
            \/ \E r \in Requests : Call(c, r)
            \/ Step(c)
            \/ Rollback(c)
      BY <2>1 DEF Next
    <3> QED BY <3>1, QuietSteps, CommitStep DEF Step
  <2>2. CASE UNCHANGED vars
    <3>1. UNCHANGED <<balance, ledger>>
      BY <2>2 DEF vars
    <3>2. /\ LedgerReplays' /\ NeverOverdrawn' /\ RefPostedOnce'
          /\ \A ref : Posted(ref)' <=> Posted(ref)
          /\ \A r : check_idempotent_match(r)' <=> check_idempotent_match(r)
      BY <3>1, BooksUntouched
    <3> QED BY <2>2, <3>2 DEF vars, IInv, TypeOK, LockInv, InFlight,
                              OneInsertPerRef, AnswerIsOnRecord, Signed
  <2> QED BY <2>1, <2>2
<1> QED BY <1>1, InitIInv, PTL DEF Spec

\* The state of the wallet service stays well typed.
THEOREM TypeCorrect == Spec => []TypeOK
<1>1. IInv => TypeOK
  BY DEF IInv
<1> QED BY <1>1, Invariance, PTL

\* Replaying a wallet's ledger always gives its balance column.
THEOREM BalanceIsTheLedger == Spec => []LedgerReplays
<1>1. IInv => LedgerReplays
  BY DEF IInv
<1> QED BY <1>1, Invariance, PTL

\* No interleaving of debits overdraws a wallet.
THEOREM NoOverdraft == Spec => []NeverOverdrawn
<1>1. IInv => NeverOverdrawn
  BY DEF IInv
<1> QED BY <1>1, Invariance, PTL

\* A ref moves money at most once over all wallets.
THEOREM ExactlyOncePerRef == Spec => []RefPostedOnce
<1>1. IInv => RefPostedOnce
  BY DEF IInv
<1> QED BY <1>1, Invariance, PTL

\* A call that reported success has its entry on record.
THEOREM SuccessIsOnRecord == Spec => []AnswerIsOnRecord
<1>1. IInv => AnswerIsOnRecord
  BY DEF IInv
<1> QED BY <1>1, Invariance, PTL

\* The concurrent service implements the abstract ledger specification.
THEOREM Refinement == Spec => ImplementsLedger
<1>1. Init => Ledger!Init
  BY DEF Init, Ledger!Init
<1>2. IInv /\ [Next]_vars => [Ledger!Next]_Ledger!lvars
  <2> SUFFICES ASSUME IInv, [Next]_vars PROVE [Ledger!Next]_Ledger!lvars
    OBVIOUS
  <2>1. ASSUME NEW c \in Callers, Commit(c) PROVE Ledger!Next
    <3> DEFINE r == req[c]
    <3>1. /\ r \in Requests /\ r.wallet \in Wallets /\ r.amount \in Int
          /\ r.op \in {"credit", "debit"} /\ r.ref \in Refs
      BY WalletAssumption DEF IInv, TypeOK
    <3>2. /\ r.amount > 0 /\ r.type \in Types /\ ~Posted(r.ref)
          /\ balance[r.wallet] + Signed(r) >= 0
      BY <2>1 DEF IInv, InFlight, Commit
    <3>3. Signed(r) = r.amount \/ Signed(r) = -r.amount
      BY DEF Signed
    <3>4. balance' = [balance EXCEPT ![r.wallet] = @ + Signed(r)]
      BY <2>1 DEF Commit
    <3>5. ledger' = [ledger EXCEPT ![r.wallet] = Append(@,
                       [type |-> r.type, amount |-> Signed(r),
                        balance_after |-> balance[r.wallet] + Signed(r), ref |-> r.ref])]
      BY <2>1 DEF Commit
    <3>6. ~Ledger!Posted(r.ref)
      BY <3>2 DEF Posted, Ledger!Posted
    <3>7. Ledger!Post(r.wallet, r.type, Signed(r), r.ref)
      BY <3>2, <3>4, <3>5, <3>6 DEF Ledger!Post
    <3>8. r.amount \in {q.amount : q \in Requests}
      BY <3>1
    <3> QED BY <3>1, <3>2, <3>3, <3>7, <3>8 DEF Ledger!Next
  <2>2. CASE Next
    <3>1. PICK c \in Callers :
            \/ \E r \in Requests : Call(c, r)
            \/ Step(c)
            \/ Rollback(c)
      BY <2>2 DEF Next
    <3>2. CASE Commit(c)
      BY <2>1, <3>2
    <3>3. CASE ~Commit(c)
      <4>1. UNCHANGED <<balance, ledger>>
        BY <3>1, <3>3 DEF Step, Call, FastPath, LockWallet, Recheck, Insert, Rollback
      <4> QED BY <4>1 DEF Ledger!lvars
    <3> QED BY <3>2, <3>3
  <2>3. CASE UNCHANGED vars
    BY <2>3 DEF vars, Ledger!lvars
  <2> QED BY <2>2, <2>3
<1> QED BY <1>1, <1>2, Invariance, PTL DEF Spec, ImplementsLedger, Ledger!Spec
=============================================================================
