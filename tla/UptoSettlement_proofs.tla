------------------------ MODULE UptoSettlement_proofs ------------------------
(* Proofs about the upto settlement contract, for any accounts, tokens,    *)
(* fees, authorizations and amounts, and about the facilitator that calls  *)
(* it, for any calls and requests.                                         *)
EXTENDS UptoScheme, TLAPS

(* The replay guard is what makes the refinement inductive: an             *)
(* authorization that was charged is either guarded or past its window.    *)
IInv == TypeOK /\ GuardOutlivesWindow

----------------------------------------------------------------------------
(* A transfer delivers at least nothing and at most what was sent.         *)
LEMMA DeliveredBounds ==
    ASSUME NEW k \in Tokens, NEW n \in Nat
    PROVE  Delivered(k, n) \in 0..n
BY ContractAssumption DEF Delivered

(* A transfer of what the sender has keeps every balance a natural number. *)
LEMMA TransferType ==
    ASSUME NEW b \in [Holders -> Nat], NEW k \in Tokens, NEW from \in Holders,
           NEW to \in Holders, NEW n \in Nat, n <= b[from]
    PROVE  Transfer(b, k, from, to, n) \in [Holders -> Nat]
<1>1. Delivered(k, n) \in 0..n
  BY DeliveredBounds
<1>2. ASSUME NEW h \in Holders
      PROVE  b[h] - (IF h = from THEN n ELSE 0)
                  + (IF h = to THEN Delivered(k, n) ELSE 0) \in Nat
  BY <1>1
<1> QED
  BY <1>2 DEF Transfer

(* settle moves exactly the attested amount and only between the payer and *)
(* the recipient, whatever the token delivered on the way.                 *)
LEMMA SettleMoves ==
    ASSUME TypeOK, NEW p \in Accounts, NEW t \in PayerTerms, <<p, t>> \in Signable,
           NEW id \in Ids, NEW used \in Int, Settle(p, t, id, used)
    PROVE  /\ t.token \in Tokens
           /\ used \in 0..t.max_amount
           /\ balance' = [balance EXCEPT ![t.token] =
                              Charges!Moved(balance[t.token], p, t.pay_to, used)]
           /\ balance' \in [Tokens -> [Holders -> Nat]]
<1> DEFINE k        == t.token
           before   == balance[k]
           pulled   == Pulled(p, t)
           paid     == Paid(p, t, used)
           after    == Refunded(p, t, used)
           moved    == Charges!Moved(before, p, t.pay_to, used)
<1>1. /\ used \in Int /\ t.max_amount \in Int
      /\ t.pay_to \in Holders /\ t.token \in Tokens \cup {Contract}
      /\ p \in Holders
  BY ContractAssumption DEF PayerTerms, Holders
<1>2. /\ k \in Tokens /\ used \in 0..t.max_amount
      /\ t.pay_to # Contract /\ p # Contract
  BY <1>1 DEF Settle, Accepts, Valid
<1>3. /\ before[p] >= t.max_amount
      /\ BalancesMoved(before, after, p, t.pay_to, used)
      /\ balance' = [balance EXCEPT ![k] = after]
  BY DEF Settle, Accepts
<1>4. before \in [Holders -> Nat]
  BY <1>2 DEF TypeOK
<1>5. /\ DOMAIN pulled = Holders /\ DOMAIN paid = Holders /\ DOMAIN after = Holders
      /\ pulled = [h \in Holders |-> pulled[h]]
      /\ paid = [h \in Holders |-> paid[h]]
      /\ after = [h \in Holders |-> after[h]]
  BY DEF Pulled, Paid, Refunded, Transfer
<1>6. ASSUME NEW h \in Holders, h # p, h # t.pay_to, h # Contract
      PROVE  after[h] = before[h]
  <2>1. pulled[h] = before[h]
    BY <1>4, <1>6 DEF Pulled, Transfer
  <2>2. paid[h] = before[h]
    BY <2>1, <1>4, <1>6 DEF Paid, Transfer
  <2> QED
    BY <2>2, <1>4, <1>6 DEF Refunded, Transfer
<1>7. ASSUME NEW h \in Holders
      PROVE  after[h] = moved[h]
  <2>1. moved[h] = before[h] - (IF h = p THEN used ELSE 0)
                             + (IF h = t.pay_to THEN used ELSE 0)
    BY DEF Charges!Moved
  <2>2. before[h] \in Nat /\ before[p] \in Nat /\ before[t.pay_to] \in Nat
    BY <1>1, <1>4
  <2>3. CASE h = Contract
    BY <2>1, <2>2, <2>3, <1>2, <1>3 DEF BalancesMoved
  <2>4. CASE h = p
    BY <2>1, <2>2, <2>4, <1>2, <1>3 DEF BalancesMoved
  <2>5. CASE h = t.pay_to
    BY <2>1, <2>2, <2>5, <1>2, <1>3 DEF BalancesMoved
  <2>6. CASE h # p /\ h # t.pay_to /\ h # Contract
    BY <2>1, <2>2, <2>6, <1>6
  <2> QED
    BY <2>3, <2>4, <2>5, <2>6
<1>8. moved = [h \in Holders |-> moved[h]]
  BY DEF Charges!Moved
<1>9. after = moved
  BY <1>5, <1>7, <1>8
<1>10. after \in [Holders -> Nat]
  <2>1. ASSUME NEW h \in Holders
        PROVE  moved[h] \in Nat
    BY <1>1, <1>2, <1>3, <1>4 DEF Charges!Moved
  <2> QED
    BY <2>1, <1>5, <1>9
<1>11. balance' \in [Tokens -> [Holders -> Nat]]
  BY <1>2, <1>3, <1>10 DEF TypeOK
<1> QED
  BY <1>2, <1>3, <1>9, <1>11

----------------------------------------------------------------------------
LEMMA InitIInv == Init => IInv
BY ContractAssumption DEF Init, IInv, TypeOK, GuardOutlivesWindow

(* A settlement: the guard it writes outlives its own window, and where it *)
(* replaces one, that one's window had closed.                             *)
LEMMA SettleIInv ==
    ASSUME IInv, NEW p \in Accounts, NEW t \in PayerTerms, <<p, t>> \in Signable,
           NEW id \in Ids, NEW used \in Int, Settle(p, t, id, used)
    PROVE  IInv'
<1> USE DEF IInv
<1>1. /\ t.token \in Tokens
      /\ used \in 0..t.max_amount
      /\ balance' \in [Tokens -> [Holders -> Nat]]
  BY SettleMoves
<1>2. t.deadline \in Nat /\ t.max_amount \in Int /\ t.settlement_id = id
  BY DEF PayerTerms, Settle, Accepts, Valid
<1>3. /\ now \in Nat /\ now <= t.deadline
      /\ GuardUntil(t) \in Int /\ GuardUntil(t) > t.deadline
  BY <1>2, ContractAssumption DEF Settle, Accepts, Valid, GuardUntil, TypeOK
<1>4. guard' = [guard EXCEPT ![<<p, id>>] = GuardUntil(t)] /\ guard[<<p, id>>] < now
  <2>1. guard[<<p, id>>] \in Int
    BY DEF TypeOK
  <2> QED
    BY <2>1, <1>3 DEF Settle, Accepts, IsSettled
<1>5. published' = [published EXCEPT ![<<p, t>>] = used]
  BY DEF Settle, Charged
<1>6. TypeOK'
  <2>1. allowance' \in [Tokens -> [Accounts -> Nat]]
    BY <1>1, <1>2 DEF Settle, TypeOK
  <2>2. used \in Nat
    BY <1>1, <1>2
  <2> QED
    BY <1>1, <1>3, <1>4, <1>5, <2>1, <2>2 DEF TypeOK, Settle
<1>7. ASSUME NEW a \in Signable, published'[a] # -1
      PROVE  guard'[<<a[1], a[2].settlement_id>>] > a[2].deadline
  <2>1. a \in Accounts \X PayerTerms /\ a[2].deadline \in Nat /\ a[2].settlement_id \in Ids
    BY ContractAssumption DEF PayerTerms
  <2> DEFINE key == <<a[1], a[2].settlement_id>>
  <2>2. key \in Accounts \X Ids /\ guard \in [Accounts \X Ids -> Int]
    BY <2>1 DEF TypeOK
  <2>3. CASE a = <<p, t>>
    BY <2>2, <2>3, <1>2, <1>3, <1>4
  <2>4. CASE a # <<p, t>>
    <3>1. published[a] # -1
      BY <1>5, <1>7, <2>4 DEF TypeOK
    <3>2. guard[key] > a[2].deadline
      BY <3>1 DEF GuardOutlivesWindow
    <3>3. CASE key = <<p, id>>
      <4>1. guard'[key] = GuardUntil(t)
        BY <2>2, <3>3, <1>4
      <4>2. a[2].deadline < t.deadline
        BY <3>2, <3>3, <2>1, <2>2, <1>2, <1>3, <1>4
      <4> QED
        BY <4>1, <4>2, <2>1, <1>2, <1>3
    <3>4. CASE key # <<p, id>>
      BY <3>2, <3>4, <2>2, <1>4
    <3> QED
      BY <3>3, <3>4
  <2> QED
    BY <2>3, <2>4
<1> QED
  BY <1>6, <1>7 DEF GuardOutlivesWindow

(* No authorization is settled a second time.                              *)
LEMMA ChargedOnce ==
    ASSUME IInv, NEW a \in Signable, NEW id \in Ids, NEW used,
           Settle(a[1], a[2], id, used)
    PROVE  published[a] = -1
<1> SUFFICES ASSUME published[a] # -1 PROVE FALSE
  OBVIOUS
<1>1. a[1] \in Accounts /\ a[2] \in PayerTerms
  BY ContractAssumption
<1>2. a[2].deadline \in Nat /\ a[2].settlement_id = id /\ now <= a[2].deadline
  BY <1>1 DEF PayerTerms, Settle, Accepts, Valid
<1>3. guard[<<a[1], id>>] > a[2].deadline
  BY <1>2 DEF IInv, GuardOutlivesWindow
<1>4. guard[<<a[1], id>>] \in Int /\ now \in Nat
  BY <1>1 DEF IInv, TypeOK
<1>5. ~(guard[<<a[1], id>>] >= now)
  BY DEF Settle, Accepts, IsSettled
<1> QED
  BY <1>2, <1>3, <1>4, <1>5

LEMMA NextIInv == IInv /\ [Next]_vars => IInv'
<1> SUFFICES ASSUME IInv, [Next]_vars PROVE IInv'
  OBVIOUS
<1> USE DEF IInv
<1>1. CASE UNCHANGED vars
  BY <1>1 DEF vars, TypeOK, GuardOutlivesWindow
<1>2. CASE CloseLedger
  BY <1>2 DEF CloseLedger, TypeOK, GuardOutlivesWindow
<1>3. ASSUME NEW a \in Signable, Authorize(a)
      PROVE  IInv'
  BY <1>3 DEF Authorize, TypeOK, GuardOutlivesWindow
<1>4. ASSUME NEW a \in Signable, NEW id \in Ids, NEW used \in Amounts,
             Settle(a[1], a[2], id, used)
      PROVE  IInv'
  <2>1. a[1] \in Accounts /\ a[2] \in PayerTerms /\ a = <<a[1], a[2]>>
    BY ContractAssumption
  <2>2. used \in Int
    BY ContractAssumption
  <2> QED
    BY <2>1, <2>2, <1>4, SettleIInv
<1>5. ASSUME NEW s \in Sends, Send(s[1], s[2], s[3], s[4])
      PROVE  IInv'
  <2>1. /\ s[1] \in Tokens /\ s[2] \in Holders /\ s[3] \in Holders
        /\ s[4] \in Nat \ {0}
    BY ContractAssumption DEF Holders
  <2>2. Transfer(balance[s[1]], s[1], s[2], s[3], s[4]) \in [Holders -> Nat]
    BY <2>1, <1>5, TransferType DEF Send, TypeOK
  <2> QED
    BY <1>5, <2>1, <2>2 DEF Send, TypeOK, GuardOutlivesWindow
<1>6. ASSUME NEW s \in Approvals, Approve(s[1], s[2], s[3])
      PROVE  IInv'
  <2>1. s[1] \in Tokens /\ s[2] \in Accounts /\ s[3] \in Nat
    BY ContractAssumption
  <2> QED
    BY <1>6, <2>1 DEF Approve, TypeOK, GuardOutlivesWindow
<1> QED
  BY <1>1, <1>2, <1>3, <1>4, <1>5, <1>6 DEF Next

(* The inductive invariant holds of every reachable state.                 *)
THEOREM Invariance == Spec => []IInv
BY InitIInv, NextIInv, PTL DEF Spec

(* Every variable keeps its type: in particular no balance is ever         *)
(* negative, whatever a token keeps or delivers.                           *)
THEOREM TypeCorrectness == Spec => []TypeOK
<1>1. IInv => TypeOK
  BY DEF IInv
<1> QED
  BY <1>1, Invariance, PTL

(* A settled authorization stays guarded until its window has closed.      *)
THEOREM GuardOutlives == Spec => []GuardOutlivesWindow
<1>1. IInv => GuardOutlivesWindow
  BY DEF IInv
<1> QED
  BY <1>1, Invariance, PTL

(* A settlement leaves no allowance of the payer standing.                 *)
THEOREM LeavesNothingStanding == Spec => NothingStanding
<1> DEFINE Clean == \A a \in Signable : published'[a] # published[a] =>
                        allowance'[a[2].token][a[1]] = 0
<1>1. IInv /\ [Next]_vars => [Clean]_vars
  <2> SUFFICES ASSUME IInv, [Next]_vars, ~ UNCHANGED vars, NEW b \in Signable,
                      published'[b] # published[b]
               PROVE  allowance'[b[2].token][b[1]] = 0
    OBVIOUS
  <2>1. PICK a \in Signable : \E id \in Ids : \E used \in Amounts :
            Settle(a[1], a[2], id, used)
    BY DEF Next, CloseLedger, Authorize, Send, Approve
  <2>2. PICK id \in Ids : \E used \in Amounts : Settle(a[1], a[2], id, used)
    BY <2>1
  <2>3. PICK used \in Amounts : Settle(a[1], a[2], id, used)
    BY <2>2
  <2>4. a[1] \in Accounts /\ a[2] \in PayerTerms /\ a = <<a[1], a[2]>>
    BY ContractAssumption
  <2>5. a = b
    BY <2>3, <2>4 DEF Settle, IInv, TypeOK
  <2>6. used \in Int
    BY ContractAssumption
  <2>7. a[2].token \in Tokens
    BY <2>3, <2>4, <2>6, SettleMoves DEF IInv
  <2>8. allowance' = [allowance EXCEPT ![a[2].token][a[1]] = 0]
    BY <2>3 DEF Settle, Accepts, AllowanceConsumed
  <2> QED
    BY <2>4, <2>5, <2>7, <2>8 DEF IInv, TypeOK
<1> QED
  BY <1>1, Invariance, PTL DEF Spec, NothingStanding

----------------------------------------------------------------------------
(* The refinement, step by step.                                           *)

LEMMA InitImage == Init => Charges!Start
BY ContractAssumption DEF Init, Charges!Start

LEMMA SettleImage ==
    ASSUME IInv, NEW a \in Signable, NEW id \in Ids, NEW used \in Amounts,
           Settle(a[1], a[2], id, used)
    PROVE  Charges!Next
<1>1. a[1] \in Accounts /\ a[2] \in PayerTerms /\ a = <<a[1], a[2]>>
  BY ContractAssumption
<1> DEFINE p == a[1]
           t == a[2]
<1>2. /\ used \in 0..t.max_amount /\ t.token \in Tokens
      /\ balance' = [balance EXCEPT ![t.token] =
                         Charges!Moved(balance[t.token], p, t.pay_to, used)]
  BY <1>1, ContractAssumption, SettleMoves DEF IInv
<1>3. t.deadline \in Nat /\ t.valid_after \in Nat /\ t.settlement_id = id
  BY <1>1 DEF PayerTerms, Settle, Accepts, Valid
<1>4. t.valid_after <= now /\ now <= t.deadline /\ <<p, t>> \in authorized
  BY DEF Settle, Accepts, Valid
<1>5. published[<<p, t>>] = -1
  BY <1>1, ChargedOnce
<1>6. /\ published' = [published EXCEPT ![<<p, t>>] = used]
      /\ UNCHANGED <<now, authorized>>
  BY DEF Settle, Charged
<1>7. 0 <= used /\ used <= t.max_amount
  BY <1>2
<1>8. Charges!Charge(p, t, used)
  BY <1>2, <1>4, <1>5, <1>6, <1>7 DEF Charges!Charge
<1> QED
  BY <1>2, <1>8 DEF Charges!Next

LEMMA SendImage ==
    ASSUME IInv, NEW s \in Sends, Send(s[1], s[2], s[3], s[4])
    PROVE  Charges!Next
<1> DEFINE k == s[1]
           from == s[2]
           to == s[3]
           n == s[4]
           kept == n - Delivered(k, n)
<1>1. k \in Tokens /\ from \in Holders /\ to \in Holders /\ n \in Nat \ {0}
  BY ContractAssumption DEF Holders
<1>2. Delivered(k, n) \in 0..n
  BY <1>1, DeliveredBounds
<1>3. balance[k][from] \in Nat /\ n <= balance[k][from]
  BY <1>1 DEF IInv, TypeOK, Send
<1>4. n \in 1..balance[k][from] /\ kept \in 0..n /\ n - kept = Delivered(k, n)
  BY <1>1, <1>2, <1>3
<1>5. Charges!Spend(k, from, to, n, kept)
  <2>1. balance' = [balance EXCEPT ![k] =
                        [h \in Holders |->
                            balance[k][h] - (IF h = from THEN n ELSE 0)
                                 + (IF h = to THEN n - kept ELSE 0)]]
    BY <1>4 DEF Send, Transfer
  <2>2. kept <= n /\ n <= balance[k][from]
    BY <1>1, <1>2, <1>3
  <2> QED
    BY <2>1, <2>2 DEF Charges!Spend, Send
<1> QED
  BY <1>1, <1>4, <1>5 DEF Charges!Next

LEMMA NextImage ==
    IInv /\ [Next]_vars => [Charges!Next]_<<now, authorized, published, balance>>
<1> SUFFICES ASSUME IInv, [Next]_vars
             PROVE  [Charges!Next]_<<now, authorized, published, balance>>
  OBVIOUS
<1>1. CASE UNCHANGED vars
  BY <1>1 DEF vars
<1>2. CASE CloseLedger
  <2>1. Charges!Close
    BY <1>2 DEF CloseLedger, Charges!Close, IInv, TypeOK
  <2> QED
    BY <2>1 DEF Charges!Next
<1>3. ASSUME NEW a \in Signable, Authorize(a)
      PROVE  Charges!Next
  BY <1>3 DEF Authorize, Charges!Next, Charges!Sign
<1>4. ASSUME NEW a \in Signable, NEW id \in Ids, NEW used \in Amounts,
             Settle(a[1], a[2], id, used)
      PROVE  Charges!Next
  BY <1>4, SettleImage
<1>5. ASSUME NEW s \in Sends, Send(s[1], s[2], s[3], s[4])
      PROVE  Charges!Next
  BY <1>5, SendImage
<1>6. ASSUME NEW s \in Approvals, Approve(s[1], s[2], s[3])
      PROVE  UNCHANGED <<now, authorized, published, balance>>
  BY <1>6 DEF Approve
<1> QED
  BY <1>1, <1>2, <1>3, <1>4, <1>5, <1>6 DEF Next

(* Whatever the tokens, the fees and the facilitator's amounts are, the    *)
(* contract is a one-time metered charge.                                  *)
THEOREM ImplementsMeteredCharge == Spec => ImplementsCharge
BY InitImage, NextImage, Invariance, PTL DEF Spec, ImplementsCharge, Charges!Spec

-----------------------------------------------------------------------------
(* The facilitator's calls.                                                *)

Determined == {"attested", "rebuilt", "sent", "included", "success", "unseen",
               "failed", "reverted", "dropped"}

Included == {"included", "success", "unseen"}

Stages == Determined \cup
    {"new", "window", "refused", "replay", "simulate", "verified"}

JobType ==
    /\ request \in [Jobs -> Requests]
    /\ at \in [Jobs -> Stages]
    /\ actual \in [Jobs -> Int]
    /\ charged \in [Signable -> Jobs \cup {-1}]

(* From its first read on, a call's terms are the requirements'; once it   *)
(* has attested, its amount is theirs too.                                 *)
CallsAreAsRequired ==
    \A j \in Jobs :
        /\ at[j] \notin {"new", "refused"} => TermsFit(request[j])
        /\ at[j] \in Determined =>
            actual[j] = request[j].required.amount /\ actual[j] >= 0

(* A call is included exactly by charging what it carries.                 *)
IncludedIsCharged ==
    \A j \in Jobs : at[j] \in Included => charged[<<Payer(j), Terms(j)>>] = j

(* Each charge on the ledger is that of the call it is put down to.        *)
ChargeIsOfItsCall ==
    \A a \in Signable, j \in Jobs : charged[a] = j =>
        /\ at[j] \in Included
        /\ a = <<Payer(j), Terms(j)>>
        /\ published[a] = actual[j]

(* The contract's own invariant, what each call has reached, and the       *)
(* charges and the included calls being the same, one to one.              *)
SchemeInv ==
    /\ IInv
    /\ JobType
    /\ CallsAreAsRequired
    /\ IncludedIsCharged
    /\ ChargeIsOfItsCall

LEMMA InitScheme == SchemeInit => SchemeInv
<1> SUFFICES ASSUME SchemeInit PROVE SchemeInv
  OBVIOUS
<1>1. IInv
  BY InitIInv DEF SchemeInit
<1>2. JobType
  BY DEF SchemeInit, JobType, Stages
<1>3. CallsAreAsRequired
  BY DEF SchemeInit, CallsAreAsRequired, Determined
<1>4. IncludedIsCharged
  BY DEF SchemeInit, IncludedIsCharged, Included
<1>5. ChargeIsOfItsCall
  BY SchemeAssumption DEF SchemeInit, ChargeIsOfItsCall
<1> QED
  BY <1>1, <1>2, <1>3, <1>4, <1>5 DEF SchemeInv

(* What a call carries can be signed, and its amount is a number.          *)
LEMMA Carried ==
    ASSUME SchemeInv, NEW j \in Jobs
    PROVE  /\ <<Payer(j), Terms(j)>> \in Signable
           /\ Payer(j) \in Accounts /\ Terms(j) \in PayerTerms
           /\ request[j].required.amount \in Int
<1>1. request[j] \in Requests
  BY DEF SchemeInv, JobType
<1>2. /\ <<Payer(j), Terms(j)>> \in Signable
      /\ request[j].required.amount \in Int
  BY <1>1, SchemeAssumption DEF Payer, Terms
<1>3. <<Payer(j), Terms(j)>> \in Accounts \X PayerTerms
  BY <1>2, ContractAssumption
<1> QED
  BY <1>2, <1>3

(* A call that goes on without a charge leaves the rest as it was.         *)
LEMMA GoesOn ==
    ASSUME SchemeInv, NEW j \in Jobs, NEW stage \in Stages, Goes(j, stage),
           stage \in Included <=> at[j] \in Included,
           stage \in Determined => at[j] \in Determined,
           stage \in {"refused"} \/ at[j] \notin {"new", "refused"}
    PROVE  SchemeInv'
<1>1. /\ at' = [at EXCEPT ![j] = stage]
      /\ UNCHANGED <<vars, request, actual, charged>>
  BY DEF Goes
<1>2. IInv'
  BY <1>1 DEF SchemeInv, IInv, TypeOK, GuardOutlivesWindow, vars
<1>3. at \in [Jobs -> Stages] /\ at' \in [Jobs -> Stages]
  BY <1>1 DEF SchemeInv, JobType
<1>4. JobType'
  BY <1>1, <1>3 DEF SchemeInv, JobType
<1>5. \A k \in Jobs : at'[k] = IF k = j THEN stage ELSE at[k]
  BY <1>1, <1>3
<1>6. ASSUME NEW k \in Jobs
      PROVE  /\ at'[k] \notin {"new", "refused"} => TermsFit(request[k])
             /\ at'[k] \in Determined =>
                    actual[k] = request[k].required.amount /\ actual[k] >= 0
  BY <1>5 DEF SchemeInv, CallsAreAsRequired
<1>7. CallsAreAsRequired'
  BY <1>1, <1>6 DEF CallsAreAsRequired, TermsFit
<1>8. IncludedIsCharged'
  BY <1>1, <1>5 DEF SchemeInv, IncludedIsCharged, Payer, Terms
<1>9. ChargeIsOfItsCall'
  BY <1>1, <1>5 DEF SchemeInv, ChargeIsOfItsCall, Payer, Terms, vars
<1> QED
  BY <1>2, <1>4, <1>7, <1>8, <1>9 DEF SchemeInv

(* The charge of a call: the contract takes an authorization once, so this *)
(* call's charge replaces no other's.                                      *)
LEMMA ChargeKeeps ==
    ASSUME SchemeInv, NEW j \in Jobs, Charge(j)
    PROVE  SchemeInv'
<1> DEFINE own == <<Payer(j), Terms(j)>>
<1> USE DEF SchemeInv
<1>1. /\ at[j] = "sent"
      /\ Settle(Payer(j), Terms(j), Terms(j).settlement_id, actual[j])
      /\ at' = [at EXCEPT ![j] = "included"]
      /\ charged' = [charged EXCEPT ![own] = j]
      /\ UNCHANGED <<request, actual>>
  BY DEF Charge
<1>2. /\ own \in Signable /\ Payer(j) \in Accounts /\ Terms(j) \in PayerTerms
      /\ Terms(j).settlement_id \in Ids
  BY Carried DEF PayerTerms
<1>3. actual[j] \in Int
  BY DEF JobType
<1>4. IInv'
  BY <1>1, <1>2, <1>3, SettleIInv
<1>5. published[own] = -1
  BY <1>1, <1>2, ChargedOnce
<1>6. published' = [published EXCEPT ![own] = actual[j]]
  BY <1>1 DEF Settle, Charged
<1>7. TermsFit(request[j]) /\ actual[j] = request[j].required.amount /\ actual[j] >= 0
  BY <1>1 DEF CallsAreAsRequired, Determined
<1>8. charged[own] \notin Jobs
  <2> SUFFICES ASSUME NEW k \in Jobs, charged[own] = k PROVE FALSE
    OBVIOUS
  <2>1. at[k] \in Included /\ published[own] = actual[k]
    BY <1>2 DEF ChargeIsOfItsCall
  <2>2. actual[k] >= 0 /\ actual[k] \in Int
    BY <2>1 DEF CallsAreAsRequired, Included, Determined, JobType
  <2> QED
    BY <1>5, <2>1, <2>2
<1>9. \A k \in Jobs : at'[k] = IF k = j THEN "included" ELSE at[k]
  BY <1>1 DEF JobType
<1> HIDE DEF own
<1>10. /\ \A a \in Signable : charged'[a] = IF a = own THEN j ELSE charged[a]
       /\ \A a \in Signable : published'[a] = IF a = own THEN actual[j] ELSE published[a]
  <2>1. charged \in [Signable -> Jobs \cup {-1}]
    BY DEF JobType
  <2>2. published \in [Signable -> Nat \cup {-1}]
    BY DEF IInv, TypeOK
  <2>3. \A a \in Signable : charged'[a] = IF a = own THEN j ELSE charged[a]
    BY <1>1, <2>1
  <2>4. \A a \in Signable : published'[a] = IF a = own THEN actual[j] ELSE published[a]
    BY <1>6, <2>2
  <2> QED
    BY <2>3, <2>4
<1>11. JobType'
  BY <1>1, <1>2 DEF JobType, Stages, Determined
<1>12. CallsAreAsRequired'
  BY <1>1, <1>7, <1>9 DEF CallsAreAsRequired, TermsFit
<1>13. IncludedIsCharged'
  <2> SUFFICES ASSUME NEW k \in Jobs, at'[k] \in Included
               PROVE  charged'[<<request[k].payer, request[k].terms>>] = k
    BY <1>1 DEF IncludedIsCharged, Payer, Terms
  <2>1. <<request[k].payer, request[k].terms>> \in Signable
    BY Carried DEF Payer, Terms
  <2>2. CASE k = j
    BY <2>1, <2>2, <1>10 DEF own, Payer, Terms
  <2>3. CASE k # j
    <3>1. charged[<<request[k].payer, request[k].terms>>] = k
      BY <2>3, <1>9 DEF IncludedIsCharged, Payer, Terms
    <3>2. <<request[k].payer, request[k].terms>> # own
      BY <3>1, <1>8
    <3> QED
      BY <2>1, <3>1, <3>2, <1>10
  <2> QED
    BY <2>2, <2>3
<1>14. ChargeIsOfItsCall'
  <2> SUFFICES ASSUME NEW a \in Signable, NEW k \in Jobs, charged'[a] = k
               PROVE  /\ at'[k] \in Included
                      /\ a = <<request[k].payer, request[k].terms>>
                      /\ published'[a] = actual[k]
    BY <1>1 DEF ChargeIsOfItsCall, Payer, Terms
  <2>1. CASE a = own
    <3>1. k = j /\ published'[a] = actual[j]
      BY <2>1, <1>10
    <3> QED
      BY <2>1, <3>1, <1>9 DEF own, Included, Payer, Terms
  <2>2. CASE a # own
    <3>1. charged[a] = k
      BY <2>2, <1>10
    <3>2. /\ at[k] \in Included /\ a = <<request[k].payer, request[k].terms>>
          /\ published[a] = actual[k]
      BY <3>1 DEF ChargeIsOfItsCall, Payer, Terms
    <3> QED
      BY <2>2, <3>2, <1>9, <1>10 DEF Included
  <2> QED
    BY <2>1, <2>2
<1> QED
  BY <1>4, <1>11, <1>12, <1>13, <1>14

(* Everything else a call does.                                            *)
LEMMA JobKeeps ==
    ASSUME SchemeInv, NEW j \in Jobs,
           \/ Receive(j) \/ CheckWindow(j) \/ CheckReplay(j) \/ Simulate(j) \/ Attest(j)
           \/ Rebuild(j) \/ Submit(j) \/ Charge(j) \/ Fail(j) \/ Answer(j)
    PROVE  SchemeInv'
<1> USE DEF Stages, Determined, Included
<1>1. CASE Receive(j)
  <2> USE DEF SchemeInv
  <2>1. authorized' \subseteq Signable
    BY <1>1, Carried DEF Receive, IInv, TypeOK
  <2>2. UNCHANGED <<now, guard, balance, allowance, published, request, actual, charged>>
    BY <1>1 DEF Receive
  <2>3. IInv'
    BY <2>1, <2>2 DEF IInv, TypeOK, GuardOutlivesWindow
  <2>4. PICK stage \in {"window", "refused"} :
            /\ at' = [at EXCEPT ![j] = stage]
            /\ stage = "window" => TermsFit(request[j])
    BY <1>1 DEF Receive
  <2>5. at[j] = "new"
    BY <1>1 DEF Receive
  <2>6. at \in [Jobs -> Stages] /\ \A k \in Jobs : at'[k] = IF k = j THEN stage ELSE at[k]
    BY <2>4 DEF JobType
  <2>7. JobType'
    BY <2>2, <2>4 DEF JobType
  <2>8. CallsAreAsRequired'
    BY <2>2, <2>4, <2>6 DEF CallsAreAsRequired, TermsFit
  <2>9. IncludedIsCharged'
    BY <2>2, <2>6 DEF IncludedIsCharged, Payer, Terms
  <2>10. ChargeIsOfItsCall'
    BY <2>2, <2>5, <2>6 DEF ChargeIsOfItsCall, Payer, Terms
  <2> QED
    BY <2>3, <2>7, <2>8, <2>9, <2>10
<1>2. CASE CheckWindow(j)
  <2>1. at[j] = "window" /\ (Goes(j, "replay") \/ Goes(j, "refused"))
    BY <1>2 DEF CheckWindow, Refuses
  <2> QED
    BY <2>1, GoesOn
<1>3. CASE CheckReplay(j)
  <2>1. at[j] = "replay" /\ (Goes(j, "simulate") \/ Goes(j, "refused"))
    BY <1>3 DEF CheckReplay, Refuses
  <2> QED
    BY <2>1, GoesOn
<1>4. CASE Simulate(j)
  <2>1. at[j] = "simulate" /\ (Goes(j, "verified") \/ Goes(j, "refused"))
    BY <1>4 DEF Simulate, Refuses
  <2> QED
    BY <2>1, GoesOn
<1>5. CASE Attest(j)
  <2>1. at[j] = "verified"
    BY <1>5 DEF Attest
  <2>2. CASE Goes(j, "refused")
    BY <2>1, <2>2, GoesOn
  <2>3. CASE /\ AmountAllowed(j)
             /\ at' = [at EXCEPT ![j] = "attested"]
             /\ actual' = [actual EXCEPT ![j] = request[j].required.amount]
             /\ UNCHANGED <<vars, request, charged>>
    <3> USE DEF SchemeInv
    <3>1. request[j].required.amount \in Int
      BY Carried
    <3>2. IInv'
      BY <2>3 DEF IInv, TypeOK, GuardOutlivesWindow, vars
    <3>3. JobType'
      BY <2>3, <3>1 DEF JobType
    <3>4. \A k \in Jobs :
            /\ at'[k] = IF k = j THEN "attested" ELSE at[k]
            /\ actual'[k] = IF k = j THEN request[j].required.amount ELSE actual[k]
      BY <2>3 DEF JobType
    <3>5. TermsFit(request[j]) /\ request[j].required.amount >= 0
      BY <2>1, <2>3, <3>1 DEF CallsAreAsRequired, AmountAllowed
    <3>6. CallsAreAsRequired'
      BY <2>3, <3>4, <3>5 DEF CallsAreAsRequired, TermsFit
    <3>7. IncludedIsCharged'
      BY <2>3, <3>4 DEF IncludedIsCharged, Payer, Terms
    <3>8. ChargeIsOfItsCall'
      BY <2>1, <2>3, <3>4 DEF ChargeIsOfItsCall, Payer, Terms, vars
    <3> QED
      BY <3>2, <3>3, <3>6, <3>7, <3>8
  <2> QED
    BY <1>5, <2>2, <2>3 DEF Attest, Refuses
<1>6. CASE Rebuild(j)
  <2>1. at[j] = "attested" /\ (Goes(j, "rebuilt") \/ Goes(j, "refused"))
    BY <1>6 DEF Rebuild, Refuses
  <2> QED
    BY <2>1, GoesOn
<1>7. CASE Submit(j)
  <2>1. at[j] = "rebuilt" /\ (Goes(j, "sent") \/ Goes(j, "refused"))
    BY <1>7 DEF Submit, Refuses
  <2> QED
    BY <2>1, GoesOn
<1>8. CASE Charge(j)
  BY <1>8, ChargeKeeps
<1>9. CASE Fail(j)
  <2>1. at[j] = "sent" /\ Goes(j, "failed")
    BY <1>9 DEF Fail
  <2> QED
    BY <2>1, GoesOn
<1>10. CASE Answer(j)
  <2>1. \/ at[j] = "included" /\ Goes(j, "success")
        \/ at[j] = "included" /\ Goes(j, "unseen")
        \/ at[j] = "failed" /\ Goes(j, "reverted")
        \/ at[j] = "sent" /\ Goes(j, "dropped")
    BY <1>10 DEF Answer
  <2> QED
    BY <2>1, GoesOn
<1> QED
  BY <1>1, <1>2, <1>3, <1>4, <1>5, <1>6, <1>7, <1>8, <1>9, <1>10

LEMMA NextScheme == SchemeInv /\ [SchemeNext]_schemeVars => SchemeInv'
<1> SUFFICES ASSUME SchemeInv, [SchemeNext]_schemeVars PROVE SchemeInv'
  OBVIOUS
<1> USE DEF SchemeInv
<1>1. ASSUME [Next]_vars, UNCHANGED <<jobVars, published>>
      PROVE  SchemeInv'
  <2>1. IInv'
    BY <1>1, NextIInv
  <2>2. JobType' /\ CallsAreAsRequired'
    BY <1>1 DEF jobVars, JobType, CallsAreAsRequired, TermsFit
  <2>3. IncludedIsCharged' /\ ChargeIsOfItsCall'
    BY <1>1 DEF jobVars, IncludedIsCharged, ChargeIsOfItsCall, Payer, Terms
  <2> QED
    BY <2>1, <2>2, <2>3
<1>2. CASE UNCHANGED schemeVars
  BY <1>1, <1>2 DEF schemeVars, vars
<1>3. CASE World
  BY <1>1, <1>3 DEF World, Next, CloseLedger, Send
<1>4. CASE JobStep
  BY <1>4, JobKeeps DEF JobStep
<1> QED
  BY <1>2, <1>3, <1>4 DEF SchemeNext

THEOREM SchemeInvariance == SchemeSpec => []SchemeInv
BY InitScheme, NextScheme, PTL DEF SchemeSpec

(* Whatever two calls do with one authorization, whenever funds move and   *)
(* however far an RPC node is behind, a success is told for a charge of    *)
(* the call's own, as its seller required.                                 *)
THEOREM ExactCharge == SchemeSpec => []SuccessIsExactCharge
<1>1. SchemeInv => SuccessIsExactCharge
  <2> SUFFICES ASSUME SchemeInv PROVE ChargedAsRequired /\ SuccessIsOwnCharge
    BY DEF SuccessIsExactCharge
  <2> USE DEF SchemeInv, Included, Determined
  <2>1. ASSUME NEW a \in Signable, charged[a] # -1
        PROVE  LET r == request[charged[a]]
               IN  /\ published[a] = r.required.amount
                   /\ a[2].pay_to = r.required.pay_to /\ a[2].token = r.required.token
    <3>1. PICK j \in Jobs : j = charged[a]
      BY <2>1 DEF JobType
    <3>2. at[j] \in Included /\ a = <<Payer(j), Terms(j)>> /\ published[a] = actual[j]
      BY <3>1 DEF ChargeIsOfItsCall
    <3>3. TermsFit(request[j]) /\ actual[j] = request[j].required.amount
      BY <3>2 DEF CallsAreAsRequired
    <3>4. a[2] = request[j].terms
      BY <3>2 DEF Terms
    <3>5. request[j].terms.pay_to = request[j].required.pay_to
      BY <3>3 DEF TermsFit
    <3>6. request[j].terms.token = request[j].required.token
      BY <3>3 DEF TermsFit
    <3>7. published[a] = request[j].required.amount
      BY <3>2, <3>3
    <3> QED
      BY <3>1, <3>4, <3>5, <3>6, <3>7
  <2>2. ChargedAsRequired
    BY <2>1 DEF ChargedAsRequired
  <2>3. SuccessIsOwnCharge
    BY DEF IncludedIsCharged, SuccessIsOwnCharge
  <2> QED
    BY <2>2, <2>3
<1> QED
  BY <1>1, SchemeInvariance, PTL
----------------------------------------------------------------------------
(* What verification finds out.                                            *)

(* The contract ends with what it began with only where the pull delivered *)
(* all of the ceiling: a token it accepts once keeps nothing of a transfer.*)
LEMMA AcceptedIsExact ==
    ASSUME TypeOK, NEW p \in Accounts, NEW t \in PayerTerms,
           NEW n \in Int, Accepts(p, t, t.settlement_id, n)
    PROVE  t.token \in Tokens /\ Fee[t.token] = 0
<1> DEFINE k == t.token
           max == t.max_amount
           before == balance[k]
           after == Refunded(p, t, n)
<1>1. /\ max \in Int /\ max > 0 /\ n \in 0..max
      /\ k \in Tokens /\ p # Contract /\ t.pay_to # Contract
      /\ p \in Holders /\ t.pay_to \in Holders /\ Contract \in Holders
  BY DEF PayerTerms, Holders, Accepts, Valid
<1>2. before \in [Holders -> Nat] /\ Fee[k] \in Nat
  BY <1>1, ContractAssumption DEF TypeOK
<1>3. Delivered(k, max) \in 0..max
  BY <1>1, DeliveredBounds
<1>4. Pulled(p, t)[Contract] = before[Contract] + Delivered(k, max)
  BY <1>1, <1>2, <1>3 DEF Pulled, Transfer
<1>5. Paid(p, t, n)[Contract] = before[Contract] + Delivered(k, max) - n
  BY <1>1, <1>2, <1>3, <1>4 DEF Paid, Transfer
<1>6. after[Contract] = before[Contract] + Delivered(k, max) - max
  BY <1>1, <1>2, <1>3, <1>5 DEF Refunded, Transfer
<1>7. after[Contract] = before[Contract]
  BY DEF Accepts, BalancesMoved
<1>8. Delivered(k, max) = max
  BY <1>1, <1>2, <1>3, <1>6, <1>7
<1> QED
  BY <1>1, <1>2, <1>8 DEF Delivered

(* Where the contract accepts one amount it accepts every other: nothing   *)
(* else it checks is about the amount.                                     *)
LEMMA AcceptsAnyAmount ==
    ASSUME TypeOK, NEW p \in Accounts, NEW t \in PayerTerms,
           NEW simulated \in Int, Accepts(p, t, t.settlement_id, simulated),
           NEW n \in 0..t.max_amount
    PROVE  Accepts(p, t, t.settlement_id, n)
<1> DEFINE k == t.token
           max == t.max_amount
           before == balance[k]
<1>1. /\ max \in Int /\ max > 0 /\ n \in Int /\ 0 <= n /\ n <= max
      /\ p # Contract /\ t.pay_to # Contract
      /\ p \in Holders /\ t.pay_to \in Holders /\ Contract \in Holders
  BY DEF PayerTerms, Holders, Accepts, Valid
<1>2. k \in Tokens /\ \A sent \in Nat : Delivered(k, sent) = sent
  BY AcceptedIsExact DEF Delivered
<1>3. before \in [Holders -> Nat]
  BY <1>2 DEF TypeOK
<1>4. \A h \in Holders : Pulled(p, t)[h] =
          before[h] - (IF h = p THEN max ELSE 0) + (IF h = Contract THEN max ELSE 0)
  BY <1>1, <1>2 DEF Pulled, Transfer
<1>5. \A h \in Holders : Paid(p, t, n)[h] =
          before[h] - (IF h = p THEN max ELSE 0) + (IF h = Contract THEN max - n ELSE 0)
                    + (IF h = t.pay_to THEN n ELSE 0)
  BY <1>1, <1>2, <1>3, <1>4 DEF Paid, Transfer
<1>6. \A h \in Holders : Refunded(p, t, n)[h] =
          before[h] - (IF h = p THEN n ELSE 0) + (IF h = t.pay_to THEN n ELSE 0)
  <2> SUFFICES ASSUME NEW h \in Holders
               PROVE  Refunded(p, t, n)[h] =
                        before[h] - (IF h = p THEN n ELSE 0) + (IF h = t.pay_to THEN n ELSE 0)
    OBVIOUS
  <2>1. before[h] \in Nat
    BY <1>3
  <2>2. CASE n = max
    BY <1>1, <1>5, <2>1, <2>2 DEF Refunded
  <2>3. CASE n < max
    <3>1. Delivered(k, max - n) = max - n
      BY <1>1, <1>2, <2>3
    <3> QED
      BY <1>1, <1>5, <2>1, <2>3, <3>1 DEF Refunded, Transfer
  <2> QED
    BY <1>1, <2>2, <2>3
<1>7. BalancesMoved(before, Refunded(p, t, n), p, t.pay_to, n)
  BY <1>1, <1>3, <1>6 DEF BalancesMoved
<1>8. Pulled(p, t)[Contract] >= n /\ Paid(p, t, n)[Contract] >= max - n
  BY <1>1, <1>3, <1>4, <1>5
<1>9. Valid(p, t, t.settlement_id, n)
  BY <1>1 DEF Accepts, Valid
<1> QED
  BY <1>7, <1>8, <1>9 DEF Accepts

(* Only its simulation has a call verified.                                *)
LEMMA VerifiedBySimulation ==
    ASSUME SchemeInv, [SchemeNext]_schemeVars, NEW j \in Jobs,
           at[j] = "simulate", at'[j] = "verified"
    PROVE  Simulates(j, request[j].attested)
<1>1. at \in [Jobs -> Stages]
  BY DEF SchemeInv, JobType
<1>2. ~ UNCHANGED at
  OBVIOUS
<1>3. JobStep
  BY <1>2 DEF SchemeNext, World, jobVars, schemeVars
<1>4. PICK k \in Jobs :
          \/ Receive(k) \/ CheckWindow(k) \/ CheckReplay(k) \/ Simulate(k) \/ Attest(k)
          \/ Rebuild(k) \/ Submit(k) \/ Charge(k) \/ Fail(k) \/ Answer(k)
  BY <1>3 DEF JobStep
<1>5. k = j
  <2>1. \E stage : at' = [at EXCEPT ![k] = stage]
    BY <1>4 DEF Receive, CheckWindow, CheckReplay, Simulate, Attest, Rebuild, Submit,
                Charge, Fail, Answer, Refuses, Goes
  <2> QED
    BY <1>1, <2>1
<1>6. Simulate(j)
  BY <1>4, <1>5 DEF Receive, CheckWindow, CheckReplay, Attest, Rebuild, Submit,
                    Charge, Fail, Answer
<1>7. ~ Refuses(j)
  BY <1>1 DEF Refuses, Goes
<1> QED
  BY <1>6, <1>7 DEF Simulate

(* One simulation, of a call that attests nothing yet, answers for every   *)
(* amount the seller may come to ask, whatever the token.                  *)
THEOREM VerifiedSettles == SchemeSpec => VerifiedIsSettleable
<1> DEFINE Settleable == \A j \in Jobs : at[j] = "simulate" /\ at'[j] = "verified" =>
                            \A n \in 0..Terms(j).max_amount : Simulates(j, n)
<1>1. SchemeInv /\ [SchemeNext]_schemeVars => [Settleable]_schemeVars
  <2> SUFFICES ASSUME SchemeInv, [SchemeNext]_schemeVars, NEW j \in Jobs,
                      at[j] = "simulate", at'[j] = "verified",
                      NEW n \in 0..Terms(j).max_amount
               PROVE  Simulates(j, n)
    OBVIOUS
  <2>1. Simulates(j, request[j].attested)
    BY VerifiedBySimulation
  <2>2. request[j].attested \in Int
    BY SchemeAssumption DEF SchemeInv, JobType
  <2>3. Payer(j) \in Accounts /\ Terms(j) \in PayerTerms
    BY Carried
  <2>4. TypeOK
    BY DEF SchemeInv, IInv
  <2> HIDE DEF SchemeInv
  <2> QED
    BY <2>1, <2>2, <2>3, <2>4, AcceptsAnyAmount DEF Simulates
<1> QED
  BY <1>1, SchemeInvariance, PTL DEF SchemeSpec, VerifiedIsSettleable
=============================================================================
