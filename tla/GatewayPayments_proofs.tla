------------------------ MODULE GatewayPayments_proofs ------------------------
(***************************************************************************)
(* What the gateway guarantees for any number of requests, payments, slots *)
(* and process deaths.  Being paid is carried along by MoneyInv: every     *)
(* place a request can learn of a settlement from - the answer of its      *)
(* call, its stage, the event file - knows only of payments that moved     *)
(* funds.  The trace of a charge is carried by TraceInv.                   *)
(***************************************************************************)
EXTENDS GatewayPayments, TLAPS

Paid(r) == PaymentOf[r] \in charged

Verified(p) == \E r \in Requests : PaymentOf[r] = p /\ <<r, "verified">> \in log

(* A call serves requests of its own payment, and its success, a settled   *)
(* stage and a settled record all mean funds moved.                        *)
MoneyInv ==
    /\ \A r \in Requests : call[r] # None => PaymentOf[call[r]] = PaymentOf[r]
    /\ \A r \in landed : Paid(r)
    /\ \A r \in Requests : stage[r] \in {"settled", "forward", "fault"} \cup Outcomes => Paid(r)
    /\ \A r \in Requests : <<r, "settled">> \in log => Paid(r)
    /\ ForwardedIsPaid

(* Before a payment is posted its verification is on disk.                 *)
TraceInv ==
    /\ \A r \in Requests : stage[r] = "settle" => <<r, "verified">> \in log
    /\ \A p \in posted : Verified(p)
    /\ charged \subseteq posted

USE GatewayAssumption DEF GatewayAssumption

----------------------------------------------------------------------------
(* Typing, with the link between a request's stage and the call it awaits. *)
LEMMA TypeInit == Init => TypeOK
<1> SUFFICES ASSUME Init PROVE TypeOK
    OBVIOUS
<1> USE DEF Init, Statuses, PaymentStatuses, Outcomes
<1>1. \A r \in Requests : stage[r] = "new" /\ call[r] = None
      OBVIOUS
<1>2. stage \in [Requests -> {"new"}] /\ answer \in [Requests -> {"none"}]
      /\ call \in [Requests -> {None}]
      OBVIOUS
<1> QED BY <1>1, <1>2 DEF TypeOK

LEMMA TypeStep == TypeOK /\ [Next]_vars => TypeOK'
<1> SUFFICES ASSUME TypeOK, [Next]_vars PROVE TypeOK'
    OBVIOUS
<1> USE DEF TypeOK, Statuses, PaymentStatuses, Outcomes, Goto, Reply, storeVars, moneyVars
<1>1. ASSUME NEW r \in Requests, Admit(r) PROVE TypeOK'
      BY <1>1 DEF Admit
<1>2. ASSUME NEW r \in Requests, Refuse(r) PROVE TypeOK'
      BY <1>2 DEF Refuse
<1>3. ASSUME NEW r \in Requests, FindSettlement(r) PROVE TypeOK'
      BY <1>3 DEF FindSettlement
<1>4. ASSUME NEW r \in Requests, Verify(r) PROVE TypeOK'
      BY <1>4 DEF Verify
<1>5. ASSUME NEW r \in Requests, SettleOnce(r) PROVE TypeOK'
      BY <1>5 DEF SettleOnce
<1>6. ASSUME NEW q \in Requests, SettleReturns(q) PROVE TypeOK'
  <2> PICK outcome \in {"success", "failure", "thrown"} :
           stage' = [r \in Requests |->
                        IF call[r] = q THEN AfterSettle(outcome) ELSE stage[r]]
      BY <1>6 DEF SettleReturns
  <2>1. AfterSettle(outcome) \in {"settled", "failed", "unavailable"}
        BY DEF AfterSettle
  <2>2. UNCHANGED <<answer, posted, charged, storeVars, upstream, restarts>>
        /\ call' = [r \in Requests |-> IF call[r] = q THEN None ELSE call[r]]
        /\ landed' = landed \ {q}
        BY <1>6 DEF SettleReturns
  <2> QED BY <2>1, <2>2
<1>7. ASSUME NEW r \in Requests, Append(r) PROVE TypeOK'
  <2>1. log' \subseteq Requests \X Statuses
        BY <1>7 DEF Append
  <2>2. \E s \in {"settle", "forward", "fault", "done"},
           a \in {answer[r], "402", "502", "503", "served"} :
            stage' = [stage EXCEPT ![r] = s] /\ answer' = [answer EXCEPT ![r] = a]
    <3>1. UNCHANGED answer => answer' = [answer EXCEPT ![r] = answer[r]]
          OBVIOUS
    <3> QED BY <1>7, <3>1 DEF Append, AfterAppend, Deliver
  <2>3. stage[r] # "settling" /\ UNCHANGED <<call, moneyVars, poisoned, torn, upstream, restarts>>
        BY <1>7 DEF Append
  <2> QED BY <2>1, <2>2, <2>3
<1>8. ASSUME NEW r \in Requests, AppendFails(r) PROVE TypeOK'
      BY <1>8 DEF AppendFails
<1>9. ASSUME NEW r \in Requests, Forward(r) PROVE TypeOK'
      BY <1>9 DEF Forward
<1>10. ASSUME NEW p \in Payments, Charge(p) PROVE TypeOK'
      BY <1>10 DEF Charge
<1>11. CASE Restart
  <2>1. torn' \in BOOLEAN /\ poisoned' \in BOOLEAN /\ restarts' \in Nat
    <3>1. torn' \in {torn, torn \/ Writing} BY <1>11 DEF Restart
    <3>2. (torn \/ Writing) \in BOOLEAN BY Zenon
    <3>3. torn' \in BOOLEAN BY <3>1, <3>2
    <3>4. poisoned' = FALSE /\ restarts' = restarts + 1 BY <1>11 DEF Restart
    <3>5. restarts' \in Nat BY <3>4
    <3>6. poisoned' \in BOOLEAN BY <3>4
    <3> QED BY <3>3, <3>5, <3>6
  <2>2. stage' = [r \in Requests |-> IF r \in Active THEN "done" ELSE stage[r]]
        /\ answer' = [r \in Requests |-> IF r \in Active THEN "lost" ELSE answer[r]]
        /\ call' = [r \in Requests |-> None] /\ landed' = {}
        /\ UNCHANGED <<posted, charged, log, upstream>>
        BY <1>11 DEF Restart
  <2> QED BY <2>1, <2>2 DEF Active
<1>15. ASSUME NEW r \in Requests, Inspect(r) PROVE TypeOK'
      BY <1>15 DEF Inspect, Challenge, BodyRefused
<1>13. ASSUME NEW r \in Requests, Unresolved(r) PROVE TypeOK'
      BY <1>13 DEF Unresolved
<1>14. CASE UNCHANGED vars
      BY <1>14 DEF vars
<1> QED BY <1>1, <1>2, <1>3, <1>4, <1>5, <1>6, <1>7, <1>8, <1>9, <1>10, <1>11, <1>14,
        <1>15, <1>13 DEF Next, Handle

(* Every variable keeps its type, and a request is settling exactly while  *)
(* it awaits a call.                                                       *)
THEOREM TypeCorrect == Spec => []TypeOK
<1>1. Init => TypeOK BY TypeInit
<1>2. TypeOK /\ [Next]_vars => TypeOK' BY TypeStep
<1> QED BY <1>1, <1>2, PTL DEF Spec

----------------------------------------------------------------------------
(* Charges are never undone, so each part of MoneyInv survives the steps   *)
(* that do not give a request a new stage, call or record.                 *)
LEMMA MoneyInit == Init => MoneyInv
BY DEF Init, MoneyInv, ForwardedIsPaid, Outcomes

LEMMA MoneyStep == TypeOK /\ MoneyInv /\ [Next]_vars => MoneyInv'
<1> SUFFICES ASSUME TypeOK, MoneyInv, [Next]_vars PROVE MoneyInv'
    OBVIOUS
<1> USE DEF MoneyInv, ForwardedIsPaid, Paid, Outcomes, Goto, Reply, storeVars,
           moneyVars
<1>1. ASSUME NEW r \in Requests, Admit(r) PROVE MoneyInv'
      BY <1>1 DEF Admit, TypeOK
<1>2. ASSUME NEW r \in Requests, Refuse(r) PROVE MoneyInv'
      BY <1>2 DEF Refuse, TypeOK
<1>3. ASSUME NEW r \in Requests, FindSettlement(r) PROVE MoneyInv'
  <2>1. CASE Reply(r, "error")
        BY <1>3, <2>1 DEF FindSettlement, TypeOK
  <2>2. CASE Goto(r, IF SettledRecords(PaymentOf[r]) # {} THEN "forward" ELSE "verify")
             /\ UNCHANGED answer
    <3>1. SettledRecords(PaymentOf[r]) # {} => Paid(r)
          BY DEF SettledRecords
    <3> QED BY <1>3, <2>2, <3>1 DEF FindSettlement, TypeOK
  <2> QED BY <1>3, <2>1, <2>2 DEF FindSettlement
<1>4. ASSUME NEW r \in Requests, Verify(r) PROVE MoneyInv'
      BY <1>4 DEF Verify, TypeOK
<1>5. ASSUME NEW r \in Requests, SettleOnce(r) PROVE MoneyInv'
      BY <1>5 DEF SettleOnce, TypeOK
<1>6. ASSUME NEW q \in Requests, SettleReturns(q) PROVE MoneyInv'
  <2> PICK outcome \in {"success", "failure", "thrown"} :
           /\ outcome = "success" => q \in landed
           /\ stage' = [r \in Requests |->
                           IF call[r] = q THEN AfterSettle(outcome) ELSE stage[r]]
      BY <1>6 DEF SettleReturns
  <2>1. AfterSettle(outcome) \notin {"forward", "fault"} \cup Outcomes
        /\ (AfterSettle(outcome) = "settled" => outcome = "success")
        BY DEF AfterSettle, Outcomes
  <2>2. /\ call' = [r \in Requests |-> IF call[r] = q THEN None ELSE call[r]]
        /\ landed' = landed \ {q}
        /\ UNCHANGED <<charged, log, upstream>>
        BY <1>6 DEF SettleReturns
  <2>3. \A r \in Requests : call[r] = q => PaymentOf[r] = PaymentOf[q]
        OBVIOUS
  <2> QED BY <2>1, <2>2, <2>3 DEF TypeOK
<1>7. ASSUME NEW r \in Requests, Append(r) PROVE MoneyInv'
  <2>1. \A o \in Requests : <<o, "settled">> \in log' =>
            <<o, "settled">> \in log \/ (o = r /\ stage[r] = "settled")
        BY <1>7 DEF Append
  <2>2. /\ UNCHANGED <<call, landed, charged, upstream>>
        /\ \A o \in Requests \ {r} : stage'[o] = stage[o]
        /\ stage'[r] \in {"settled", "forward", "fault"} \cup Outcomes =>
               stage[r] \in {"settled"} \cup Outcomes
        BY <1>7 DEF Append, AfterAppend, Deliver, TypeOK, Statuses, PaymentStatuses, Outcomes
  <2> QED BY <2>1, <2>2
<1>8. ASSUME NEW r \in Requests, AppendFails(r) PROVE MoneyInv'
      BY <1>8 DEF AppendFails, TypeOK
<1>9. ASSUME NEW r \in Requests, Forward(r) PROVE MoneyInv'
      BY <1>9 DEF Forward, TypeOK
<1>10. ASSUME NEW p \in Payments, Charge(p) PROVE MoneyInv'
      BY <1>10 DEF Charge, TypeOK
<1>11. CASE Restart
      BY <1>11 DEF Restart, TypeOK
<1>15. ASSUME NEW r \in Requests, Inspect(r) PROVE MoneyInv'
      BY <1>15 DEF Inspect, Challenge, BodyRefused, TypeOK
<1>13. ASSUME NEW r \in Requests, Unresolved(r) PROVE MoneyInv'
      BY <1>13 DEF Unresolved, TypeOK
<1>14. CASE UNCHANGED vars
      BY <1>14 DEF vars
<1> QED BY <1>1, <1>2, <1>3, <1>4, <1>5, <1>6, <1>7, <1>8, <1>9, <1>10, <1>11, <1>14,
        <1>15, <1>13 DEF Next, Handle

(* "Unpaid requests never reach the upstream", for any number of requests  *)
(* and any interleaving: the payment of a forwarded request moved funds.   *)
THEOREM OnlyPaidForwarded == Spec => []ForwardedIsPaid
<1>1. Init => TypeOK /\ MoneyInv BY TypeInit, MoneyInit
<1>2. TypeOK /\ MoneyInv /\ [Next]_vars => TypeOK' /\ MoneyInv' BY TypeStep, MoneyStep
<1>3. MoneyInv => ForwardedIsPaid BY DEF MoneyInv
<1> QED BY <1>1, <1>2, <1>3, PTL DEF Spec

----------------------------------------------------------------------------
LEMMA TraceInit == Init => TraceInv
BY DEF Init, TraceInv

(* Records are never taken back, so only the steps that post a payment,    *)
(* charge one or admit a request to settlement need an argument.           *)
LEMMA TraceStep == TypeOK /\ TraceInv /\ [Next]_vars => TraceInv'
<1> SUFFICES ASSUME TypeOK, TraceInv, [Next]_vars PROVE TraceInv'
    OBVIOUS
<1> USE DEF TraceInv, Verified, Goto, Reply, storeVars, moneyVars
<1>1. ASSUME NEW r \in Requests, Admit(r) PROVE TraceInv'
      BY <1>1 DEF Admit, TypeOK
<1>2. ASSUME NEW r \in Requests, Refuse(r) PROVE TraceInv'
      BY <1>2 DEF Refuse, TypeOK
<1>3. ASSUME NEW r \in Requests, FindSettlement(r) PROVE TraceInv'
  <2>1. UNCHANGED <<log, posted, charged>> /\ stage'[r] # "settle"
        /\ \A o \in Requests \ {r} : stage'[o] = stage[o]
        BY <1>3 DEF FindSettlement, TypeOK
  <2> QED BY <2>1
<1>4. ASSUME NEW r \in Requests, Verify(r) PROVE TraceInv'
  <2>1. UNCHANGED <<log, posted, charged>> /\ stage'[r] # "settle"
        /\ \A o \in Requests \ {r} : stage'[o] = stage[o]
        BY <1>4 DEF Verify, TypeOK
  <2> QED BY <2>1
<1>5. ASSUME NEW r \in Requests, SettleOnce(r) PROVE TraceInv'
  <2>1. /\ stage[r] = "settle" /\ posted' = posted \cup {PaymentOf[r]}
        /\ stage' = [stage EXCEPT ![r] = "settling"]
        /\ UNCHANGED <<charged, log>>
        BY <1>5 DEF SettleOnce
  <2>2. Verified(PaymentOf[r])
        BY <2>1
  <2> QED BY <2>1, <2>2 DEF TypeOK
<1>6. ASSUME NEW q \in Requests, SettleReturns(q) PROVE TraceInv'
  <2> PICK outcome \in {"success", "failure", "thrown"} :
           stage' = [r \in Requests |->
                        IF call[r] = q THEN AfterSettle(outcome) ELSE stage[r]]
      BY <1>6 DEF SettleReturns
  <2>1. AfterSettle(outcome) # "settle"
        BY DEF AfterSettle
  <2>2. UNCHANGED <<log, posted, charged>>
        BY <1>6 DEF SettleReturns
  <2> QED BY <2>1, <2>2
<1>7. ASSUME NEW r \in Requests, Append(r) PROVE TraceInv'
  <2>1. /\ UNCHANGED <<posted, charged>>
        /\ \A o \in Requests \ {r} : stage'[o] = stage[o]
        /\ stage'[r] = "settle" => stage[r] = "verified"
    <3> HIDE DEF TraceInv
    <3>1. PICK s \in {"settle", "forward", "fault", "done"} :
            stage' = [stage EXCEPT ![r] = s] /\ (s = "settle" => stage[r] = "verified")
          BY <1>7 DEF Append, AfterAppend, Deliver, Statuses, PaymentStatuses, Outcomes
    <3> QED BY <1>7, <3>1 DEF Append, TypeOK
  <2>2. log' = log \cup {<<r, stage[r]>>}
        BY <1>7 DEF Append
  <2> QED BY <2>1, <2>2
<1>8. ASSUME NEW r \in Requests, AppendFails(r) PROVE TraceInv'
      BY <1>8 DEF AppendFails, TypeOK
<1>9. ASSUME NEW r \in Requests, Forward(r) PROVE TraceInv'
  <2>1. PICK outcome \in Outcomes \cup {"fault"} :
            stage' = [stage EXCEPT ![r] = outcome]
        BY <1>9 DEF Forward
  <2>2. UNCHANGED <<log, posted, charged>> /\ outcome # "settle"
        BY <1>9, <2>1 DEF Forward, Outcomes
  <2> QED BY <2>1, <2>2 DEF TypeOK
<1>10. ASSUME NEW p \in Payments, Charge(p) PROVE TraceInv'
      BY <1>10 DEF Charge
<1>11. CASE Restart
      BY <1>11 DEF Restart, Active
<1>15. ASSUME NEW r \in Requests, Inspect(r) PROVE TraceInv'
  <2>1. UNCHANGED <<log, posted, charged>>
        BY <1>15 DEF Inspect
  <2>2. \E s \in {"done", "challenged", "rejected", "find"} : stage' = [stage EXCEPT ![r] = s]
        BY <1>15 DEF Inspect, Challenge, BodyRefused
  <2> QED BY <2>1, <2>2 DEF TypeOK
<1>13. ASSUME NEW r \in Requests, Unresolved(r) PROVE TraceInv'
      BY <1>13 DEF Unresolved, TypeOK
<1>14. CASE UNCHANGED vars
      BY <1>14 DEF vars
<1> QED BY <1>1, <1>2, <1>3, <1>4, <1>5, <1>6, <1>7, <1>8, <1>9, <1>10, <1>11, <1>14,
        <1>15, <1>13 DEF Next, Handle

(* Whatever fails - the disk, the facilitator's answer, the process - a    *)
(* payment that moved funds has a verified record in the event file.       *)
THEOREM ChargesTraced == Spec => []ChargeIsTraced
<1>1. Init => TypeOK /\ TraceInv BY TypeInit, TraceInit
<1>2. TypeOK /\ TraceInv /\ [Next]_vars => TypeOK' /\ TraceInv' BY TypeStep, TraceStep
<1>3. TraceInv => ChargeIsTraced BY DEF TraceInv, ChargeIsTraced, Verified
<1> QED BY <1>1, <1>2, <1>3, PTL DEF Spec

----------------------------------------------------------------------------
(* Only SettleOnce opens a call, and only when no request awaits one for   *)
(* that payment.                                                           *)
LEMMA OneCallStep == TypeOK /\ OneCallPerPayment /\ [Next]_vars => OneCallPerPayment'
<1> SUFFICES ASSUME TypeOK, OneCallPerPayment, [Next]_vars PROVE OneCallPerPayment'
    OBVIOUS
<1> USE DEF OneCallPerPayment
<1>1. ASSUME NEW r \in Requests, SettleOnce(r) PROVE OneCallPerPayment'
  <2> PICK q \in Requests :
        /\ PaymentOf[q] = PaymentOf[r]
        /\ \/ call[q] = q
           \/ q = r /\ \A o \in Requests : PaymentOf[o] = PaymentOf[r] => call[o] = None
        /\ call' = [call EXCEPT ![r] = q]
      BY <1>1 DEF SettleOnce
  <2>1. CASE call[q] = q
        BY <2>1 DEF TypeOK
  <2>2. CASE q = r /\ \A o \in Requests : PaymentOf[o] = PaymentOf[r] => call[o] = None
        BY <2>2 DEF TypeOK
  <2> QED BY <2>1, <2>2
<1>2. ASSUME NEW q \in Requests, SettleReturns(q) PROVE OneCallPerPayment'
      BY <1>2 DEF SettleReturns
<1>3. CASE Restart
      BY <1>3 DEF Restart
<1>4. ASSUME UNCHANGED call PROVE OneCallPerPayment'
      BY <1>4
<1>5. ASSUME NEW r \in Requests,
             Admit(r) \/ Refuse(r) \/ Inspect(r) \/ Unresolved(r) \/ FindSettlement(r) \/ Verify(r) \/ Append(r)
             \/ AppendFails(r) \/ Forward(r)
      PROVE UNCHANGED call
      BY <1>5 DEF Admit, Refuse, Inspect, Unresolved, FindSettlement, Verify, Append, AppendFails, Forward
<1>6. ASSUME NEW p \in Payments, Charge(p) PROVE UNCHANGED call
      BY <1>6 DEF Charge
<1>7. CASE UNCHANGED vars
      BY <1>4, <1>7 DEF vars
<1> QED BY <1>1, <1>2, <1>3, <1>4, <1>5, <1>6, <1>7 DEF Next, Handle

(* In-flight coalescing works for any number of racing replays: a process  *)
(* never has two settle calls open for one payment.                        *)
THEOREM CallsCoalesce == Spec => []OneCallPerPayment
<1>1. Init => TypeOK /\ OneCallPerPayment BY TypeInit DEF Init, OneCallPerPayment
<1>2. TypeOK /\ OneCallPerPayment /\ [Next]_vars => TypeOK' /\ OneCallPerPayment'
      BY TypeStep, OneCallStep
<1> QED BY <1>1, <1>2, PTL DEF Spec
=============================================================================
