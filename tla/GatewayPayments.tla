---------------------------- MODULE GatewayPayments ----------------------------
(***************************************************************************)
(* Paid requests through the gateway (gateway-service/src/app.ts and its   *)
(* JSONL event store, store.ts): challenge or check the request, look the  *)
(* payment up, verify and settle it with the facilitator, write the        *)
(* events, forward to the seller's API and judge what comes back.          *)
(*                                                                         *)
(* Requests interleave at every await: the lookup, the two facilitator     *)
(* calls, each append, the upstream call.  A payment is the hash of its    *)
(* payload; several requests may carry the same one.  The store chains its *)
(* appends on one promise, so the first failing append fails every later   *)
(* one until the process restarts; a death during an append may leave half *)
(* a line, which no later read survives.                                   *)
(***************************************************************************)
EXTENDS Naturals, FiniteSets

CONSTANTS
    Requests,       \* requests to protected routes
    Payments,       \* payment payloads, by hash
    PaymentOf,      \* [Requests -> Payments]
    None,           \* no call awaited
    MaxConcurrent,  \* config.maxConcurrentRequests
    MaxRestarts     \* bound on process deaths

ASSUME GatewayAssumption ==
    /\ PaymentOf \in [Requests -> Payments]
    /\ None \notin Requests
    /\ MaxConcurrent \in Nat /\ MaxRestarts \in Nat

VARIABLES
    stage,     \* where each request stands
    answer,    \* what it was answered
    call,      \* the request whose settle call each request awaits
    landed,    \* requests whose settle call has charged the payer
    posted,    \* payments sent to the facilitator's /settle
    charged,   \* payments that moved funds on the ledger
    log,       \* <<request, status>> records of payment-events.jsonl
    upstream,  \* requests forwarded to the seller's API
    poisoned,  \* the write queue is a rejected promise
    torn,      \* the event file ends in half a line
    restarts

storeVars == <<log, poisoned, torn>>
moneyVars == <<landed, posted, charged>>
vars == <<stage, answer, call, moneyVars, storeVars, upstream, restarts>>

(* What a record of the event files may say: the statuses of paymentEvent, *)
(* the classes of classifyProviderOutcome, and the fault that the catch    *)
(* block of the forwarding records.                                        *)
PaymentStatuses == {"challenged", "verified", "rejected", "settled", "failed", "unavailable"}
Outcomes == {"ok", "callerFault", "providerFault"}
Statuses == PaymentStatuses \cup Outcomes \cup {"fault"}
Active == {r \in Requests : stage[r] \notin {"new", "done"}}
SettledRecords(p) == {r \in Requests : <<r, "settled">> \in log /\ PaymentOf[r] = p}

(* Some line of the event file is under way.                               *)
Writing == ~poisoned /\ \E r \in Requests : stage[r] \in Statuses

Init ==
    /\ stage = [r \in Requests |-> "new"]
    /\ answer = [r \in Requests |-> "none"]
    /\ call = [r \in Requests |-> None]
    /\ landed = {} /\ posted = {} /\ charged = {}
    /\ log = {} /\ poisoned = FALSE /\ torn = FALSE
    /\ upstream = {}
    /\ restarts = 0

Goto(r, s) == stage' = [stage EXCEPT ![r] = s]
Reply(r, a) == Goto(r, "done") /\ answer' = [answer EXCEPT ![r] = a]

----------------------------------------------------------------------------
(* requestRefusal: a slot is taken, or the request is turned away (also    *)
(* for its rate, or by a gateway that is paused or has expired).           *)
Admit(r) ==
    /\ stage[r] = "new"
    /\ Cardinality(Active) < MaxConcurrent
    /\ Goto(r, "inspect")
    /\ UNCHANGED <<answer, call, moneyVars, storeVars, upstream, restarts>>

Refuse(r) ==
    /\ stage[r] = "new"
    /\ Reply(r, "refused")
    /\ UNCHANGED <<call, moneyVars, storeVars, upstream, restarts>>

(* A body that is too long, or framed twice, is not read to its end.       *)
BodyRefused(r) == Reply(r, "refused")

(* A request without a payment is challenged and recorded; one whose       *)
(* payment header does not decode is challenged only.                      *)
Challenge(r) == Reply(r, "402") \/ (Goto(r, "challenged") /\ UNCHANGED answer)

(* Before the payment is looked up: a provider policy on hold, a challenge,*)
(* an unsafe body, a payment for other requirements or extensions, which   *)
(* is recorded as rejected.                                                *)
Inspect(r) ==
    /\ stage[r] = "inspect"
    /\ \/ Reply(r, "refused")
       \/ Challenge(r)
       \/ BodyRefused(r)
       \/ \E s \in {"rejected", "find"} : Goto(r, s) /\ UNCHANGED answer
    /\ UNCHANGED <<call, moneyVars, storeVars, upstream, restarts>>

(* findSettlement, outside the try block: a file that does not parse (torn *)
(* for good, or read while a line is being written) is a 500, a recorded   *)
(* settlement goes straight to the upstream.                               *)
FindSettlement(r) ==
    /\ stage[r] = "find"
    /\ \/ (torn \/ Writing) /\ Reply(r, "error")
       \/ /\ ~torn
          /\ Goto(r, IF SettledRecords(PaymentOf[r]) # {} THEN "forward" ELSE "verify")
          /\ UNCHANGED answer
    /\ UNCHANGED <<call, moneyVars, storeVars, upstream, restarts>>

(* verifyPayment: the facilitator's replay check refuses a charged payment.*)
Verify(r) ==
    /\ stage[r] = "verify"
    /\ \/ PaymentOf[r] \notin charged /\ Goto(r, "verified")
       \/ Goto(r, "rejected")
       \/ Goto(r, "unavailable")
    /\ UNCHANGED <<answer, call, moneyVars, storeVars, upstream, restarts>>

(* settleOnce: join the call in flight for this payment, or open one.      *)
SettleOnce(r) ==
    /\ stage[r] = "settle"
    /\ Goto(r, "settling")
    /\ \E q \in Requests :
        /\ PaymentOf[q] = PaymentOf[r]
        /\ \/ call[q] = q
           \/ q = r /\ \A o \in Requests : PaymentOf[o] = PaymentOf[r] => call[o] = None
        /\ call' = [call EXCEPT ![r] = q]
    /\ posted' = posted \cup {PaymentOf[r]}
    /\ UNCHANGED <<answer, landed, charged, storeVars, upstream, restarts>>

(* The facilitator's transaction is included, once per payment and maybe   *)
(* long after the gateway stopped waiting or died.                         *)
Charge(p) ==
    /\ p \in posted \ charged
    /\ charged' = charged \cup {p}
    /\ landed' = landed \cup {q \in Requests : call[q] = q /\ PaymentOf[q] = p}
    /\ UNCHANGED <<stage, answer, call, posted, storeVars, upstream, restarts>>

(* What a request does with the outcome of the call it awaited.            *)
AfterSettle(outcome) ==
    CASE outcome = "success" -> "settled"
      [] outcome = "failure" -> "failed"
      [] outcome = "thrown"  -> "unavailable"

(* The call of q resolves for all that await it and leaves the map.  A     *)
(* success is certain; a failure or a lost answer may hide a charge.       *)
SettleReturns(q) ==
    /\ call[q] = q
    /\ \E outcome \in {"success", "failure", "thrown"} :
        /\ outcome = "success" => q \in landed
        /\ stage' = [r \in Requests |->
                        IF call[r] = q THEN AfterSettle(outcome) ELSE stage[r]]
    /\ call' = [r \in Requests |-> IF call[r] = q THEN None ELSE call[r]]
    /\ landed' = landed \ {q}
    /\ UNCHANGED <<answer, posted, charged, storeVars, upstream, restarts>>

----------------------------------------------------------------------------
(* appendPaymentEvent and appendProviderOutcome: a request at a status is  *)
(* writing the record of that status, and goes on when it is on disk.      *)

(* The seller's answer goes back, with a signed outcome if the gateway has *)
(* a key; one it cannot sign with turns even this answer into a fault.     *)
Deliver(r) == Reply(r, "served") \/ (Goto(r, "fault") /\ UNCHANGED answer)

(* Mutant of AfterAppend: the upstream is called once verification is      *)
(* recorded.                                                               *)
AfterAppendEarly(r, status) ==
    CASE status \in {"verified", "settled"} -> Goto(r, "forward") /\ UNCHANGED answer
      [] status \in {"challenged", "rejected", "failed"} -> Reply(r, "402")
      [] status = "unavailable" -> Reply(r, "503")
      [] status \in Outcomes    -> Deliver(r)
      [] status = "fault"       -> Reply(r, "502")

AfterAppend(r, status) ==
    CASE status = "verified" -> Goto(r, "settle") /\ UNCHANGED answer
      [] status = "settled"  -> Goto(r, "forward") /\ UNCHANGED answer
      [] status \in {"challenged", "rejected", "failed"} -> Reply(r, "402")
      [] status = "unavailable" -> Reply(r, "503")
      [] status \in Outcomes    -> Deliver(r)
      [] status = "fault"       -> Reply(r, "502")

Append(r) ==
    /\ stage[r] \in Statuses
    /\ ~poisoned
    /\ log' = log \cup {<<r, stage[r]>>}
    /\ AfterAppend(r, stage[r])
    /\ UNCHANGED <<call, moneyVars, poisoned, torn, upstream, restarts>>

(* Mutant of AppendFails: a verification that could not be recorded does   *)
(* not stop the payment.                                                   *)
AppendFailsIgnored(r) ==
    /\ stage[r] \in Statuses
    /\ poisoned' = TRUE
    /\ torn' \in {torn, torn \/ ~poisoned}
    /\ IF stage[r] = "verified"
       THEN Goto(r, "settle") /\ UNCHANGED answer
       ELSE Reply(r, "error")
    /\ UNCHANGED <<call, moneyVars, log, upstream, restarts>>

(* Mutant of AppendFails: the request waits for a write queue that moves   *)
(* again.                                                                  *)
AppendFailsWaits(r) ==
    /\ stage[r] \in Statuses
    /\ poisoned' = TRUE
    /\ torn' \in {torn, torn \/ ~poisoned}
    /\ UNCHANGED <<stage, answer, call, moneyVars, log, upstream, restarts>>

(* The disk refuses, maybe half way, or an earlier append was refused.  The*)
(* catch block appends as well, and that fails on the rejected queue: a 500*)
AppendFails(r) ==
    /\ stage[r] \in Statuses
    /\ poisoned' = TRUE
    /\ torn' \in {torn, torn \/ ~poisoned}
    /\ Reply(r, "error")
    /\ UNCHANGED <<call, moneyVars, log, upstream, restarts>>

(* assertSafeDns: an upstream that does not resolve, or resolves to an     *)
(* address that is not public, is not called and counts as a fault.        *)
Unresolved(r) ==
    /\ stage[r] = "forward"
    /\ Goto(r, "fault")
    /\ UNCHANGED <<answer, call, moneyVars, storeVars, upstream, restarts>>

(* forwardRequest: the upstream's answer is classified by its status; a    *)
(* timeout, a lost connection or an answer that is too long is a fault.    *)
Forward(r) ==
    /\ stage[r] = "forward"
    /\ upstream' = upstream \cup {r}
    /\ \E outcome \in Outcomes \cup {"fault"} : Goto(r, outcome)
    /\ UNCHANGED <<answer, call, moneyVars, storeVars, restarts>>

----------------------------------------------------------------------------
(* The process dies and starts again.  The event file survives; the calls  *)
(* in flight, the write queue and the open requests do not.                *)
Restart ==
    /\ restarts < MaxRestarts
    /\ restarts' = restarts + 1
    /\ torn' \in {torn, torn \/ Writing}
    /\ poisoned' = FALSE
    /\ stage' = [r \in Requests |-> IF r \in Active THEN "done" ELSE stage[r]]
    /\ answer' = [r \in Requests |-> IF r \in Active THEN "lost" ELSE answer[r]]
    /\ call' = [r \in Requests |-> None]
    /\ landed' = {}
    /\ UNCHANGED <<posted, charged, log, upstream>>

Handle(r) ==
    \/ Inspect(r) \/ FindSettlement(r) \/ Verify(r)
    \/ SettleOnce(r) \/ SettleReturns(r)
    \/ Append(r) \/ AppendFails(r)
    \/ Unresolved(r) \/ Forward(r)

Next ==
    \/ \E r \in Requests : Admit(r) \/ Refuse(r) \/ Handle(r)
    \/ \E p \in Payments : Charge(p)
    \/ Restart

Spec == Init /\ [][Next]_vars

(* Every await ends: the upstream call by its AbortSignal, the facilitator *)
(* calls by the limits of the runtime's fetch.                             *)
FairSpec == Spec /\ \A r \in Requests : WF_vars(Handle(r))

----------------------------------------------------------------------------
(* Every variable keeps its type.                                          *)
TypeOK ==
    /\ stage \in [Requests -> {"new", "inspect", "find", "verify", "settle", "settling",
                               "forward", "done"} \cup Statuses]
    /\ answer \in [Requests -> {"none", "refused", "402", "502", "503", "served", "error",
                                "lost"}]
    /\ call \in [Requests -> Requests \cup {None}]
    /\ \A r \in Requests : stage[r] = "settling" <=> call[r] # None
    /\ landed \subseteq Requests
    /\ posted \subseteq Payments /\ charged \subseteq Payments
    /\ log \subseteq Requests \X Statuses
    /\ upstream \subseteq Requests
    /\ poisoned \in BOOLEAN /\ torn \in BOOLEAN
    /\ restarts \in Nat

(* "Unpaid requests never reach the upstream": whatever was lost, replayed *)
(* or recorded, a forwarded request carries a payment that moved funds.    *)
ForwardedIsPaid == \A r \in upstream : PaymentOf[r] \in charged

(* No charge without a trace on disk: before the facilitator was asked to  *)
(* move funds, the verification was recorded, whatever failed since.       *)
ChargeIsTraced ==
    \A p \in charged : \E r \in Requests : PaymentOf[r] = p /\ <<r, "verified">> \in log

(* In-flight coalescing: a process has one settle call open per payment.   *)
OneCallPerPayment ==
    \A q1, q2 \in Requests :
        call[q1] = q1 /\ call[q2] = q2 /\ PaymentOf[q1] = PaymentOf[q2] => q1 = q2

(* Every admitted request is answered, or lost with the process.           *)
EveryRequestAnswered == \A r \in Requests : stage[r] # "new" ~> stage[r] = "done"

(* "The gateway never manufactures fee or revenue data": the earnings      *)
(* endpoint adds up the settled records, so a payment that moved funds     *)
(* once must not have two.                                                 *)
EarningsAreCharges == \A p \in Payments : Cardinality(SettledRecords(p)) <= 1
=============================================================================
