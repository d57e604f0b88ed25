----------------------------- MODULE SettlePath -----------------------------
(***************************************************************************)
(* A POST /settle from the request to its answer: the handler and its      *)
(* ledger-skew retry (facilitator-service/src/server.ts, retry.ts), the    *)
(* scheduler it leases a signer from (SettleScheduler), the settlement     *)
(* itself (stellar/x402-facilitator.ts, stellar/upto-scheme.ts) and the    *)
(* Stellar accounts and transactions it acts on.                           *)
(*                                                                         *)
(* What is hard here is what the facilitator cannot see: a submission      *)
(* whose answer is lost, a transaction included after polling stopped, a   *)
(* restart that forgets which signers were quarantined.                    *)
(*                                                                         *)
(* A request of the scheduler is one attempt <<c, n>> of a call c: the     *)
(* retry wraps the whole settle(), so each attempt leases afresh.          *)
(***************************************************************************)
EXTENDS SettleScheduler

CONSTANTS
    Calls,           \* the POST /settle requests
    Payments,        \* signed payments; a client may post one several times
    PaymentOf,       \* [Calls -> Payments]
    FacilitatorOf,   \* [Payments -> Signers \cup {None}]: the signer an upto
                     \* authorization names, None for an exact payment
    Retries,         \* LEDGER_SKEW_RETRIES
    MaxRestarts      \* bound on process restarts

ASSUME PathAssumption ==
    /\ PaymentOf \in [Calls -> Payments]
    /\ FacilitatorOf \in [Payments -> Signers \cup {None}]
    /\ Retries \in Nat /\ MaxRestarts \in Nat
    /\ Requests = Calls \X (0..Retries)

VARIABLES
    phase,      \* "new", "settling", "delay" between attempts, or the reply
    attempt,    \* index of the current attempt of each call
    step,       \* how far the operation of the current attempt has got
    loaded,     \* sequence number getAccount returned
    tx,         \* the transaction each attempt submitted
    sequence,   \* sequence number of each signer account on the ledger
    charges,    \* how many times each payment has moved funds
    restarts

pathVars == <<phase, attempt, step, loaded, tx, sequence, charges, restarts>>
allVars == <<vars, pathVars>>

Replies == {"settled", "failed", "uncertain", "busy", "error", "lost"}
Answered(c) == phase[c] \in Replies
Current(c) == <<c, attempt[c]>>
Working(c, at) == phase[c] = "settling" /\ call[Current(c)] = "leased" /\ step[c] = at

(* Of a transaction whose fate is settled only that fate is kept: it       *)
(* "applied", or it is "void" (included and failed, or never included).    *)
Fate(status) == [status |-> status, source |-> None, seq |-> 0, known |-> FALSE]
NoTx == Fate("none")

----------------------------------------------------------------------------
(* The boot sequence has run: setSigners with every configured signer.     *)
PathInit ==
    /\ idle = Signers
    /\ busy = {}
    /\ quarantined = {}
    /\ call = [r \in Requests |-> "absent"]
    /\ lease = [r \in Requests |-> None]
    /\ preferred = [r \in Requests |-> None]
    /\ ticket = [r \in Requests |-> 0]
    /\ totalQueued = 0
    /\ phase = [c \in Calls |-> "new"]
    /\ attempt = [c \in Calls |-> 0]
    /\ step = [c \in Calls |-> "verify"]
    /\ loaded = [c \in Calls |-> 0]
    /\ tx = [r \in Requests |-> NoTx]
    /\ sequence = [s \in Signers |-> 0]
    /\ charges = [p \in Payments |-> 0]
    /\ restarts = 0

----------------------------------------------------------------------------
(* The handler.                                                            *)

(* X402Facilitator.settle: an upto payment prefers the signer its payer    *)
(* authorized, an exact one takes any.  A throw of acquire is a 502.       *)
Attempt(c, n) ==
    /\ Acquire(<<c, n>>, FacilitatorOf[PaymentOf[c]])
    /\ attempt' = [attempt EXCEPT ![c] = n]
    /\ step' = [step EXCEPT ![c] = "verify"]
    /\ phase' = [phase EXCEPT ![c] =
                    IF call'[<<c, n>>] = "refused" THEN "error" ELSE "settling"]
    /\ UNCHANGED <<loaded, tx, sequence, charges, restarts>>

Receive(c) == phase[c] = "new" /\ Attempt(c, 0)

(* SignerBusyError: 503 settlement_capacity_exceeded.                      *)
AnswerBusy(c) ==
    /\ phase[c] = "settling"
    /\ Expire(Current(c))
    /\ phase' = [phase EXCEPT ![c] = "busy"]
    /\ UNCHANGED <<attempt, step, loaded, tx, sequence, charges, restarts>>

(* Mutant of AfterResult: a failure with a hash is tried again.            *)
AfterResultRetryingHash(c, result) ==
    IF result \in {"skew", "uncertain"}
        THEN IF attempt[c] < Retries THEN "delay" ELSE "failed"
        ELSE result

(* settleRetryReason and withLedgerSkewRetry: what follows a result of the *)
(* operation.  Only a failure with the ledger-skew reason and without a    *)
(* hash is tried again, Retries times.                                     *)
AfterResult(c, result) ==
    IF result = "skew"
        THEN IF attempt[c] < Retries THEN "delay" ELSE "failed"
        ELSE result

(* Mutant of Return: settle() passes withSigner no quarantineWhen.         *)
ReturnWithoutQuarantine(c, result) ==
    /\ Release(Current(c), FALSE)
    /\ phase' = [phase EXCEPT ![c] = AfterResult(c, result)]
    /\ step' = [step EXCEPT ![c] = "verify"]
    /\ loaded' = [loaded EXCEPT ![c] = 0]
    /\ UNCHANGED <<attempt, sequence, charges, restarts>>

(* The operation returns: withSigner releases, quarantining a signer whose *)
(* failure carries a hash ("uncertain"), and the handler answers or waits. *)
Return(c, result) ==
    /\ Release(Current(c), result = "uncertain")
    /\ phase' = [phase EXCEPT ![c] = AfterResult(c, result)]
    /\ step' = [step EXCEPT ![c] = "verify"]
    /\ loaded' = [loaded EXCEPT ![c] = 0]
    /\ UNCHANGED <<attempt, sequence, charges, restarts>>

(* The delay between two attempts is over.                                 *)
RetryAfterSkew(c) == phase[c] = "delay" /\ Attempt(c, attempt[c] + 1)

----------------------------------------------------------------------------
(* The operation, UptoStellarScheme.settle; an exact payment goes through  *)
(* the steps of the package the service wraps, seen from its result alone. *)

Advance(c, next) ==
    /\ step' = [step EXCEPT ![c] = next]
    /\ UNCHANGED <<vars, phase, attempt, tx, sequence, charges, restarts>>

(* _verify passes: the replay check read the contract before the charge.   *)
Verify(c) ==
    /\ Working(c, "verify")
    /\ charges[PaymentOf[c]] = 0
    /\ Advance(c, "load")
    /\ UNCHANGED loaded

(* Any failure before submission: verification, amounts, digest,           *)
(* simulation, signing.  The result has no hash.                           *)
FailEarly(c) ==
    /\ Working(c, "verify") \/ Working(c, "load") \/ Working(c, "send")
    /\ Return(c, "failed")
    /\ UNCHANGED tx

(* invalid_exact_stellar_signature_expiration_too_far, a verification      *)
(* failure of the exact scheme alone.                                      *)
FailForSkew(c) ==
    /\ Working(c, "verify")
    /\ FacilitatorOf[PaymentOf[c]] = None
    /\ Return(c, "skew")
    /\ UNCHANGED tx

(* getAccount.                                                             *)
LoadSequence(c) ==
    /\ Working(c, "load")
    /\ loaded' = [loaded EXCEPT ![c] = sequence[lease[Current(c)]]]
    /\ Advance(c, "send")

(* sendTransaction: the network takes the transaction or does not, and the *)
(* facilitator learns its hash or does not.                                *)
Submit(c, status, known) ==
    tx' = [tx EXCEPT ![Current(c)] =
              IF status = "pending"
                  THEN [status |-> status, source |-> lease[Current(c)],
                        seq |-> loaded[c] + 1, known |-> known]
                  ELSE Fate(status)]

(* Answer PENDING.                                                         *)
SendPending(c) ==
    /\ Working(c, "send")
    /\ Submit(c, "pending", TRUE)
    /\ step' = [step EXCEPT ![c] = "poll"]
    /\ loaded' = [loaded EXCEPT ![c] = 0]
    /\ UNCHANGED <<vars, phase, attempt, sequence, charges, restarts>>

(* Answer DUPLICATE (the network has it), ERROR or TRY_AGAIN_LATER (it has *)
(* not): a failure with the hash.                                          *)
SendRefused(c) ==
    /\ Working(c, "send")
    /\ \E status \in {"pending", "void"} : Submit(c, status, TRUE)
    /\ Return(c, "uncertain")

(* sendTransaction throws: the provider timed out and no provider answers  *)
(* the coordinator's reconciliation (rpc-coordinator.ts).  txHash is still *)
(* unassigned in the catch block, so the failure carries no hash.          *)
SendLost(c) ==
    /\ Working(c, "send")
    /\ \E status \in {"pending", "void"} : Submit(c, status, FALSE)
    /\ Return(c, "failed")

(* Mutant of PollSuccess: any status but FAILED counts as success.         *)
PollSuccessUnlessFailed(c) ==
    /\ Working(c, "poll")
    /\ tx[Current(c)].status # "void"
    /\ Return(c, "settled")
    /\ UNCHANGED tx

(* pollForTransaction sees SUCCESS.                                        *)
PollSuccess(c) ==
    /\ Working(c, "poll")
    /\ tx[Current(c)].status = "applied"
    /\ Return(c, "settled")
    /\ UNCHANGED tx

(* pollForTransaction sees FAILED, or runs out of attempts on a            *)
(* transaction that is pending, void or not visible yet.                   *)
PollFailure(c) ==
    /\ Working(c, "poll")
    /\ Return(c, "uncertain")
    /\ UNCHANGED tx

----------------------------------------------------------------------------
(* The ledger: an account's transactions are included in the order of its  *)
(* sequence numbers, and a payment's authorization is good for one charge  *)
(* (the replay guard of the upto contract, the nonce of an exact one).     *)
Include(r) ==
    LET s == tx[r].source
        p == PaymentOf[r[1]]
    IN  /\ tx[r].status = "pending"
        /\ tx[r].seq = sequence[s] + 1
        /\ sequence' = [sequence EXCEPT ![s] = @ + 1]
        /\ \/ /\ charges[p] = 0
              /\ charges' = [charges EXCEPT ![p] = @ + 1]
              /\ tx' = [tx EXCEPT ![r] = Fate("applied")]
           \/ /\ UNCHANGED charges
              /\ tx' = [tx EXCEPT ![r] = Fate("void")]
        /\ UNCHANGED <<vars, phase, attempt, step, loaded, restarts>>

(* Its time bound passes, or its sequence number is used up.               *)
Drop(r) ==
    /\ tx[r].status = "pending"
    /\ tx' = [tx EXCEPT ![r] = Fate("void")]
    /\ UNCHANGED <<vars, phase, attempt, step, loaded, sequence, charges, restarts>>

(* POST /internal/channels/:address/recover, which the operator calls      *)
(* after reconciling the transactions the service reported.                *)
Recover(s) ==
    /\ \A r \in Requests :
        tx[r].source = s /\ tx[r].known => tx[r].status # "pending"
    /\ RecoverSigner(s)
    /\ UNCHANGED pathVars

(* The process dies and boots again: lease, queue and quarantine state     *)
(* were in memory, and every open request loses its connection.            *)
Restart ==
    /\ restarts < MaxRestarts
    /\ restarts' = restarts + 1
    /\ idle' = Pool
    /\ busy' = {}
    /\ quarantined' = {}
    /\ lease' = [r \in Requests |-> None]
    /\ call' = [r \in Requests |->
                   IF call[r] \in {"waiting", "leased"} THEN "done" ELSE call[r]]
    /\ phase' = [c \in Calls |->
                   IF phase[c] \in {"settling", "delay"} THEN "lost" ELSE phase[c]]
    /\ tx' = [r \in Requests |-> [tx[r] EXCEPT !.known = FALSE]]
    /\ step' = [c \in Calls |-> "verify"]
    /\ loaded' = [c \in Calls |-> 0]
    /\ UNCHANGED <<queueVars, attempt, sequence, charges>>

----------------------------------------------------------------------------
(* Everything the service does on its own for a call it has received.      *)
Progress(c) ==
    \/ AnswerBusy(c)
    \/ RetryAfterSkew(c)
    \/ Verify(c) \/ FailEarly(c) \/ FailForSkew(c)
    \/ LoadSequence(c)
    \/ SendPending(c) \/ SendRefused(c) \/ SendLost(c)
    \/ PollSuccess(c) \/ PollFailure(c)

PathNext ==
    \/ \E c \in Calls : Receive(c) \/ Progress(c)
    \/ \E r \in Requests : Include(r) \/ Drop(r)
    \/ \E s \in Signers : Recover(s)
    \/ Restart

(* The queue timer, the retry timer and the bounded number of polls keep   *)
(* every received call moving; nothing is assumed of the network.          *)
PathSpec ==
    /\ PathInit /\ [][PathNext]_allVars
    /\ \A c \in Calls : WF_allVars(Progress(c))

----------------------------------------------------------------------------
(* Every variable keeps its type.                                          *)
PathTypeOK ==
    /\ TypeOK
    /\ phase \in [Calls -> {"new", "settling", "delay"} \cup Replies]
    /\ attempt \in [Calls -> 0..Retries]
    /\ step \in [Calls -> {"verify", "load", "send", "poll"}]
    /\ loaded \in [Calls -> Nat]
    /\ tx \in [Requests ->
                  [status : {"none", "pending", "applied", "void"},
                   source : MaybeSigner, seq : Nat, known : BOOLEAN]]
    /\ sequence \in [Signers -> Nat]
    /\ charges \in [Payments -> Nat]
    /\ restarts \in 0..MaxRestarts

(* A settled answer (with its receipt) is only given for a payment that    *)
(* this very call's transaction charged.                                   *)
SettledMeansCharged ==
    \A c \in Calls : phase[c] = "settled" =>
        tx[Current(c)].status = "applied" /\ charges[PaymentOf[c]] = 1

(* SignerBusyError says "Nothing was submitted and no funds moved", also   *)
(* when an earlier attempt of the same call had a signer.                  *)
BusyMeansNothingSubmitted ==
    \A c \in Calls : phase[c] = "busy" =>
        \A n \in 0..Retries : tx[<<c, n>>].status = "none"

(* A call never submits twice: the retry is taken only where no attempt    *)
(* can have reached the network (retry.ts, ADR-008).                       *)
OneTransactionPerCall ==
    \A c \in Calls : \A n, m \in 0..Retries :
        tx[<<c, n>>].status # "none" /\ tx[<<c, m>>].status # "none" => n = m

(* What quarantine is for: while a transaction the service knows of is     *)
(* unresolved, its signer is leased to the call that sent it or held back. *)
UnresolvedHoldsSigner ==
    \A r \in Requests : tx[r].status = "pending" /\ tx[r].known =>
        lease[r] = tx[r].source \/ tx[r].source \in quarantined

(* Every call that was received is answered.                               *)
EveryCallAnswered == \A c \in Calls : phase[c] # "new" ~> Answered(c)

(* settle-scheduler.ts: "no signer is ever leased twice at once, so two    *)
(* transactions never share a sequence number".  Two transactions that the *)
(* network may still include never have the same source and number.        *)
NoSharedSequence ==
    \A r1, r2 \in Requests :
        /\ r1 # r2
        /\ tx[r1].status = "pending" /\ tx[r2].status = "pending"
        /\ tx[r1].source = tx[r2].source
        => tx[r1].seq # tx[r2].seq
=============================================================================
