-------------------------- MODULE FacilitatorFront --------------------------
(***************************************************************************)
(* What a request meets between the socket and the payment schemes         *)
(* (facilitator-service/src/server.ts, rate-limit.ts, validation.ts,       *)
(* retry.ts, reasons.ts): the body limit, the rate limiter, validation of  *)
(* the envelope, the attempts of /verify and /settle while RPC nodes       *)
(* disagree about the ledger, and the answer with its reason, its receipt  *)
(* and its counters.                                                       *)
(*                                                                         *)
(* What an attempt does to the signers and the network is SettlePath; here *)
(* an attempt only has a result.  Time is a clock that may advance at any  *)
(* point; an attempt and a pause may take longer than they should.         *)
(***************************************************************************)
EXTENDS Integers, Sequences, FiniteSets, FiniteSetsExt

CONSTANTS
    Peers,          \* addresses that callers connect from
    Proxy,          \* the reverse proxy's own address
    Workloads,      \* what the requests may be: functions from calls to Asks
    WindowLength, MaxPerWindow,    \* rateLimit.windowMs, rateLimit.max
    Retries, Delay,                \* ledgerSkew
    CloseTime,      \* a ledger closes at least this often
    MaxLag,         \* how far an RPC node may be behind the network
    Tolerance,      \* how far ahead the schemes let a client's node be
    MaxTime         \* bound on the clock

Shapes == {"sound", "malformed", "tooLarge"}
Asks ==
    [endpoint : {"read", "verify", "settle"},   \* read: /health, /stats, /supported...
     peer : Peers,
     claimed : Seq(Peers),    \* X-Forwarded-For as the caller sent it
     shape : Shapes,
     payment : {"good", "bad", "unknownScheme"}]

ASSUME FrontAssumption ==
    /\ \A asks \in Workloads : asks \in [DOMAIN asks -> Asks]
    /\ {WindowLength, MaxPerWindow, CloseTime} \subseteq Nat \ {0}
    /\ {Retries, Delay, MaxLag, Tolerance, MaxTime} \subseteq Nat

VARIABLES
    now,
    asked,        \* the requests: an element of Workloads
    trusted,      \* TRUSTED_PROXY_COUNT, the number of proxies there are
    windows,      \* the limiter's Map: key -> [count, resetAt], or NoWindow
    call,         \* the handler of each call
    stats,        \* this.stats and the settlement failures of /metrics
    admitted,     \* history: when each call passed the limiter
    refused       \* history: when each call got a 429

frontVars == <<now, asked, trusted, windows, call, stats, admitted, refused>>

Calls == DOMAIN asked
Keys == Peers \cup {Proxy}
NoWindow == [count |-> 0, resetAt |-> 0]
Never == -1

Idle == [stage |-> "new", attempts |-> 0, signed |-> 0, wakes |-> 0,
         status |-> 0, reason |-> "", code |-> "", receipt |-> FALSE]

NoStats == [verifications |-> 0, verified |-> 0, settlements |-> 0, settled |-> 0,
            failures |-> 0, retries |-> 0, recoveries |-> 0]

FrontInit ==
    /\ now = 0
    /\ asked \in Workloads
    /\ trusted \in {0, 1}
    /\ windows = [k \in Keys |-> NoWindow]
    /\ call = [c \in Calls |-> Idle]
    /\ stats = NoStats
    /\ admitted = [c \in Calls |-> Never]
    /\ refused = [c \in Calls |-> Never]

----------------------------------------------------------------------------
(* The ledger: closed regularly, seen by each node with a delay.           *)
Latest == now \div CloseTime
Heights == Latest - MaxLag .. Latest

(* The rate limiter's key.  The proxy in front appends the peer it sees to *)
(* the header it was sent.                                                 *)
Header(c) == IF trusted = 0 THEN asked[c].claimed ELSE Append(asked[c].claimed, asked[c].peer)
Socket(c) == IF trusted = 0 THEN asked[c].peer ELSE Proxy

(* Mutant of ClientIp: the first address of the header is the client.      *)
LeftmostIp(c) == IF trusted > 0 /\ Header(c) # <<>> THEN Header(c)[1] ELSE Socket(c)

ClientIp(c) ==
    IF trusted > 0 /\ Header(c) # <<>>
    THEN Header(c)[Max({0, Len(Header(c)) - trusted}) + 1]
    ELSE Socket(c)

Live(k) == windows[k].resetAt > now
Counted(k) ==
    IF Live(k) THEN [windows[k] EXCEPT !.count = @ + 1]
    ELSE [count |-> 1, resetAt |-> now + WindowLength]

----------------------------------------------------------------------------
(* Reasons and answers.                                                    *)

(* classifyError, over the kinds of error that are thrown.                 *)
ClassifyError ==
    [noScheme |-> "unsupported_scheme_or_network",
     rpc |-> "upstream_rpc_unavailable",
     other |-> "facilitator_internal_error",
     busy |-> "settlement_capacity_exceeded"]

(* A scheme may reject without a reason; withVerifyReason and              *)
(* withSettleReason name one.                                              *)
Named(reason) == IF reason = "" THEN "facilitator_internal_error" ELSE reason

(* classifyPublicReason.                                                   *)
PublicReason(reason) ==
    CASE reason = "invalid_request_body" -> "invalid_request"
      [] reason \in {"upstream_rpc_unavailable", "replay_check_failed"} -> "rpc_unavailable"
      [] reason = "settlement_capacity_exceeded" -> "resource_unavailable"
      [] reason = "facilitator_internal_error" -> "internal_error"
      [] reason \in {"unsupported_scheme", "unsupported_scheme_or_network"} ->
             "unsupported_payment_scheme"
      [] OTHER -> "payment_rejected"

Answered(c, status, reason, code, receipt) ==
    call' = [call EXCEPT ![c] =
                [@ EXCEPT !.stage = "answered", !.status = status, !.reason = reason,
                          !.code = code, !.receipt = receipt]]

Once(counter) == [NoStats EXCEPT ![counter] = 1]

(* recordSkew: only for a call that took more than one attempt.            *)
Skew(c, succeeded) ==
    [NoStats EXCEPT !.retries = call[c].attempts - 1,
                    !.recoveries = IF succeeded /\ call[c].attempts > 1 THEN 1 ELSE 0]

Count(told, skew) == stats' = [f \in DOMAIN stats |-> stats[f] + told[f] + skew[f]]

----------------------------------------------------------------------------
(* The middleware.                                                         *)

(* bodyLimit runs first: what it refuses, the limiter never counts.        *)
TooLarge(c) ==
    /\ call[c].stage = "new" /\ asked[c].shape = "tooLarge"
    /\ Answered(c, 413, "payload_too_large", "", FALSE)
    /\ UNCHANGED <<now, asked, trusted, windows, stats, admitted, refused>>

RateLimited(c) ==
    LET k == ClientIp(c) IN
    /\ call[c].stage = "new" /\ asked[c].shape # "tooLarge"
    /\ Counted(k).count > MaxPerWindow
    /\ windows' = [windows EXCEPT ![k] = Counted(k)]
    /\ refused' = [refused EXCEPT ![c] = now]
    /\ Answered(c, 429, "rate_limited", "", FALSE)
    /\ UNCHANGED <<now, asked, trusted, stats, admitted>>

(* The limiter lets the request pass. `signed` is the ledger the client's  *)
(* node was at when the client signed.                                     *)
Admitted(c) ==
    LET k == ClientIp(c) IN
    /\ call[c].stage = "new" /\ asked[c].shape # "tooLarge"
    /\ Counted(k).count <= MaxPerWindow
    /\ windows' = [windows EXCEPT ![k] = Counted(k)]
    /\ admitted' = [admitted EXCEPT ![c] = now]
    /\ UNCHANGED <<now, asked, trusted, refused>>

(* The endpoints that only read; /ready may have to say 503.               *)
ReadAnswered(c) ==
    /\ Admitted(c) /\ asked[c].endpoint = "read"
    /\ \E status \in {200, 503} : Answered(c, status, "", "", FALSE)
    /\ UNCHANGED stats

(* validateFacilitatorRequest names a field that is wrong.                 *)
Malformed(c) ==
    /\ Admitted(c) /\ asked[c].endpoint # "read" /\ asked[c].shape = "malformed"
    /\ Answered(c, 400, "invalid_request_body", PublicReason("invalid_request_body"), FALSE)
    /\ UNCHANGED stats

Accepted(c) ==
    /\ Admitted(c) /\ asked[c].endpoint # "read" /\ asked[c].shape = "sound"
    /\ \E height \in Heights :
        call' = [call EXCEPT ![c].stage = "attempting", ![c].attempts = 1,
                             ![c].signed = height]
    /\ Count(Once(IF asked[c].endpoint = "verify" THEN "verifications" ELSE "settlements"),
             NoStats)

(* The periodic sweep of expired windows.                                  *)
Sweep ==
    /\ windows' = [k \in Keys |-> IF windows[k].resetAt <= now THEN NoWindow ELSE windows[k]]
    /\ UNCHANGED <<now, asked, trusted, call, stats, admitted, refused>>

----------------------------------------------------------------------------
(* The attempts of a handler.                                              *)

Attempting(c, endpoint) ==
    /\ call[c].stage = "attempting"
    /\ asked[c].endpoint = endpoint
    /\ UNCHANGED <<now, asked, trusted, windows, admitted, refused>>

(* The scheme rejects: the node it asks is too far behind the client's.    *)
RejectedForSkew(c) ==
    /\ asked[c].payment = "good"
    /\ \E seen \in Heights : call[c].signed > seen + Tolerance

(* Mutant of Pause: the attempts are bunched.                              *)
PauseBriefly(c) ==
    /\ RejectedForSkew(c)
    /\ call[c].attempts <= Retries
    /\ call' = [call EXCEPT ![c].stage = "pausing", ![c].wakes = now + 1]
    /\ UNCHANGED stats

(* withLedgerSkewRetry: try again, after a ledger has closed.              *)
Pause(c) ==
    /\ RejectedForSkew(c)
    /\ call[c].attempts <= Retries
    /\ call' = [call EXCEPT ![c].stage = "pausing", ![c].wakes = now + Delay]
    /\ UNCHANGED stats

Again(c) ==
    /\ call[c].stage = "pausing" /\ now >= call[c].wakes
    /\ call' = [call EXCEPT ![c].stage = "attempting", ![c].attempts = @ + 1]
    /\ UNCHANGED <<now, asked, trusted, windows, stats, admitted, refused>>

(* What the schemes may say of a payment they reject.                      *)
Rejections(c) ==
    CASE asked[c].payment = "unknownScheme" -> {"unsupported_scheme"}
      [] asked[c].payment = "bad" -> {"", "wrong_amount"}
      [] OTHER ->
            {"replay_check_failed"} \cup
            IF RejectedForSkew(c) /\ call[c].attempts > Retries
            THEN {"expiration_too_far"} ELSE {}

SchemeAccepts(c) ==
    /\ asked[c].payment = "good"
    /\ \E seen \in Heights : call[c].signed <= seen + Tolerance

(* POST /verify: a rejection is an answer like any other.                  *)
VerifyPauses(c) == Attempting(c, "verify") /\ Pause(c)

VerifyValid(c) ==
    /\ Attempting(c, "verify")
    /\ SchemeAccepts(c)
    /\ Answered(c, 200, "", "", FALSE)
    /\ Count(Once("verified"), Skew(c, TRUE))

VerifyInvalid(c) ==
    /\ Attempting(c, "verify")
    /\ \E reason \in Rejections(c) :
        Answered(c, 200, Named(reason), PublicReason(Named(reason)), FALSE)
    /\ Count(NoStats, Skew(c, FALSE))

(* A thrown attempt ends the retries, and is no skew statistic.            *)
VerifyThrows(c) ==
    /\ Attempting(c, "verify")
    /\ \E error \in {"noScheme", "rpc", "other"} :
        Answered(c, IF error = "noScheme" THEN 200 ELSE 502, ClassifyError[error], "", FALSE)
    /\ UNCHANGED stats

(* POST /settle: a failure that carries a hash is never tried again.       *)
SettlePauses(c) == Attempting(c, "settle") /\ Pause(c)

(* issueReceipt: none for a settlement that names no payer; one that       *)
(* cannot be signed is only logged.                                        *)
IssueReceipt(payerNamed) == IF payerNamed THEN BOOLEAN ELSE {FALSE}

(* Mutant of SettleSucceeds: the retry that worked is not recorded.        *)
SettledUncounted(c) ==
    /\ Attempting(c, "settle")
    /\ SchemeAccepts(c)
    /\ \E receipt \in BOOLEAN : Answered(c, 200, "", "", receipt)
    /\ Count(Once("settled"), NoStats)

SettleSucceeds(c) ==
    /\ Attempting(c, "settle")
    /\ SchemeAccepts(c)
    /\ \E payerNamed \in BOOLEAN : \E receipt \in IssueReceipt(payerNamed) :
        Answered(c, 200, "", "", receipt)
    /\ Count(Once("settled"), Skew(c, TRUE))

SettleFails(c) ==
    /\ Attempting(c, "settle")
    /\ \E reason \in Rejections(c) \cup {"settle_failed"} :
        Answered(c, 200, Named(reason), PublicReason(Named(reason)), FALSE)
    /\ Count(Once("failures"), Skew(c, FALSE))

SettleThrows(c) ==
    /\ Attempting(c, "settle")
    /\ \E error \in {"rpc", "other", "busy"} :
        Answered(c, IF error = "busy" THEN 503 ELSE 502, ClassifyError[error], "", FALSE)
    /\ Count(Once("failures"), NoStats)

Tick ==
    /\ now < MaxTime
    /\ now' = now + 1
    /\ UNCHANGED <<asked, trusted, windows, call, stats, admitted, refused>>

----------------------------------------------------------------------------
Handle(c) ==
    \/ TooLarge(c) \/ RateLimited(c)
    \/ ReadAnswered(c) \/ Malformed(c) \/ Accepted(c)
    \/ VerifyPauses(c) \/ VerifyValid(c) \/ VerifyInvalid(c) \/ VerifyThrows(c)
    \/ SettlePauses(c) \/ SettleSucceeds(c) \/ SettleFails(c) \/ SettleThrows(c)
    \/ Again(c)

FrontNext == Sweep \/ Tick \/ \E c \in Calls : Handle(c)

FrontSpec == FrontInit /\ [][FrontNext]_frontVars

----------------------------------------------------------------------------
(* A payment the schemes accept is not lost to RPC nodes that disagree:    *)
(* when a pause outlasts a ledger close (retry.ts: "The delay must outlast *)
(* a ledger close"), and no node is further behind than the retries can    *)
(* outlast, no final answer is the skew rejection.                         *)
SkewIsOutlasted ==
    CloseTime <= Delay /\ MaxLag <= Tolerance + Retries =>
        \A c \in Calls : call[c].reason # "expiration_too_far"

\* The calls of a peer in the window that begins at from.
During(p, history, from) ==
    {c \in Calls : /\ asked[c].peer = p /\ history[c] # Never
                   /\ history[c] \in from .. from + WindowLength - 1}

(* The limit is each caller's own, whatever it writes into                 *)
(* X-Forwarded-For and whether or not there is a proxy: in no interval as  *)
(* long as a window does one peer get in more than 2 * max - 1 times, and  *)
(* a peer that is refused has itself made max calls in the last window.    *)
LimitIsPerClient ==
    \A p \in Peers :
        /\ \A from \in 0 .. now :
            Cardinality(During(p, admitted, from)) <= 2 * MaxPerWindow - 1
        /\ \A c \in Calls : asked[c].peer = p /\ refused[c] # Never =>
            Cardinality(During(p, admitted, refused[c] - WindowLength + 1)) >= MaxPerWindow

\* The calls that were answered with success (good), or without.
Told(endpoint, good) ==
    {c \in Calls : /\ asked[c].endpoint = endpoint /\ call[c].attempts > 0
                   /\ call[c].stage = "answered"
                   /\ good = (call[c].reason = "")}

(* The counters agree with what callers were told, also after a retry and  *)
(* after a throw: what is neither successful nor failed is still running,  *)
(* and a recovery is a success that took more than one attempt.            *)
CountersBalance ==
    LET open(endpoint) == {c \in Calls : asked[c].endpoint = endpoint
                                         /\ call[c].stage \in {"attempting", "pausing"}}
        good == Told("verify", TRUE) \cup Told("settle", TRUE)
    IN
    /\ stats.verified = Cardinality(Told("verify", TRUE))
    /\ stats.settled = Cardinality(Told("settle", TRUE))
    /\ stats.settlements = stats.settled + stats.failures + Cardinality(open("settle"))
    /\ stats.verifications =
         stats.verified + Cardinality(Told("verify", FALSE)) + Cardinality(open("verify"))
    /\ stats.recoveries = Cardinality({c \in good : call[c].attempts > 1})
=============================================================================
