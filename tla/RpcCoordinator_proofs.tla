------------------------ MODULE RpcCoordinator_proofs ------------------------
(***************************************************************************)
(* The coordinator's promises for any number of providers and of           *)
(* concurrent requests.                                                    *)
(*                                                                         *)
(* The inductive invariant says of each request what its stage implies:    *)
(* nothing is posted before "sent", an answer ends it, a steady provider   *)
(* is still to be called or has been heard, and what a truthful provider   *)
(* reported as final is the ledger's decision, which never changes.        *)
(***************************************************************************)
EXTENDS RpcCoordinator, TLAPS

(* Nothing is posted while a request still looks for a provider, and an    *)
(* answer is the end of it.                                                *)
StageOK(r) ==
    /\ posted[r] # {} => stage[r] \in {"sent", "reconcile", "done"}
    /\ answer[r] # "none" => stage[r] = "done"

(* The report of a truthful provider is the ledger's decision.             *)
HeardOK(r) ==
    \A pair \in statuses[r] :
        pair[1] \notin Faulty /\ pair[2] \in Final => pair[2] = fate[HashOf[r]]

(* A final answer is the only final status heard.                          *)
AnswerOK(r) == answer[r] \in Final => Finals(statuses[r]) = {answer[r]}

(* No loop loses a steady provider.                                        *)
LoopOK(r) ==
    /\ stage[r] \in {"probe", "read"} => Steady[r] \subseteq todo[r]
    /\ stage[r] = "reconcile" =>
        \A p \in Steady[r] :
            p \in todo[r] \/ \E pair \in statuses[r] : pair[1] = p
    /\ Steady[r] # {} => answer[r] \notin {"unavailable", "unreconciled"}

SentOK(r) ==
    /\ \A p, q \in posted[r] : p = q
    /\ answer[r] = "unavailable" => posted[r] = {}

RequestOK(r) == StageOK(r) /\ HeardOK(r) /\ AnswerOK(r) /\ LoopOK(r) /\ SentOK(r)

IInv == TypeOK /\ \A r \in RpcRequests : RequestOK(r)

USE CoordinatorAssumption

----------------------------------------------------------------------------
(* What reconcile() concludes from the reports it heard.                   *)
LEMMA VerdictIs ==
    ASSUME NEW pairs
    PROVE  /\ Verdict(pairs) \in {"disagree", "NOT_FOUND", "unreconciled"} \cup Final
           /\ Verdict(pairs) = "unreconciled" => pairs = {}
           /\ Verdict(pairs) \in Final => Finals(pairs) = {Verdict(pairs)}
<1>1. Finals(pairs) \in {{}, {"SUCCESS"}, {"FAILED"}, Final}
  BY DEF Finals, Final
<1>2. /\ Final # {"SUCCESS"} /\ Final # {"FAILED"} /\ Final # {}
      /\ {"SUCCESS"} # {"FAILED"}
  BY DEF Final
<1>3. CASE Finals(pairs) = Final
  <2>1. Verdict(pairs) = "disagree"
    BY <1>2, <1>3 DEF Verdict, Finals, Final
  <2> QED
    BY <2>1 DEF Final
<1>4. CASE Finals(pairs) = {"SUCCESS"}
  <2>1. pairs # {}
    BY <1>4 DEF Finals
  <2>2. Verdict(pairs) = "SUCCESS"
    BY <1>2, <1>4, <2>1 DEF Verdict
  <2> QED
    BY <2>2, <1>4 DEF Final
<1>5. CASE Finals(pairs) = {"FAILED"}
  <2>1. pairs # {}
    BY <1>5 DEF Finals
  <2>2. Verdict(pairs) = "FAILED"
    BY <1>2, <1>5, <2>1 DEF Verdict
  <2> QED
    BY <2>2, <1>5 DEF Final
<1>6. CASE Finals(pairs) = {}
  <2>1. Verdict(pairs) = IF pairs = {} THEN "unreconciled" ELSE "NOT_FOUND"
    BY <1>2, <1>6 DEF Verdict
  <2> QED
    BY <2>1 DEF Final
<1> QED
  BY <1>1, <1>3, <1>4, <1>5, <1>6

LEMMA OutcomeIs ==
    ASSUME NEW r \in RpcRequests, NEW pairs
    PROVE  LET a == Outcome(r, Verdict(pairs)) IN
           /\ a \in {"disagree", "NOT_FOUND", "unreconciled", "PENDING", "uncertain"} \cup Final
           /\ a = "unreconciled" => pairs = {}
           /\ a \in Final => Finals(pairs) = {a}
BY VerdictIs DEF Outcome, Final

----------------------------------------------------------------------------
(* A request is untouched by the steps of the others.                      *)
LEMMA OthersKeep ==
    ASSUME IInv, NEW r \in RpcRequests,
           stage'[r] = stage[r], todo'[r] = todo[r], posted'[r] = posted[r],
           statuses'[r] = statuses[r], answer'[r] = answer[r],
           fate' = fate
    PROVE  RequestOK(r)'
BY DEF IInv, RequestOK, StageOK, HeardOK, AnswerOK, LoopOK, SentOK, Finals

(* The last call of a loop answers, an earlier one shortens it.            *)
LEMMA ContinueIs ==
    ASSUME TypeOK, NEW r \in RpcRequests, NEW p \in todo[r], NEW a \in RpcAnswers,
           Continue(r, p, a)
    PROVE  /\ \A q \in RpcRequests : q # r =>
                /\ stage'[q] = stage[q] /\ todo'[q] = todo[q] /\ answer'[q] = answer[q]
           /\ \/ todo[r] = {p} /\ stage'[r] = "done" /\ answer'[r] = a
              \/ /\ todo'[r] = todo[r] \ {p}
                 /\ stage'[r] = stage[r] /\ answer'[r] = answer[r]
           /\ stage' \in [RpcRequests -> {"new", "probe", "sent", "reconcile", "read", "done"}]
           /\ todo' \in [RpcRequests -> SUBSET Providers]
           /\ order' \in [RpcRequests -> SUBSET Providers]
           /\ answer' \in [RpcRequests -> RpcAnswers]
<1>1. CASE todo[r] = {p} /\ Answer(r, a)
  BY <1>1 DEF TypeOK, Answer, Leave
<1>2. CASE /\ todo' = [todo EXCEPT ![r] = @ \ {p}]
           /\ UNCHANGED <<stage, order, answer>>
  BY <1>2 DEF TypeOK
<1> QED
  BY <1>1, <1>2 DEF Continue

LEMMA InitEstablishes == Init => IInv
BY DEF Init, IInv, TypeOK, RequestOK, StageOK, HeardOK, AnswerOK, LoopOK, SentOK,
       RpcAnswers, Statuses, Final

LEMMA StepKeeps == IInv /\ [Next]_vars => IInv'
<1> SUFFICES ASSUME IInv, [Next]_vars PROVE IInv'
  OBVIOUS
<1>0. TypeOK /\ \A r \in RpcRequests : RequestOK(r)
  BY DEF IInv
<1> USE DEF IInv
<1>1. ASSUME NEW r \in RpcRequests, Receive(r) PROVE IInv'
  <2>1. /\ stage[r] = "new" /\ todo'[r] = Providers
        /\ stage'[r] \in {"probe", "reconcile", "read"}
        /\ \A q \in RpcRequests : q # r => stage'[q] = stage[q] /\ todo'[q] = todo[q]
        /\ UNCHANGED <<healthy, posted, statuses, answer, fate>>
    BY <1>0, <1>1 DEF Receive, Loop, TypeOK
  <2>2. TypeOK'
    BY <1>0, <1>1, <2>1 DEF Receive, Loop, TypeOK
  <2>3. RequestOK(r)'
    BY <1>0, <2>1 DEF RequestOK, StageOK, HeardOK, AnswerOK, LoopOK, SentOK, Finals, TypeOK
  <2> QED
    BY <2>1, <2>2, <2>3, OthersKeep
<1>2. ASSUME NEW r \in RpcRequests, NEW a \in {"invalid", "forwarded", "PENDING", "ERROR"},
             stage[r] # "done", Answer(r, a), healthy' \subseteq Providers,
             UNCHANGED <<posted, statuses, fate>>
      PROVE  IInv'
  <2>1. /\ stage'[r] = "done" /\ answer'[r] = a /\ todo'[r] = {}
        /\ \A q \in RpcRequests : q # r =>
            stage'[q] = stage[q] /\ todo'[q] = todo[q] /\ answer'[q] = answer[q]
    BY <1>0, <1>2 DEF Answer, Leave, TypeOK
  <2>2. TypeOK'
    BY <1>0, <1>2 DEF Answer, Leave, TypeOK, RpcAnswers
  <2>3. RequestOK(r)'
    BY <1>0, <1>2, <2>1 DEF RequestOK, StageOK, HeardOK, AnswerOK, LoopOK, SentOK, Final
  <2> QED
    BY <1>2, <2>1, <2>2, <2>3, OthersKeep
<1>3. ASSUME NEW r \in RpcRequests, Reject(r) PROVE IInv'
  BY <1>0, <1>2, <1>3 DEF Reject, TypeOK
<1>4. ASSUME NEW r \in RpcRequests, NEW p \in Providers, ReadForwarded(r, p) PROVE IInv'
  BY <1>0, <1>2, <1>4 DEF ReadForwarded, AtProvider, CallAnswers, TypeOK
<1>5. ASSUME NEW r \in RpcRequests, NEW p \in Providers, SubmitAnswered(r, p) PROVE IInv'
  BY <1>0, <1>2, <1>5 DEF SubmitAnswered, CallAnswers, TypeOK
<1>6. ASSUME NEW r \in RpcRequests, NEW p \in Providers, ReadFails(r, p) \/ ProbeFails(r, p)
      PROVE  IInv'
  <2>1. /\ stage[r] \in {"read", "probe"} /\ p \in todo[r] /\ p \notin Steady[r]
        /\ Continue(r, p, "unavailable") /\ healthy' \subseteq Providers
        /\ UNCHANGED <<posted, statuses, fate>>
    BY <1>0, <1>6 DEF ReadFails, ProbeFails, AtProvider, CallFails, CallAnswers, TypeOK
  <2>2. "unavailable" \in RpcAnswers
    BY DEF RpcAnswers
  <2>3. TypeOK'
    BY <1>0, <2>1, <2>2, ContinueIs DEF TypeOK
  <2>4. Steady[r] \subseteq todo[r]
    BY <1>0, <2>1 DEF RequestOK, LoopOK
  <2>5. /\ posted[r] = {} /\ answer[r] = "none"
    BY <1>0, <2>1 DEF RequestOK, StageOK
  <2>6. RequestOK(r)'
    <3>1. CASE todo[r] = {p} /\ stage'[r] = "done" /\ answer'[r] = "unavailable"
      BY <1>0, <2>1, <2>4, <2>5, <3>1
      DEF RequestOK, StageOK, HeardOK, AnswerOK, LoopOK, SentOK, Final
    <3>2. CASE todo'[r] = todo[r] \ {p} /\ stage'[r] = stage[r] /\ answer'[r] = answer[r]
      BY <1>0, <2>1, <2>4, <2>5, <3>2
      DEF RequestOK, StageOK, HeardOK, AnswerOK, LoopOK, SentOK, Final
    <3> QED
      BY <1>0, <2>1, <2>2, <3>1, <3>2, ContinueIs
  <2> QED
    BY <1>0, <2>1, <2>2, <2>3, <2>6, ContinueIs, OthersKeep
<1>7. ASSUME NEW r \in RpcRequests, NEW p \in Providers, ProbeAndPost(r, p) PROVE IInv'
  <2>1. /\ stage[r] = "probe" /\ stage'[r] = "sent" /\ todo'[r] = {}
        /\ posted'[r] = posted[r] \cup {p}
        /\ \A q \in RpcRequests : q # r =>
            stage'[q] = stage[q] /\ todo'[q] = todo[q] /\ posted'[q] = posted[q]
        /\ UNCHANGED <<statuses, answer, fate>>
    BY <1>0, <1>7 DEF ProbeAndPost, AtProvider, Leave, TypeOK
  <2>2. TypeOK'
    BY <1>0, <1>7 DEF ProbeAndPost, CallAnswers, Leave, TypeOK
  <2>3. posted[r] = {} /\ answer[r] = "none"
    BY <1>0, <2>1 DEF RequestOK, StageOK
  <2>4. RequestOK(r)'
    BY <1>0, <2>1, <2>3 DEF RequestOK, StageOK, HeardOK, AnswerOK, LoopOK, SentOK, Final
  <2> QED
    BY <2>1, <2>2, <2>4, OthersKeep
<1>8. ASSUME NEW r \in RpcRequests, NEW p \in Providers, SubmitFails(r, p) PROVE IInv'
  <2>1. /\ stage[r] = "sent" /\ stage'[r] = "reconcile" /\ todo'[r] = Providers
        /\ \A q \in RpcRequests : q # r => stage'[q] = stage[q] /\ todo'[q] = todo[q]
        /\ healthy' \subseteq Providers
        /\ UNCHANGED <<posted, statuses, answer, fate>>
    BY <1>0, <1>8 DEF SubmitFails, CallFails, Loop, TypeOK
  <2>2. TypeOK'
    BY <1>0, <1>8, <2>1 DEF SubmitFails, Loop, TypeOK
  <2>3. RequestOK(r)'
    BY <1>0, <2>1 DEF RequestOK, StageOK, HeardOK, AnswerOK, LoopOK, SentOK, Finals, TypeOK
  <2> QED
    BY <2>1, <2>2, <2>3, OthersKeep
<1>9. ASSUME NEW r \in RpcRequests, NEW p \in Providers,
             NEW pairs \in SUBSET (Providers \X Statuses),
             AtProvider(r, "reconcile", p), Reported(r, pairs, p),
             statuses' = [statuses EXCEPT ![r] = pairs], statuses[r] \subseteq pairs,
             p \in Steady[r] => \E pair \in pairs : pair[1] = p,
             \A pair \in pairs : pair[1] \notin Faulty /\ pair[2] \in Final
                                    => pair[2] = fate[HashOf[r]],
             healthy' \subseteq Providers, UNCHANGED <<posted, fate>>
      PROVE  IInv'
  <2> DEFINE a == Outcome(r, Verdict(pairs))
  <2> HIDE DEF a
  <2>1. /\ stage[r] = "reconcile" /\ p \in todo[r] /\ Continue(r, p, a)
    BY <1>9 DEF AtProvider, Reported, a
  <2>2. /\ a \in {"disagree", "NOT_FOUND", "unreconciled", "PENDING", "uncertain"} \cup Final
        /\ a = "unreconciled" => pairs = {}
        /\ a \in Final => Finals(pairs) = {a}
    BY OutcomeIs DEF a
  <2>3. a \in RpcAnswers
    BY <2>2 DEF RpcAnswers, Statuses, Final
  <2>4. statuses'[r] = pairs /\ \A q \in RpcRequests : q # r => statuses'[q] = statuses[q]
    BY <1>0, <1>9 DEF TypeOK
  <2>5. TypeOK'
    BY <1>0, <1>9, <2>1, <2>3, ContinueIs DEF TypeOK
  <2>6. answer[r] = "none"
    BY <1>0, <2>1 DEF RequestOK, StageOK
  <2>7. \A q \in Steady[r] : q \in todo[r] \ {p} \/ \E pair \in pairs : pair[1] = q
    BY <1>0, <1>9, <2>1 DEF RequestOK, LoopOK
  <2>8. HeardOK(r)'
    BY <1>9, <2>4 DEF HeardOK
  <2>9. SentOK(r)' /\ StageOK(r)' /\ AnswerOK(r)' /\ LoopOK(r)'
    <3>1. CASE todo[r] = {p} /\ stage'[r] = "done" /\ answer'[r] = a
      <4>1. Steady[r] # {} => pairs # {}
        BY <2>7, <3>1
      <4>2. StageOK(r)' /\ SentOK(r)'
        BY <1>0, <1>9, <2>2, <3>1 DEF RequestOK, StageOK, SentOK, Final
      <4>3. AnswerOK(r)'
        BY <2>2, <2>4, <3>1 DEF AnswerOK, Finals
      <4>4. LoopOK(r)'
        BY <2>2, <3>1, <4>1 DEF LoopOK, Final
      <4> QED
        BY <4>2, <4>3, <4>4
    <3>2. CASE todo'[r] = todo[r] \ {p} /\ stage'[r] = stage[r] /\ answer'[r] = answer[r]
      <4>1. StageOK(r)' /\ SentOK(r)' /\ AnswerOK(r)'
        BY <1>0, <1>9, <2>1, <2>6, <3>2 DEF RequestOK, StageOK, SentOK, AnswerOK, Final
      <4>2. LoopOK(r)'
        BY <2>1, <2>4, <2>6, <2>7, <3>2 DEF LoopOK
      <4> QED
        BY <4>1, <4>2
    <3> QED
      BY <1>0, <2>1, <2>3, <3>1, <3>2, ContinueIs
  <2> QED
    BY <1>0, <1>9, <2>1, <2>3, <2>4, <2>5, <2>8, <2>9, ContinueIs, OthersKeep DEF RequestOK
<1>10. ASSUME NEW r \in RpcRequests, NEW p \in Providers, ReconcileHears(r, p) PROVE IInv'
  <2>1. PICK status \in Statuses :
            /\ MayReport(p, HashOf[r], status)
            /\ statuses' = [statuses EXCEPT ![r] = @ \cup {<<p, status>>}]
            /\ Reported(r, statuses[r] \cup {<<p, status>>}, p)
    BY <1>10 DEF ReconcileHears
  <2>2. /\ statuses[r] \cup {<<p, status>>} \in SUBSET (Providers \X Statuses)
        /\ statuses' = [statuses EXCEPT ![r] = statuses[r] \cup {<<p, status>>}]
    BY <1>0, <2>1 DEF TypeOK
  <2>3. \A pair \in statuses[r] \cup {<<p, status>>} :
            pair[1] \notin Faulty /\ pair[2] \in Final => pair[2] = fate[HashOf[r]]
    BY <1>0, <2>1 DEF RequestOK, HeardOK, MayReport, Final
  <2>4. /\ AtProvider(r, "reconcile", p) /\ healthy' \subseteq Providers
        /\ UNCHANGED <<posted, fate>>
    BY <1>0, <1>10 DEF ReconcileHears, CallAnswers, TypeOK
  <2>5. /\ statuses[r] \subseteq statuses[r] \cup {<<p, status>>}
        /\ <<p, status>>[1] = p /\ <<p, status>> \in statuses[r] \cup {<<p, status>>}
    OBVIOUS
  <2>6. \E pair \in statuses[r] \cup {<<p, status>>} : pair[1] = p
    BY <2>5
  <2> DEFINE pairs == statuses[r] \cup {<<p, status>>}
  <2>7. /\ pairs \in SUBSET (Providers \X Statuses)
        /\ AtProvider(r, "reconcile", p) /\ Reported(r, pairs, p)
        /\ statuses' = [statuses EXCEPT ![r] = pairs] /\ statuses[r] \subseteq pairs
        /\ \E pair \in pairs : pair[1] = p
        /\ \A pair \in pairs : pair[1] \notin Faulty /\ pair[2] \in Final
                                    => pair[2] = fate[HashOf[r]]
        /\ healthy' \subseteq Providers /\ UNCHANGED <<posted, fate>>
    BY <2>1, <2>2, <2>3, <2>4, <2>5, <2>6
  <2> HIDE DEF pairs
  <2> QED
    BY <1>9, <2>7
<1>11. ASSUME NEW r \in RpcRequests, NEW p \in Providers, ReconcileFails(r, p) PROVE IInv'
  <2>1. /\ AtProvider(r, "reconcile", p) /\ p \notin Steady[r] /\ healthy' \subseteq Providers
        /\ Reported(r, statuses[r], p)
        /\ UNCHANGED <<posted, fate>>
    BY <1>0, <1>11 DEF ReconcileFails, CallFails, CallAnswers, TypeOK
  <2>2. /\ statuses[r] \in SUBSET (Providers \X Statuses)
        /\ statuses' = [statuses EXCEPT ![r] = statuses[r]]
    BY <1>0, <1>11 DEF ReconcileFails, TypeOK
  <2>3. \A pair \in statuses[r] :
            pair[1] \notin Faulty /\ pair[2] \in Final => pair[2] = fate[HashOf[r]]
    BY <1>0 DEF RequestOK, HeardOK
  <2> QED
    BY <1>9, <2>1, <2>2, <2>3
<1>12. ASSUME NEW h \in Hashes, Take(h) \/ Decide(h) PROVE IInv'
  <2>1. /\ fate[h] \notin Final
        /\ fate' \in [Hashes -> {"none", "pending"} \cup Final]
        /\ \A g \in Hashes : g # h => fate'[g] = fate[g]
        /\ UNCHANGED <<healthy, stage, todo, order, posted, statuses, answer>>
    BY <1>0, <1>12 DEF Take, Decide, TypeOK, Final
  <2>2. TypeOK'
    BY <1>0, <2>1 DEF TypeOK
  <2>3. ASSUME NEW r \in RpcRequests PROVE RequestOK(r)'
    <3>1. HeardOK(r)'
      BY <1>0, <2>1 DEF RequestOK, HeardOK
    <3> QED
      BY <1>0, <2>1, <3>1 DEF RequestOK, StageOK, AnswerOK, LoopOK, SentOK, Finals
  <2> QED
    BY <2>2, <2>3
<1>13. CASE UNCHANGED vars
  BY <1>0, <1>13, OthersKeep DEF vars, TypeOK
<1> QED
  BY <1>1, <1>3, <1>4, <1>5, <1>6, <1>7, <1>8, <1>10, <1>11, <1>12, <1>13
  DEF Next, CallEnds

LEMMA Invariance == Spec => []IInv
BY InitEstablishes, StepKeeps, PTL DEF Spec

----------------------------------------------------------------------------
(* Type correctness, for any providers, requests and order of answers.     *)
THEOREM TypeCorrectness == Spec => []TypeOK
<1>1. IInv => TypeOK
  BY DEF IInv
<1> QED
  BY <1>1, Invariance, PTL

(* A submission is never posted to a second provider, whatever failed.     *)
THEOREM NoResubmission == Spec => []SubmittedOnce
<1>1. IInv => SubmittedOnce
  BY DEF IInv, RequestOK, SentOK, SubmittedOnce
<1> QED
  BY <1>1, Invariance, PTL

(* "No healthy provider before submission" is true when it is answered.    *)
THEOREM UnavailableUnsent == Spec => []UnavailableMeansUnsent
<1>1. IInv => UnavailableMeansUnsent
  BY DEF IInv, RequestOK, SentOK, UnavailableMeansUnsent
<1> QED
  BY <1>1, Invariance, PTL

(* One truthful report of the decision keeps every final answer true: a    *)
(* false report beside it is a disagreement, not an answer.                *)
THEOREM FinalTrue == Spec => []FinalIsTrue
<1>1. IInv => FinalIsTrue
  <2> SUFFICES ASSUME IInv, NEW r \in RpcRequests, answer[r] \in Final,
                      NEW pair \in statuses[r], pair[1] \notin Faulty, pair[2] \in Final
               PROVE  answer[r] = fate[HashOf[r]]
    BY DEF FinalIsTrue
  <2>1. pair[2] = fate[HashOf[r]]
    BY DEF IInv, RequestOK, HeardOK
  <2>2. pair[2] \in Finals(statuses[r])
    BY DEF Finals
  <2>3. Finals(statuses[r]) = {answer[r]}
    BY DEF IInv, RequestOK, AnswerOK
  <2> QED
    BY <2>1, <2>2, <2>3
<1> QED
  BY <1>1, Invariance, PTL

(* A provider that answers every call of a request is found by it.         *)
THEOREM SteadyFound == Spec => []SteadyProviderFound
<1>1. IInv => SteadyProviderFound
  BY DEF IInv, RequestOK, LoopOK, SteadyProviderFound
<1> QED
  BY <1>1, Invariance, PTL
=============================================================================
