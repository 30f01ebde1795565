-------------------------- MODULE RemoteCallProof --------------------------
(* Proofs about RemoteCall, for any processes, any set of calls between     *)
(* them and any number of calls under way.                                  *)
EXTENDS RemoteCall, TLAPS

(***************************************************************************)
(* The inductive invariant.                                                *)
(***************************************************************************)

(* A handler runs for a request of its own. *)
Handled ==
    /\ \A p \in Proc : handling[p] # NoCall => place[handling[p]] = "handler"
    /\ \A p, q \in Proc : handling[p] # NoCall /\ handling[p] = handling[q] => p = q

(* What is known of a call by how far it is. *)
Stage(i) ==
    /\ phase[i] = "unused" => /\ place[i] = "nowhere" /\ answers[i] = 0 /\ i \notin twice
                              /\ result[i] = "none" /\ held[i] = {}
    /\ phase[i] # "unused" => call[i] \in Calls
    /\ phase[i] # "done" => result[i] = "none"

(* A request is in one place, and is answered when it leaves it; only a     *)
(* promise of a method callback is preceded by an answer.                   *)
Answered(i) ==
    /\ place[i] \in {"inbox", "handler"} => answers[i] = 0 /\ i \notin twice
    /\ place[i] = "later" => IF i \in twice THEN answers[i] = 1 ELSE answers[i] = 0
    /\ i \notin twice => answers[i] <= 1

(* An answer on its way is for a call that waits; unless it is the one that *)
(* precedes a promise it is what the provider said, and its last word.      *)
OnItsWay(i) ==
    reply[i] # "none" =>
        /\ phase[i] = "waiting" /\ answers[i] > 0
        /\ reply[i] # "unsupported" => outcome[i] = reply[i] /\ place[i] = "nowhere"

(* What a call returned, and what it left with its caller. *)
Returned(i) ==
    /\ result[i] = "success" /\ call[i].kind # "invoke" => outcome[i] = "ok"
    /\ result[i] = "fail" => outcome[i] = "fail"
    /\ result[i] = "success" => answers[i] > 0
    /\ phase[i] = "done" =>
         /\ "out" \in held[i] => /\ result[i] \in {"invalid_state", "invalid_param"}
                                  /\ call[i].kind # "pull"
         /\ "in" \in held[i] <=> result[i] = "success" /\ call[i].kind # "push"

RequestInv(i) == Stage(i) /\ Answered(i) /\ OnItsWay(i) /\ Returned(i)

CallInv == TypeOK /\ Handled /\ \A i \in Id : RequestInv(i)

(***************************************************************************)
(* What the steps have in common.                                          *)
(***************************************************************************)

(* Identifiers are numbers; NoCall is none. *)
LEMMA IdFacts == Id \subseteq Nat /\ NoCall \notin Id
  BY CallsAssumption DEF Id

(* The functions over the calls that a step changes at i only. *)
SameCall(j) ==
    /\ call'[j] = call[j] /\ phase'[j] = phase[j] /\ place'[j] = place[j]
    /\ reply'[j] = reply[j] /\ result'[j] = result[j] /\ held'[j] = held[j]
    /\ outcome'[j] = outcome[j] /\ answers'[j] = answers[j]
    /\ j \in twice' <=> j \in twice

(* A call that a step leaves alone keeps its invariant. *)
LEMMA Frame ==
  ASSUME NEW j \in Id, RequestInv(j), SameCall(j)
  PROVE  RequestInv(j)'
  BY DEF RequestInv, Stage, Answered, OnItsWay, Returned, SameCall

(* What a handler that other steps leave alone does. *)
LEMMA HandledFrame ==
  ASSUME CallInv, UNCHANGED handling, NEW i \in Id, place[i] # "handler",
         \A j \in Id \ {i} : place'[j] = place[j]
  PROVE  Handled'
  BY IdFacts DEF CallInv, TypeOK, Handled

(* Initially nobody has called. *)
LEMMA InitCalls == Init => CallInv
  <1> SUFFICES ASSUME Init PROVE CallInv
    OBVIOUS
  <1>1. TypeOK
    BY IdFacts DEF Init, TypeOK
  <1>2. Handled
    BY DEF Init, Handled
  <1>3. ASSUME NEW i \in Id PROVE RequestInv(i)
    BY DEF Init, RequestInv, Stage, Answered, OnItsWay, Returned
  <1> QED BY <1>1, <1>2, <1>3 DEF CallInv

(***************************************************************************)
(* The caller.                                                             *)
(***************************************************************************)

(* A new request is in the provider's inbox, unanswered. *)
LEMMA SendStep ==
  ASSUME CallInv, NEW i \in Id, NEW c \in Calls, Send(i, c)
  PROVE  CallInv'
  <1>1. TypeOK /\ Handled /\ phase[i] = "unused" /\ RequestInv(i)
    BY DEF CallInv, Send, CanCall
  <1>2. /\ call'[i] = c /\ phase'[i] = "waiting" /\ place'[i] = "inbox" /\ held'[i] = {"out"}
        /\ reply'[i] = reply[i] /\ result'[i] = result[i] /\ outcome'[i] = outcome[i]
        /\ answers'[i] = answers[i] /\ twice' = twice
        /\ \A j \in Id \ {i} : SameCall(j)
    BY <1>1 DEF Send, Called, TypeOK, historyVars, SameCall
  <1>3. TypeOK'
    <2>1. /\ call' \in [Id -> Calls \cup {NoCall}] /\ phase' \in [Id -> {"unused", "waiting", "done"}]
          /\ place' \in [Id -> {"nowhere", "inbox", "handler", "later"}]
          /\ held' \in [Id -> SUBSET {"out", "in"}]
      BY <1>1 DEF Send, Called, TypeOK
    <2> QED BY <1>1, <2>1 DEF Send, TypeOK, historyVars
  <1>4. Handled'
    <2>1. place[i] # "handler" /\ UNCHANGED handling
      BY <1>1 DEF RequestInv, Stage, Send
    <2> QED BY <1>2, <2>1, HandledFrame DEF SameCall
  <1>5. RequestInv(i)'
    BY <1>1, <1>2 DEF RequestInv, Stage, Answered, OnItsWay, Returned
  <1>6. \A j \in Id \ {i} : RequestInv(j)'
    BY <1>2, Frame DEF CallInv
  <1> QED BY <1>3, <1>4, <1>5, <1>6 DEF CallInv

(* A call that sends nothing returns at once; in an early return it keeps   *)
(* the request it was given.                                                *)
LEMMA NotSentStep ==
  ASSUME CallInv, NEW i \in Id, NEW c \in Calls,
         SendFails(i, c) \/ NotConnected(i, c) \/ NameTooLong(i, c)
  PROVE  CallInv'
  <1>1. TypeOK /\ Handled /\ phase[i] = "unused" /\ RequestInv(i)
    BY DEF CallInv, SendFails, NotConnected, NameTooLong, CanCall
  <1>2. PICK r, h :
          /\ \/ r = "not_sent" /\ h = {}
             \/ r \in {"invalid_state", "invalid_param"} /\ h = Given(c.kind)
          /\ Called(i, c) /\ Return(i, r, h)
          /\ UNCHANGED <<place, reply, handling, depth, historyVars>>
    BY DEF SendFails, NotConnected, NameTooLong
  <1>3. /\ call'[i] = c /\ phase'[i] = "done" /\ result'[i] = r /\ held'[i] = h
        /\ place'[i] = place[i] /\ reply'[i] = reply[i] /\ outcome'[i] = outcome[i]
        /\ answers'[i] = answers[i] /\ twice' = twice
        /\ \A j \in Id \ {i} : SameCall(j)
    BY <1>1, <1>2 DEF Called, Return, TypeOK, historyVars, SameCall
  <1>4. TypeOK'
    <2>1. /\ call' \in [Id -> Calls \cup {NoCall}] /\ phase' \in [Id -> {"unused", "waiting", "done"}]
          /\ result' \in [Id -> Result \cup {"none"}] /\ held' \in [Id -> SUBSET {"out", "in"}]
      BY <1>1, <1>2 DEF Called, Return, TypeOK, Result, Given
    <2> QED BY <1>1, <1>2, <2>1 DEF TypeOK, historyVars
  <1>5. Handled'
    BY <1>1, <1>2 DEF Handled
  <1>6. RequestInv(i)'
    BY <1>1, <1>2, <1>3 DEF RequestInv, Stage, Answered, OnItsWay, Returned, Given
  <1>7. \A j \in Id \ {i} : RequestInv(j)'
    BY <1>3, Frame DEF CallInv
  <1> QED BY <1>4, <1>5, <1>6, <1>7 DEF CallInv

(* The results an answer can be decoded to. *)
LEMMA DecodeFacts ==
  ASSUME NEW k \in Kind, NEW a \in Answer
  PROVE  /\ Decode(k, a) \in Result
         /\ Decode(k, a) = "success" /\ k # "invoke" => a = "ok"
         /\ Decode(k, a) = "fail" => a = "fail"
  BY DEF Decode, IntResult, Kind, Answer, Result

(* The result is decoded from an answer that is the provider's last word,   *)
(* or from one that says neither success nor failure.                       *)
LEMMA ReceiveReplyStep ==
  ASSUME CallInv, NEW i \in Id, ReceiveReply(i)
  PROVE  CallInv'
  <1>1. TypeOK /\ Handled /\ phase[i] = "waiting" /\ RequestInv(i) /\ reply[i] # "none"
    BY DEF CallInv, ReceiveReply
  <1>2. PICK k, r, h :
          /\ k = call[i].kind /\ r = Decode(k, reply[i]) /\ h = Kept(k, r) /\ Return(i, r, h)
          /\ reply' = [reply EXCEPT ![i] = "none"]
          /\ UNCHANGED <<call, place, handling, depth, historyVars>>
    BY DEF ReceiveReply
  <1>3. k \in Kind /\ reply[i] \in Answer /\ answers[i] \in Nat
    BY <1>1, <1>2, CallAssumption DEF TypeOK, RequestInv, Stage
  <1>4. /\ r \in Result /\ h \in SUBSET {"out", "in"}
        /\ r = "success" /\ k # "invoke" => reply[i] = "ok"
        /\ r = "fail" => reply[i] = "fail"
        /\ "out" \notin h /\ ("in" \in h <=> r = "success" /\ k # "push")
    BY <1>2, <1>3, DecodeFacts DEF Kept
  <1>5. /\ phase'[i] = "done" /\ result'[i] = r /\ held'[i] = h /\ reply'[i] = "none"
        /\ call'[i] = call[i] /\ place'[i] = place[i] /\ outcome'[i] = outcome[i]
        /\ answers'[i] = answers[i] /\ twice' = twice
        /\ \A j \in Id \ {i} : SameCall(j)
    BY <1>1, <1>2 DEF Return, TypeOK, historyVars, SameCall
  <1>6. TypeOK'
    <2>1. /\ phase' \in [Id -> {"unused", "waiting", "done"}]
          /\ result' \in [Id -> Result \cup {"none"}] /\ held' \in [Id -> SUBSET {"out", "in"}]
          /\ reply' \in [Id -> Answer \cup {"none"}]
      BY <1>1, <1>2, <1>4 DEF Return, TypeOK
    <2> QED BY <1>1, <1>2, <2>1 DEF TypeOK, historyVars
  <1>7. Handled'
    BY <1>1, <1>2 DEF Handled
  <1>8. RequestInv(i)'
    <2>1. Stage(i)' /\ Answered(i)' /\ OnItsWay(i)'
      BY <1>1, <1>5 DEF RequestInv, Stage, Answered, OnItsWay
    <2>2. Returned(i)'
      BY <1>1, <1>2, <1>3, <1>4, <1>5 DEF RequestInv, OnItsWay, Returned
    <2> QED BY <2>1, <2>2 DEF RequestInv
  <1>9. \A j \in Id \ {i} : RequestInv(j)'
    BY <1>5, Frame DEF CallInv
  <1> QED BY <1>6, <1>7, <1>8, <1>9 DEF CallInv

(* After a timeout no answer is on its way, and none will be. *)
LEMMA TimeoutStep ==
  ASSUME CallInv, NEW i \in Id, Timeout(i)
  PROVE  CallInv'
  <1>1. TypeOK /\ Handled /\ phase[i] = "waiting" /\ RequestInv(i)
    BY DEF CallInv, Timeout
  <1>2. /\ phase'[i] = "done" /\ result'[i] = "timeout" /\ held'[i] = {} /\ reply'[i] = "none"
        /\ call'[i] = call[i] /\ place'[i] = place[i] /\ outcome'[i] = "none"
        /\ answers'[i] = answers[i] /\ twice' = twice
        /\ \A j \in Id \ {i} : SameCall(j)
    BY <1>1 DEF Timeout, Return, TypeOK, SameCall
  <1>3. TypeOK'
    <2>1. /\ phase' \in [Id -> {"unused", "waiting", "done"}]
          /\ result' \in [Id -> Result \cup {"none"}] /\ held' \in [Id -> SUBSET {"out", "in"}]
          /\ reply' \in [Id -> Answer \cup {"none"}] /\ outcome' \in [Id -> Answer \cup {"none"}]
      BY <1>1 DEF Timeout, Return, TypeOK, Result
    <2> QED BY <1>1, <2>1 DEF TypeOK, Timeout
  <1>4. Handled'
    BY <1>1 DEF Handled, Timeout
  <1>5. RequestInv(i)'
    BY <1>1, <1>2 DEF RequestInv, Stage, Answered, OnItsWay, Returned
  <1>6. \A j \in Id \ {i} : RequestInv(j)'
    BY <1>2, Frame DEF CallInv
  <1> QED BY <1>3, <1>4, <1>5, <1>6 DEF CallInv

(***************************************************************************)
(* The provider.                                                           *)
(***************************************************************************)

(* onMessage hands a request to one handler, or drops it. *)
LEMMA OnMessageStep ==
  ASSUME CallInv, NEW p \in Proc, NEW i \in Id, OnMessage(p, i) \/ OnMessageNested(p, i)
  PROVE  CallInv'
  <1>1. TypeOK /\ Handled /\ place[i] = "inbox" /\ RequestInv(i)
    BY DEF CallInv, OnMessage, OnMessageNested, Incoming
  <1>2. /\ UNCHANGED <<call, phase, reply, result, held, outcome, answers, twice>>
        /\ place'[i] \in {"handler", "nowhere"}
        /\ \A j \in Id \ {i} : place'[j] = place[j]
        /\ place' \in [Id -> {"nowhere", "inbox", "handler", "later"}]
    BY <1>1 DEF OnMessage, OnMessageNested, historyVars, TypeOK
  <1>3. TypeOK' /\ Handled'
    <2>1. CASE OnMessage(p, i)
      <3>1. /\ depth[p] = 0 /\ depth'[p] = 1 /\ handling'[p] = i /\ place'[i] = "handler"
            /\ \A q \in Proc \ {p} : handling'[q] = handling[q] /\ depth'[q] = depth[q]
            /\ midst' = midst
        BY <1>1, <2>1 DEF OnMessage, TypeOK, historyVars
      <3>2. depth' \in [Proc -> 0 .. 1] /\ handling' \in [Proc -> Id \cup {NoCall}]
        BY <1>1, <2>1, <3>1 DEF OnMessage, TypeOK
      <3>3. \A q \in Proc : depth'[q] = 1 <=> handling'[q] # NoCall
        BY <1>1, <3>1, IdFacts DEF TypeOK
      <3>4. TypeOK'
        BY <1>1, <1>2, <3>1, <3>2, <3>3 DEF TypeOK
      <3>5. \A q \in Proc : handling[q] # i
        BY <1>1, IdFacts DEF Handled
      <3>6. \A q \in Proc : handling'[q] # NoCall => place'[handling'[q]] = "handler"
        <4> SUFFICES ASSUME NEW q \in Proc, handling'[q] # NoCall
                     PROVE  place'[handling'[q]] = "handler"
          OBVIOUS
        <4>1. CASE q = p
          BY <3>1, <4>1
        <4>2. CASE q # p
          <5>1. handling'[q] = handling[q] /\ handling[q] \in Id \ {i}
            BY <1>1, <3>1, <3>5, <4>2 DEF TypeOK
          <5>2. place[handling[q]] = "handler"
            BY <1>1, <5>1, IdFacts DEF Handled
          <5> QED BY <1>2, <5>1, <5>2
        <4> QED BY <4>1, <4>2
      <3>7. \A q, r \in Proc : handling'[q] # NoCall /\ handling'[q] = handling'[r] => q = r
        BY <1>1, <3>1, <3>5 DEF Handled
      <3>8. Handled'
        BY <3>6, <3>7 DEF Handled
      <3> QED BY <3>4, <3>8
    <2>2. CASE OnMessageNested(p, i)
      <3>1. UNCHANGED <<handling, depth>> /\ midst' \subseteq Id
        BY <1>1, <2>2 DEF OnMessageNested, TypeOK
      <3>2. Handled'
        BY <1>1, <1>2, <3>1, HandledFrame
      <3> QED BY <1>1, <1>2, <3>1, <3>2 DEF TypeOK
    <2> QED BY <2>1, <2>2
  <1>4. RequestInv(i)'
    BY <1>1, <1>2 DEF RequestInv, Stage, Answered, OnItsWay, Returned
  <1>5. \A j \in Id \ {i} : RequestInv(j)'
    BY <1>2, Frame DEF CallInv, SameCall
  <1> QED BY <1>3, <1>4, <1>5 DEF CallInv

(* An answer to request i, from the place it leaves. *)
LEMMA AnswerStep ==
  ASSUME CallInv, NEW i \in Id, NEW a \in Answer, SendResponse(i, a), Says(i, a),
         place[i] # "nowhere", place' = [place EXCEPT ![i] = "nowhere"],
         UNCHANGED <<call, phase, result, held, twice, midst>>
  PROVE  \A j \in Id : RequestInv(j)'
  <1>1. TypeOK /\ RequestInv(i) /\ answers[i] \in Nat
    BY DEF CallInv, TypeOK
  <1>2. /\ place'[i] = "nowhere" /\ answers'[i] = answers[i] + 1
        /\ reply'[i] = (IF phase[i] = "waiting" /\ reply[i] = "none" THEN a ELSE reply[i])
        /\ outcome'[i] = (IF phase[i] = "waiting" THEN a ELSE outcome[i])
        /\ \A j \in Id \ {i} : SameCall(j)
    BY <1>1 DEF TypeOK, SendResponse, Says, SameCall
  <1>3. RequestInv(i)'
    <2>1. Stage(i)' /\ Answered(i)'
      BY <1>1, <1>2 DEF RequestInv, Stage, Answered, TypeOK
    <2>2. OnItsWay(i)'
      BY <1>1, <1>2 DEF RequestInv, OnItsWay
    <2>3. phase[i] # "waiting" => outcome'[i] = outcome[i]
      BY <1>2
    <2>4. phase[i] = "waiting" => result'[i] = "none"
      BY <1>1 DEF RequestInv, Stage
    <2>5. Returned(i)'
      BY <1>1, <1>2, <2>3, <2>4 DEF RequestInv, Returned
    <2> QED BY <2>1, <2>2, <2>5 DEF RequestInv
  <1> QED BY <1>2, <1>3, Frame DEF CallInv

LEMMA AnswerType ==
  ASSUME CallInv, NEW i \in Id, NEW a \in Answer, SendResponse(i, a), answers[i] <= 1
  PROVE  reply' \in [Id -> Answer \cup {"none"}] /\ answers' \in [Id -> 0 .. 2]
  <1>1. answers[i] + 1 \in 0 .. 2
    BY DEF CallInv, TypeOK
  <1> QED BY <1>1 DEF CallInv, TypeOK, SendResponse

(* A handler that is done leaves its request. *)
LEMMA HandlerDoneFacts ==
  ASSUME CallInv, NEW p \in Proc, NEW i \in Id, NEW w \in {"nowhere", "later"},
         HandlerDone(p, i, w)
  PROVE  /\ place[i] = "handler" /\ place'[i] = w
         /\ \A j \in Id \ {i} : place'[j] = place[j]
         /\ place' \in [Id -> {"nowhere", "inbox", "handler", "later"}]
         /\ handling' \in [Proc -> Id \cup {NoCall}] /\ depth' \in [Proc -> 0 .. 1]
         /\ \A q \in Proc : depth'[q] = 1 <=> handling'[q] # NoCall
         /\ Handled'
  <1>1. TypeOK /\ Handled /\ i # NoCall /\ handling[p] = i
    BY IdFacts DEF CallInv, HandlerDone
  <1>2. depth[p] = 1 /\ place[i] = "handler"
    BY <1>1 DEF TypeOK, Handled
  <1>3. /\ handling'[p] = NoCall /\ depth'[p] = 0 /\ place'[i] = w
        /\ \A q \in Proc \ {p} : handling'[q] = handling[q] /\ depth'[q] = depth[q]
        /\ \A j \in Id \ {i} : place'[j] = place[j]
    BY <1>1, <1>2 DEF HandlerDone, TypeOK
  <1>4. /\ place' \in [Id -> {"nowhere", "inbox", "handler", "later"}]
        /\ handling' \in [Proc -> Id \cup {NoCall}] /\ depth' \in [Proc -> 0 .. 1]
    BY <1>1, <1>2 DEF HandlerDone, TypeOK
  <1>5. \A q \in Proc : depth'[q] = 1 <=> handling'[q] # NoCall
    BY <1>1, <1>3 DEF TypeOK
  <1>6. \A q \in Proc \ {p} : handling[q] # i
    BY <1>1 DEF Handled
  <1>7. Handled'
    BY <1>1, <1>3, <1>6 DEF Handled, TypeOK
  <1> QED BY <1>2, <1>3, <1>4, <1>5, <1>7

(* The handler answers with its return. *)
LEMMA HandlerReturnsStep ==
  ASSUME CallInv, NEW p \in Proc, NEW i \in Id, NEW a \in Answer, HandlerReturns(p, i, a)
  PROVE  CallInv'
  <1>1. /\ HandlerDone(p, i, "nowhere") /\ SendResponse(i, a) /\ Says(i, a)
        /\ UNCHANGED <<call, phase, result, held, twice, midst>>
    BY DEF HandlerReturns
  <1>2. place[i] = "handler" /\ place' = [place EXCEPT ![i] = "nowhere"] /\ answers[i] = 0
    BY <1>1, HandlerDoneFacts DEF HandlerDone, CallInv, RequestInv, Answered
  <1>3. TypeOK'
    <2>1. outcome' \in [Id -> Answer \cup {"none"}]
      BY <1>1 DEF CallInv, TypeOK, Says
    <2>2. reply' \in [Id -> Answer \cup {"none"}] /\ answers' \in [Id -> 0 .. 2]
      BY <1>1, <1>2, AnswerType
    <2>3. /\ place' \in [Id -> {"nowhere", "inbox", "handler", "later"}]
          /\ handling' \in [Proc -> Id \cup {NoCall}] /\ depth' \in [Proc -> 0 .. 1]
          /\ \A q \in Proc : depth'[q] = 1 <=> handling'[q] # NoCall
      BY <1>1, HandlerDoneFacts
    <2> QED BY <1>1, <2>1, <2>2, <2>3 DEF CallInv, TypeOK
  <1>4. \A j \in Id : RequestInv(j)'
    BY <1>1, <1>2, AnswerStep
  <1> QED BY <1>1, <1>3, <1>4, HandlerDoneFacts DEF CallInv

(* The handler promises an answer; for a method callback one is sent.       *)
LEMMA CallbackAsyncStep ==
  ASSUME CallInv, NEW p \in Proc, NEW i \in Id,
         ObjectCallbackAsync(p, i) \/ MethodCallbackAsync(p, i)
  PROVE  CallInv'
  <1>1. /\ HandlerDone(p, i, "later") /\ UNCHANGED <<call, phase, result, held, outcome, midst>>
    BY DEF ObjectCallbackAsync, MethodCallbackAsync, historyVars
  <1>2. TypeOK /\ RequestInv(i) /\ place[i] = "handler" /\ place'[i] = "later"
    BY <1>1, HandlerDoneFacts DEF CallInv
  <1>3. answers[i] = 0 /\ i \notin twice /\ "unsupported" \in Answer
    BY <1>2 DEF RequestInv, Answered, Answer
  <1>4. /\ reply' \in [Id -> Answer \cup {"none"}] /\ answers' \in [Id -> 0 .. 2]
        /\ twice' \subseteq Id
        /\ \A j \in Id \ {i} : SameCall(j)
        /\ \/ UNCHANGED <<reply, answers, twice>>
           \/ /\ twice' = twice \cup {i} /\ answers'[i] = 1
              /\ reply'[i] = IF phase[i] = "waiting" /\ reply[i] = "none"
                             THEN "unsupported" ELSE reply[i]
    <2>1. CASE ObjectCallbackAsync(p, i)
      <3>1. UNCHANGED <<reply, answers, twice>>
        BY <2>1 DEF ObjectCallbackAsync, historyVars
      <3> QED BY <1>1, <1>2, <3>1, HandlerDoneFacts DEF TypeOK, SameCall
    <2>2. CASE MethodCallbackAsync(p, i)
      <3>1. SendResponse(i, "unsupported") /\ twice' = twice \cup {i}
        BY <2>2 DEF MethodCallbackAsync
      <3>2. reply' \in [Id -> Answer \cup {"none"}] /\ answers' \in [Id -> 0 .. 2]
        BY <1>3, <3>1, AnswerType
      <3>3. /\ answers'[i] = 1 /\ \A j \in Id \ {i} : answers'[j] = answers[j] /\ reply'[j] = reply[j]
            /\ reply'[i] = IF phase[i] = "waiting" /\ reply[i] = "none"
                           THEN "unsupported" ELSE reply[i]
        BY <1>2, <1>3, <3>1 DEF SendResponse, TypeOK
      <3> QED BY <1>1, <1>2, <3>1, <3>2, <3>3, HandlerDoneFacts DEF TypeOK, SameCall
    <2> QED BY <2>1, <2>2
  <1>5. TypeOK'
    BY <1>1, <1>2, <1>4, HandlerDoneFacts DEF TypeOK
  <1>6. RequestInv(i)'
    BY <1>1, <1>2, <1>3, <1>4 DEF RequestInv, Stage, Answered, OnItsWay, Returned
  <1>7. \A j \in Id \ {i} : RequestInv(j)'
    BY <1>4, Frame DEF CallInv
  <1> QED BY <1>1, <1>5, <1>6, <1>7, HandlerDoneFacts DEF CallInv

(* The promised answer, and the answer of other code. *)
LEMMA AnswersStep ==
  ASSUME CallInv, NEW i \in Id, NEW a \in Answer, AnswerLater(i, a) \/ ForeignAnswers(i, a)
  PROVE  CallInv'
  <1>1. /\ place[i] \in {"later", "inbox"} /\ place' = [place EXCEPT ![i] = "nowhere"]
        /\ SendResponse(i, a) /\ Says(i, a)
        /\ UNCHANGED <<call, phase, result, held, handling, depth, twice, midst>>
    BY DEF AnswerLater, ForeignAnswers
  <1>2. TypeOK /\ answers[i] <= 1
    BY <1>1 DEF CallInv, RequestInv, Answered
  <1>3. TypeOK'
    <2>1. /\ outcome' \in [Id -> Answer \cup {"none"}]
          /\ place' \in [Id -> {"nowhere", "inbox", "handler", "later"}]
      BY <1>1, <1>2 DEF TypeOK, Says
    <2> QED BY <1>1, <1>2, <2>1, AnswerType DEF TypeOK
  <1>4. Handled'
    BY <1>1, <1>2, HandledFrame DEF TypeOK
  <1>5. \A j \in Id : RequestInv(j)'
    BY <1>1, AnswerStep
  <1> QED BY <1>3, <1>4, <1>5 DEF CallInv

(***************************************************************************)
(* The theorems.                                                           *)
(***************************************************************************)

(* The invariant of all calls. *)
THEOREM CallInvariant == Spec => []CallInv
  <1>1. ASSUME CallInv, [Next]_vars PROVE CallInv'
    <2>1. ASSUME NEW i \in Id, CallerStep(i) PROVE CallInv'
      BY <1>1, <2>1, SendStep, NotSentStep DEF CallerStep
    <2>2. ASSUME NEW i \in Id, ReceiveReply(i) \/ Timeout(i) PROVE CallInv'
      BY <1>1, <2>2, ReceiveReplyStep, TimeoutStep
    <2>3. ASSUME NEW i \in Id, Provide(i) PROVE CallInv'
      <3>1. PICK p \in Proc : OnMessage(p, i) \/ OnMessageNested(p, i) \/ Handle(p, i)
        BY <2>3 DEF Provide
      <3> QED BY <1>1, <3>1, OnMessageStep, HandlerReturnsStep, CallbackAsyncStep DEF Handle
    <2>4. ASSUME NEW i \in Id, Answers(i) PROVE CallInv'
      BY <1>1, <2>4, AnswersStep DEF Answers
    <2>5. CASE UNCHANGED vars
      <3>1. TypeOK' /\ Handled'
        BY <1>1, <2>5 DEF CallInv, TypeOK, Handled, vars, historyVars
      <3>2. \A j \in Id : SameCall(j)
        BY <2>5 DEF vars, historyVars, SameCall
      <3> QED BY <1>1, <3>1, <3>2, Frame DEF CallInv
    <2> QED BY <1>1, <2>1, <2>2, <2>3, <2>4, <2>5 DEF Next
  <1> QED BY <1>1, InitCalls, PTL DEF Spec

(* The state of the calls keeps its types; stack_counter is 1 exactly while *)
(* a handler runs.                                                          *)
THEOREM CallTypeCorrect == Spec => []TypeOK
  <1>1. CallInv => TypeOK
    BY DEF CallInv
  <1> QED BY <1>1, CallInvariant, PTL

(* A request is answered once, except after the promise of a method         *)
(* callback: it is in one place, and answered when it leaves it.            *)
THEOREM CallAnsweredOnce == Spec => []AnsweredOnce
  <1>1. CallInv => AnsweredOnce
    BY DEF CallInv, RequestInv, Answered, AnsweredOnce
  <1> QED BY <1>1, CallInvariant, PTL

(* rbus_pushObj and rbus_pullObj return what the provider said about this   *)
(* call, however late, lost or doubled its answers are.                     *)
THEOREM CallResult == Spec => []ResultIsTheProviders
  <1>1. CallInv => ResultIsTheProviders
    BY DEF CallInv, RequestInv, Returned, ResultIsTheProviders
  <1> QED BY <1>1, CallInvariant, PTL

(* Every call that has returned has released its request, unless it         *)
(* returned before it did anything, and leaves a response with its caller   *)
(* exactly on success.                                                      *)
THEOREM CallMessagesReleased == Spec => []MessagesReleased
  <1>1. CallInv => MessagesReleased
    BY DEF CallInv, RequestInv, Returned, MessagesReleased
  <1> QED BY <1>1, CallInvariant, PTL

=============================================================================
