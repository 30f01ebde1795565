----------------------------- MODULE RemoteCall -----------------------------
(***************************************************************************)
(* Remote procedure calls between processes that are callers and providers *)
(* at the same time.                                                       *)
(*                                                                         *)
(* Every process has an object, application threads, and one dispatch      *)
(* thread that runs onMessage for each request to the object.  The handler *)
(* of a request may itself make a remote call; while it waits,             *)
(* rtConnection may hand the next request to the same thread.  onMessage   *)
(* counts its activations in stack_counter and puts a request that comes   *)
(* in the middle of another in g_queued_requests.  No code creates that    *)
(* vector: rtVector_PushBack on NULL stores nothing and rtVector_Size of   *)
(* NULL is 0, so that such a request is never handled.                     *)
(*                                                                         *)
(* A handler answers with its return, or, for an object callback that      *)
(* returns RTMESSAGE_BUS_SUCCESS_ASYNC, later with rbus_sendResponse.  The *)
(* return value of a method callback is not looked at: the call is then    *)
(* answered twice, first with RTMESSAGE_BUS_ERROR_UNSUPPORTED_METHOD.      *)
(***************************************************************************)
EXTENDS Naturals, FiniteSets

CONSTANTS
    Proc,     \* processes
    Foreign,  \* those whose object is not served by this library
    Calls,    \* the calls they may make: from whom to whom, from which
              \* thread, and with which function
    MaxCalls, \* bound: remote calls in a behaviour
    NoCall

Id == 1 .. MaxCalls

Thread == {"app", "dispatch"}
Kind   == {"invoke", "push", "pull"}

ASSUME CallAssumption ==
    /\ Foreign \subseteq Proc
    /\ Calls \subseteq [from : Proc \ Foreign, to : Proc, thread : Thread, kind : Kind]

ASSUME CallsAssumption == MaxCalls \in Nat /\ NoCall \notin Nat

VARIABLES
    call,     \* id: who calls whom, from which thread, and how
    phase,    \* id: unused, waiting in rtConnection_SendBinaryRequest, done
    place,    \* id: where the request is
    reply,    \* id: an answer on its way
    result,   \* id: what the call returned
    held,     \* id: its messages that are not released
    handling, \* process: the request its handler runs for
    depth,    \* process: stack_counter of onMessage
    outcome,  \* history: id: what the provider said while somebody waited
    answers,  \* history: id: answers sent
    twice,    \* history: calls a method callback wants to answer later
    midst     \* history: requests that came while another was handled

historyVars == <<outcome, answers, twice, midst>>
vars == <<call, phase, place, reply, result, held, handling, depth, historyVars>>

-----------------------------------------------------------------------------
(* What a response says: an integer result first, or none, or no method     *)
(* name METHOD_RESPONSE in its meta section.                                *)
Answer == {"ok", "fail", "bare", "unsupported", "alien"}

(* Return values; "not_sent" is RTMESSAGE_BUS_ERROR_DESTINATION_UNREACHABLE  *)
(* or RTMESSAGE_BUS_ERROR_GENERAL.                                          *)
Result == {"success", "fail", "unsupported", "malformed", "not_sent",
           "timeout", "invalid_state", "invalid_param"}

TypeOK ==
    /\ call \in [Id -> Calls \cup {NoCall}]
    /\ phase \in [Id -> {"unused", "waiting", "done"}]
    /\ place \in [Id -> {"nowhere", "inbox", "handler", "later"}]
    /\ reply \in [Id -> Answer \cup {"none"}]
    /\ result \in [Id -> Result \cup {"none"}]
    /\ held \in [Id -> SUBSET {"out", "in"}]
    /\ handling \in [Proc -> Id \cup {NoCall}]
    /\ depth \in [Proc -> 0 .. 1]
    /\ outcome \in [Id -> Answer \cup {"none"}]
    /\ answers \in [Id -> 0 .. 2]
    /\ twice \subseteq Id /\ midst \subseteq Id
    /\ \A p \in Proc : depth[p] = 1 <=> handling[p] # NoCall

Init ==
    /\ call = [i \in Id |-> NoCall]
    /\ phase = [i \in Id |-> "unused"]
    /\ place = [i \in Id |-> "nowhere"]
    /\ reply = [i \in Id |-> "none"]
    /\ result = [i \in Id |-> "none"]
    /\ held = [i \in Id |-> {}]
    /\ handling = [p \in Proc |-> NoCall]
    /\ depth = [p \in Proc |-> 0]
    /\ outcome = [i \in Id |-> "none"]
    /\ answers = [i \in Id |-> 0]
    /\ twice = {} /\ midst = {}

-----------------------------------------------------------------------------
(* Thread h of process p waits in a remote call. *)
Waits(p, h) ==
    \E i \in Id : phase[i] = "waiting" /\ call[i].from = p /\ call[i].thread = h

(* Call i is the next one, and thread h of p may make it: the dispatch      *)
(* thread only from within a handler.                                       *)
CanCall(i, p, h) ==
    /\ phase[i] = "unused"
    /\ \A j \in 1 .. i - 1 : phase[j] # "unused"
    /\ ~Waits(p, h)
    /\ h = "dispatch" => handling[p] # NoCall

-----------------------------------------------------------------------------
(* The caller: rbus_invokeRemoteMethod, and rbus_pushObj and rbus_pullObj   *)
(* built on it.                                                             *)

Called(i, c) == call' = [call EXCEPT ![i] = c]

(* The request is sent; the call waits. *)
Send(i, c) ==
    /\ CanCall(i, c.from, c.thread)
    /\ Called(i, c)
    /\ phase' = [phase EXCEPT ![i] = "waiting"]
    /\ place' = [place EXCEPT ![i] = "inbox"]
    /\ held' = [held EXCEPT ![i] = {"out"}]
    /\ UNCHANGED <<reply, result, handling, depth, historyVars>>

(* Call i returns r; the messages in h stay with the caller. *)
Return(i, r, h) ==
    /\ phase' = [phase EXCEPT ![i] = "done"]
    /\ result' = [result EXCEPT ![i] = r]
    /\ held' = [held EXCEPT ![i] = h]

(* Nothing is sent: the object has no route, or the connection fails. *)
SendFails(i, c) ==
    /\ CanCall(i, c.from, c.thread)
    /\ Called(i, c)
    /\ Return(i, "not_sent", {})
    /\ UNCHANGED <<place, reply, handling, depth, historyVars>>

(* The request the application hands over; rbus_pullObj has none, and       *)
(* leaves its creation to rbus_invokeRemoteMethod.                          *)
Given(k) == IF k = "pull" THEN {} ELSE {"out"}

(* The two early returns come before anything, also before the release of   *)
(* the request.  There is no connection:                                    *)
NotConnected(i, c) ==
    /\ c.thread = "app"
    /\ CanCall(i, c.from, c.thread)
    /\ Called(i, c)
    /\ Return(i, "invalid_state", Given(c.kind))
    /\ UNCHANGED <<place, reply, handling, depth, historyVars>>

(* or the name of the object is too long. *)
NameTooLong(i, c) ==
    /\ CanCall(i, c.from, c.thread)
    /\ Called(i, c)
    /\ Return(i, "invalid_param", Given(c.kind))
    /\ UNCHANGED <<place, reply, handling, depth, historyVars>>

(* Mutant of IntResult: without an integer, the initial value of the result. *)
IntResult_DefaultsToSuccess(a) == IF a \in {"ok", "bare"} THEN "success" ELSE a

(* rbus_pullObj and rbus_pushObj take the integer in front of the response  *)
(* for their result.                                                        *)
IntResult(a) ==
    IF a = "ok" THEN "success" ELSE IF a = "bare" THEN "malformed" ELSE a

(* The return value for answer a.  rbus_invokeRemoteMethod looks at the     *)
(* method name only.                                                        *)
Decode(k, a) ==
    IF a = "alien" THEN "malformed"
    ELSE IF k = "invoke" THEN "success" ELSE IntResult(a)

(* Mutant of Kept: the response is left with the caller whatever the result *)
(* is.                                                                      *)
Kept_Always(k, r) == IF k = "push" THEN {} ELSE {"in"}

(* The caller gets the response with a success, except from rbus_pushObj,   *)
(* which releases it.                                                       *)
Kept(k, r) == IF r = "success" /\ k # "push" THEN {"in"} ELSE {}

(* An answer is there. *)
ReceiveReply(i) ==
    /\ phase[i] = "waiting"
    /\ reply[i] # "none"
    /\ LET r == Decode(call[i].kind, reply[i]) IN Return(i, r, Kept(call[i].kind, r))
    /\ reply' = [reply EXCEPT ![i] = "none"]
    /\ UNCHANGED <<call, place, handling, depth, historyVars>>

(* The time is up, possibly with the answer on its way. *)
Timeout(i) ==
    /\ phase[i] = "waiting"
    /\ Return(i, "timeout", {})
    /\ reply' = [reply EXCEPT ![i] = "none"]
    /\ outcome' = [outcome EXCEPT ![i] = "none"]
    /\ UNCHANGED <<call, place, handling, depth, answers, twice, midst>>

-----------------------------------------------------------------------------
(* The provider.                                                            *)

(* Request i is in front of the dispatch thread of p, which has nothing to  *)
(* do or waits in a call of its handler.                                    *)
Incoming(p, i) ==
    /\ p \notin Foreign
    /\ place[i] = "inbox"
    /\ call[i].to = p
    /\ handling[p] = NoCall \/ Waits(p, "dispatch")

(* onMessage calls dispatch_method_call. *)
OnMessage(p, i) ==
    /\ Incoming(p, i)
    /\ depth[p] = 0
    /\ depth' = [depth EXCEPT ![p] = @ + 1]
    /\ handling' = [handling EXCEPT ![p] = i]
    /\ place' = [place EXCEPT ![i] = "handler"]
    /\ UNCHANGED <<call, phase, reply, result, held, historyVars>>

(* onMessage in the middle of another request. *)
OnMessageNested(p, i) ==
    /\ Incoming(p, i)
    /\ depth[p] # 0
    /\ place' = [place EXCEPT ![i] = "nowhere"]
    /\ midst' = IF handling[p] # NoCall THEN midst \cup {i} ELSE midst
    /\ UNCHANGED <<call, phase, reply, result, held, handling, depth, outcome,
                   answers, twice>>

(* rbus_sendResponse: answer a to request i.  rtConnection drops what       *)
(* nobody waits for.                                                        *)
SendResponse(i, a) ==
    /\ reply' = IF phase[i] = "waiting" /\ reply[i] = "none"
                THEN [reply EXCEPT ![i] = a] ELSE reply
    /\ answers' = [answers EXCEPT ![i] = @ + 1]

(* The provider said a about call i, for which somebody still waits. *)
Says(i, a) ==
    outcome' = IF phase[i] = "waiting" THEN [outcome EXCEPT ![i] = a] ELSE outcome

(* The handler of p is done with request i, which goes to place w. *)
HandlerDone(p, i, w) ==
    /\ handling[p] = i
    /\ ~Waits(p, "dispatch")
    /\ handling' = [handling EXCEPT ![p] = NoCall]
    /\ depth' = [depth EXCEPT ![p] = @ - 1]
    /\ place' = [place EXCEPT ![i] = w]

(* The handler returns, with a response or without. *)
HandlerReturns(p, i, a) ==
    /\ HandlerDone(p, i, "nowhere")
    /\ a \in {"ok", "fail", "bare", "unsupported"}
    /\ SendResponse(i, a)
    /\ Says(i, a)
    /\ UNCHANGED <<call, phase, result, held, twice, midst>>

(* Mutant of ObjectCallbackAsync: answered at once all the same. *)
ObjectCallbackAsync_Answers(p, i) ==
    /\ HandlerDone(p, i, "later")
    /\ SendResponse(i, "unsupported")
    /\ UNCHANGED <<call, phase, result, held, outcome, twice, midst>>

(* Mutant of ObjectCallbackAsync: stack_counter is not decremented. *)
ObjectCallbackAsync_KeepsDepth(p, i) ==
    /\ handling[p] = i
    /\ ~Waits(p, "dispatch")
    /\ handling' = [handling EXCEPT ![p] = NoCall]
    /\ place' = [place EXCEPT ![i] = "later"]
    /\ UNCHANGED <<call, phase, reply, result, held, depth, historyVars>>

(* The object callback returns RTMESSAGE_BUS_SUCCESS_ASYNC. *)
ObjectCallbackAsync(p, i) ==
    /\ HandlerDone(p, i, "later")
    /\ UNCHANGED <<call, phase, reply, result, held, historyVars>>

(* A method callback returns it, and no response. *)
MethodCallbackAsync(p, i) ==
    /\ HandlerDone(p, i, "later")
    /\ SendResponse(i, "unsupported")
    /\ twice' = twice \cup {i}
    /\ UNCHANGED <<call, phase, result, held, outcome, midst>>

(* The application answers with rbus_sendResponse. *)
AnswerLater(i, a) ==
    /\ place[i] = "later"
    /\ a \in {"ok", "fail", "bare", "unsupported"}
    /\ place' = [place EXCEPT ![i] = "nowhere"]
    /\ SendResponse(i, a)
    /\ Says(i, a)
    /\ UNCHANGED <<call, phase, result, held, handling, depth, twice, midst>>

(* An object that other code serves answers in its own format, or, when it  *)
(* is rtrouted, in the format of this library.                              *)
ForeignAnswers(i, a) ==
    /\ place[i] = "inbox"
    /\ call[i].to \in Foreign
    /\ a \in {"ok", "alien"}
    /\ place' = [place EXCEPT ![i] = "nowhere"]
    /\ SendResponse(i, a)
    /\ Says(i, a)
    /\ UNCHANGED <<call, phase, result, held, handling, depth, twice, midst>>

-----------------------------------------------------------------------------
CallerStep(i) ==
    \E c \in Calls :
        Send(i, c) \/ SendFails(i, c) \/ NotConnected(i, c) \/ NameTooLong(i, c)

Handle(p, i) ==
    \/ \E a \in Answer : HandlerReturns(p, i, a)
    \/ ObjectCallbackAsync(p, i) \/ MethodCallbackAsync(p, i)

Provide(i) ==
    \E p \in Proc : OnMessage(p, i) \/ OnMessageNested(p, i) \/ Handle(p, i)

Answers(i) == \E a \in Answer : AnswerLater(i, a) \/ ForeignAnswers(i, a)

Next ==
    \E i \in Id :
        CallerStep(i) \/ ReceiveReply(i) \/ Timeout(i) \/ Provide(i) \/ Answers(i)

(* Requests and answers arrive, handlers return, promised answers are sent. *)
(* Timeouts are left out on purpose.                                        *)
Fairness ==
    \A i \in Id :
        WF_vars(ReceiveReply(i)) /\ WF_vars(Provide(i)) /\ WF_vars(Answers(i))

Spec == Init /\ [][Next]_vars

FairSpec == Spec /\ Fairness

-----------------------------------------------------------------------------
(* Properties.                                                             *)

(* A request is answered at most once, whether its handler answers or       *)
(* promises to (dispatch_method_call, rbus_sendResponse); the exception is  *)
(* the promise of a method callback, which dispatch_method_call ignores.    *)
AnsweredOnce == \A i \in Id : answers[i] <= 1 \/ i \in twice

(* rbus_pushObj and rbus_pullObj return success only if the provider said   *)
(* so for this very call, and its failure only if the provider said that:   *)
(* a missing result, a late answer or a lost request is never a success.    *)
(* A success of rbus_invokeRemoteMethod means somebody answered.            *)
ResultIsTheProviders ==
    \A i \in Id :
        /\ result[i] = "success" /\ call[i].kind # "invoke" => outcome[i] = "ok"
        /\ result[i] = "fail" => outcome[i] = "fail"
        /\ result[i] = "success" => answers[i] > 0

(* When a call has returned its request is released, however it ended, and  *)
(* the response is left exactly with the callers that got one               *)
(* (rbus_invokeRemoteMethod, rbus_pushObj, rbus_pullObj).  The exceptions   *)
(* are the two early returns, without a connection and for a name that is   *)
(* too long: the application's request may not be released there.           *)
MessagesReleased ==
    \A i \in Id :
        phase[i] = "done" =>
            /\ "out" \in held[i] => /\ result[i] \in {"invalid_state", "invalid_param"}
                                     /\ call[i].kind # "pull"
            /\ "in" \in held[i] <=> result[i] = "success" /\ call[i].kind # "push"

(* Timeouts are only needed for requests that met a busy provider: as long  *)
(* as none came in the middle of another, every call gets its answer, in    *)
(* whatever order the processes call one another (onMessage, stack_counter).*)
AnsweredUnlessBusy ==
    \A i \in Id : phase[i] = "waiting" ~> (phase[i] = "done" \/ midst # {})

=============================================================================
