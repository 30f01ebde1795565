--------------------------- MODULE SessionManager ---------------------------
(***************************************************************************)
(* The session manager daemon and its clients.                             *)
(*                                                                         *)
(* The daemon keeps a counter and the id of the active session (0: none),  *)
(* neither of them on disk, and answers three methods: a request for a new *)
(* session, a query for the active one, and the end of a session.  Its     *)
(* clients call the methods over the bus with rbus_invokeRemoteMethod: a   *)
(* call may time out with its request still under way, or already handled  *)
(* and the answer lost.                                                    *)
(***************************************************************************)
EXTENDS Naturals, Sequences, FiniteSets

CONSTANTS
    Client,       \* processes that use sessions, with one thread each
    MaxSession,   \* bound: sessions asked for in one run of the daemon
    MaxPending,   \* bound: requests of one client under way
    MaxRestarts   \* bound: restarts of the daemon

ASSUME SessionAssumption ==
    MaxSession \in Nat /\ MaxPending \in Nat /\ MaxRestarts \in Nat

VARIABLES
    counter,   \* g_counter
    current,   \* g_current_session_id
    restarts,  \* restarts so far
    net,       \* requests under way, per client, in order
    call,      \* the call a client is in ("none": it is in no call)
    reply,     \* the answer that waits for the client
    known,     \* the session id a client learned last
    owned      \* history: the session a client asked for, was granted, and
               \* did not end itself

vars == <<counter, current, restarts, net, call, reply, known, owned>>

-----------------------------------------------------------------------------
Id    == Nat
Op    == {"request", "get", "end", "end_without_id"}
Code  == {"success", "invalid_state", "invalid_param"}

(* Sessions of different runs of the daemon are told apart by the number of *)
(* restarts; the clients cannot do so.                                      *)
Grant == [run : Nat, id : Id]
Reply == [code : Code \cup {"none"}, grant : Grant]

(* A request: the method, its argument, and whether somebody waits for the  *)
(* answer.                                                                  *)
Request == [op : Op, id : Id, live : BOOLEAN]

NoGrant == [run |-> 0, id |-> 0]
NoReply == [code |-> "none", grant |-> NoGrant]

TypeOK ==
    /\ counter \in Nat
    /\ current \in 0 .. counter
    /\ restarts \in 0 .. MaxRestarts
    /\ net \in [Client -> Seq(Request)]
    /\ call \in [Client -> Op \cup {"none"}]
    /\ reply \in [Client -> Reply]
    /\ known \in [Client -> Id]
    /\ owned \in [Client -> Grant]

Init ==
    /\ counter = 0
    /\ current = 0
    /\ restarts = 0
    /\ net = [c \in Client |-> <<>>]
    /\ call = [c \in Client |-> "none"]
    /\ reply = [c \in Client |-> NoReply]
    /\ known = [c \in Client |-> 0]
    /\ owned = [c \in Client |-> NoGrant]

-----------------------------------------------------------------------------
(* Clients.                                                                 *)

(* The requests for a session that are under way. *)
GrantsUnderWay ==
    UNION {{<<c, i>> : i \in {j \in 1 .. Len(net[c]) : net[c][j].op = "request"}} :
              c \in Client}

(* A client calls a method of the daemon; it ends the session it knows. *)
Invoke(c, op) ==
    /\ call[c] = "none"
    /\ op = "request" => counter + Cardinality(GrantsUnderWay) < MaxSession
    /\ Len(net[c]) < MaxPending
    /\ net' = [net EXCEPT ![c] = Append(@, [op |-> op, id |-> known[c], live |-> TRUE])]
    /\ call' = [call EXCEPT ![c] = op]
    /\ UNCHANGED <<counter, current, restarts, reply, known, owned>>

(* The answer arrives.  A new session, and the active one, become known;    *)
(* the end of a session is the end of the client's claim to it.             *)
ReceiveReply(c) ==
    LET r    == reply[c]
        done == r.code = "success"
    IN  /\ r.code # "none"
        /\ known' = [known EXCEPT ![c] =
                       IF done /\ call[c] \in {"request", "get"} THEN r.grant.id ELSE @]
        /\ owned' = [owned EXCEPT ![c] =
                       IF done /\ call[c] = "request" THEN r.grant
                       ELSE IF done /\ call[c] = "end" /\ @.id = known[c] THEN NoGrant
                       ELSE @]
        /\ call' = [call EXCEPT ![c] = "none"]
        /\ reply' = [reply EXCEPT ![c] = NoReply]
        /\ UNCHANGED <<counter, current, restarts, net>>

(* The client stops waiting: a late answer is dropped. *)
Timeout(c) ==
    /\ call[c] # "none"
    /\ call' = [call EXCEPT ![c] = "none"]
    /\ reply' = [reply EXCEPT ![c] = NoReply]
    /\ net' = [net EXCEPT ![c] =
                 [i \in 1 .. Len(@) |-> [@[i] EXCEPT !.live = FALSE]]]
    /\ UNCHANGED <<counter, current, restarts, known, owned>>

-----------------------------------------------------------------------------
(* The daemon.                                                              *)

(* Mutant of Answer: an answer is delivered although nobody waits for it. *)
Answer_Late(c, code, id) ==
    /\ reply' = [reply EXCEPT ![c] =
                    [code |-> code, grant |-> [run |-> restarts, id |-> id]]]
    /\ net' = [net EXCEPT ![c] = Tail(@)]
    /\ UNCHANGED <<restarts, call, known, owned>>

(* The next request of client c is answered, if somebody waits. *)
Answer(c, code, id) ==
    /\ reply' = IF Head(net[c]).live
                THEN [reply EXCEPT ![c] =
                        [code |-> code, grant |-> [run |-> restarts, id |-> id]]]
                ELSE reply
    /\ net' = [net EXCEPT ![c] = Tail(@)]
    /\ UNCHANGED <<restarts, call, known, owned>>

(* The next request of client c is for method op. *)
IsNext(c, op) == net[c] # <<>> /\ Head(net[c]).op = op

(* Mutant of request_session_id: the counter is not advanced. *)
request_session_id_NoCount(c) ==
    /\ IsNext(c, "request")
    /\ \/ /\ current = 0
          /\ current' = counter + 1
          /\ Answer(c, "success", current')
       \/ /\ current # 0
          /\ Answer(c, "invalid_state", 0)
          /\ UNCHANGED current
    /\ UNCHANGED counter

(* A new session, unless one is active. *)
request_session_id(c) ==
    /\ IsNext(c, "request")
    /\ \/ /\ current = 0
          /\ counter' = counter + 1
          /\ current' = counter'
          /\ Answer(c, "success", current')
       \/ /\ current # 0
          /\ Answer(c, "invalid_state", 0)
          /\ UNCHANGED <<counter, current>>

(* Without a session the answer is success, and session 0. *)
get_session_id(c) ==
    /\ IsNext(c, "get")
    /\ Answer(c, "success", current)
    /\ UNCHANGED <<counter, current>>

(* Any client may end the session whose id it has. *)
end_session(c) ==
    /\ \/ /\ IsNext(c, "end")
          /\ IF Head(net[c]).id = current
             THEN /\ current' = 0
                  /\ Answer(c, "success", 0)
             ELSE /\ Answer(c, "invalid_state", 0)
                  /\ UNCHANGED current
       \/ /\ IsNext(c, "end_without_id")
          /\ Answer(c, "invalid_param", 0)
          /\ UNCHANGED current
    /\ UNCHANGED counter

(* The daemon is stopped and started again: the counter starts over, and    *)
(* the requests it had not answered are gone.                               *)
Restart ==
    /\ restarts < MaxRestarts
    /\ restarts' = restarts + 1
    /\ counter' = 0
    /\ current' = 0
    /\ net' = [c \in Client |-> <<>>]
    /\ UNCHANGED <<call, reply, known, owned>>

-----------------------------------------------------------------------------
Next ==
    \/ \E c \in Client :
         \/ \E op \in Op : Invoke(c, op)
         \/ ReceiveReply(c)
         \/ Timeout(c)
         \/ request_session_id(c)
         \/ get_session_id(c)
         \/ end_session(c)
    \/ Restart

Spec == Init /\ [][Next]_vars

-----------------------------------------------------------------------------
(* Properties.                                                             *)

Active == [run |-> restarts, id |-> current]

(* At most one client at a time holds the active session as its own,        *)
(* however many requests were repeated, answered late or lost and however   *)
(* often the daemon was restarted: a session is granted to one request only *)
(* (request_session_id).                                                    *)
OneOwner ==
    \A c, d \in Client : current # 0 /\ owned[c] = Active /\ owned[d] = Active => c = d

(* The inductive invariant behind OneOwner.  The sessions client c may hold *)
(* as its own, once the answer that waits for it has arrived:               *)
Claims(c) ==
    {owned[c]} \cup
    (IF call[c] = "request" /\ reply[c].code = "success" THEN {reply[c].grant} ELSE {})

(* The daemon may have granted g: in an earlier run, or with an earlier id. *)
MayBeGranted(g) == g.run <= restarts /\ (g.run = restarts => g.id <= counter)

(* No session is claimed twice, and none that was not granted yet.          *)
ClaimsInv ==
    /\ \A c \in Client : \A g \in Claims(c) : MayBeGranted(g)
    /\ \A c, d \in Client : c # d => \A g \in Claims(c) \cap Claims(d) : g.id = 0
    /\ \A c \in Client : call[c] = "none" => reply[c].code = "none"
    /\ \A c \in Client : \A i \in 1 .. Len(net[c]) :
         net[c][i].live => i = Len(net[c]) /\ call[c] = net[c][i].op /\ reply[c].code = "none"

OwnerInv == TypeOK /\ ClaimsInv

=============================================================================
