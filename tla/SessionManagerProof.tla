------------------------ MODULE SessionManagerProof ------------------------
(* Proofs about SessionManager, for any number of clients, sessions and     *)
(* requests under way.                                                      *)
EXTENDS SessionManager, SequenceTheorems, TLAPS

(* A request nobody waits for any more is still a request. *)
LEMMA UnwaitedType ==
  ASSUME NEW r \in Request
  PROVE  [r EXCEPT !.live = FALSE] \in Request
  BY DEF Request

(* The requests of one client, and those left when the first is taken off.  *)
LEMMA NetTypes ==
  ASSUME TypeOK, NEW c \in Client
  PROVE  /\ net[c] \in Seq(Request) /\ Len(net[c]) \in Nat
         /\ \A i \in 1 .. Len(net[c]) : net[c][i] \in Request
         /\ net[c] # <<>> =>
              /\ Head(net[c]) = net[c][1] /\ Head(net[c]) \in Request
              /\ Tail(net[c]) \in Seq(Request)
              /\ 1 \in 1 .. Len(net[c])
              /\ Len(Tail(net[c])) = Len(net[c]) - 1
              /\ \A i \in 1 .. Len(Tail(net[c])) : i + 1 \in 1 .. Len(net[c])
              /\ \A i \in 1 .. Len(Tail(net[c])) : Tail(net[c])[i] = net[c][i + 1]
  <1>1. net[c] \in Seq(Request) /\ Len(net[c]) \in Nat
    BY DEF TypeOK
  <1> QED BY <1>1

(* What is claimed is a grant. *)
LEMMA ClaimsType ==
  ASSUME TypeOK, NEW c \in Client
  PROVE  Claims(c) \subseteq Grant
  BY DEF TypeOK, Claims, Reply

(* Initially nobody has a session. *)
LEMMA InitOwner == Init => OwnerInv
  <1> SUFFICES ASSUME Init PROVE OwnerInv
    OBVIOUS
  <1>1. TypeOK
    BY SessionAssumption DEF Init, TypeOK, NoReply, NoGrant, Reply, Grant, Id
  <1>2. ClaimsInv
    <2>1. \A c \in Client : Claims(c) = {NoGrant}
      BY DEF Init, Claims, NoReply
    <2>2. MayBeGranted(NoGrant) /\ NoGrant.id = 0
      BY DEF Init, MayBeGranted, NoGrant
    <2> QED BY <2>1, <2>2 DEF Init, ClaimsInv, NoReply
  <1> QED BY <1>1, <1>2 DEF OwnerInv

(* Sending a request claims nothing. *)
LEMMA InvokeStep ==
  ASSUME OwnerInv, NEW c \in Client, NEW op \in Op, Invoke(c, op)
  PROVE  OwnerInv'
  <1> DEFINE r == [op |-> op, id |-> known[c], live |-> TRUE]
  <1>1. TypeOK /\ ClaimsInv
    BY DEF OwnerInv
  <1>2. r \in Request
    BY <1>1 DEF Request, TypeOK
  <1>3. /\ call[c] = "none" /\ reply[c].code = "none" /\ call'[c] = op
        /\ net'[c] = Append(net[c], r)
        /\ \A d \in Client : d # c => net'[d] = net[d] /\ call'[d] = call[d]
        /\ UNCHANGED <<counter, current, restarts, reply, known, owned>>
    BY <1>1 DEF Invoke, TypeOK, ClaimsInv
  <1>4. TypeOK'
    <2>1. net' \in [Client -> Seq(Request)]
      BY <1>1, <1>2 DEF Invoke, TypeOK
    <2>2. call' \in [Client -> Op \cup {"none"}]
      BY <1>1 DEF Invoke, TypeOK
    <2> QED BY <1>1, <1>3, <2>1, <2>2 DEF TypeOK
  <1>5. \A d \in Client : Claims(d)' = Claims(d)
    BY <1>3 DEF Claims
  <1>6. /\ net[c] \in Seq(Request) /\ Len(net[c]) \in Nat
        /\ Len(net'[c]) = Len(net[c]) + 1
        /\ \A i \in 1 .. Len(net[c]) : net'[c][i] = net[c][i]
        /\ net'[c][Len(net[c]) + 1] = r
    BY <1>1, <1>2, <1>3, NetTypes
  <1>7. \A i \in 1 .. Len(net[c]) : ~net[c][i].live
    <2>1. \A i \in 1 .. Len(net[c]) : net[c][i].op # "none"
      BY <1>1, NetTypes DEF Request, Op
    <2> QED BY <1>1, <1>3, <2>1 DEF ClaimsInv
  <1>8. ClaimsInv'
    <2>1. ASSUME NEW d \in Client, NEW i \in 1 .. Len(net'[d]), net'[d][i].live
          PROVE  i = Len(net'[d]) /\ call'[d] = net'[d][i].op /\ reply'[d].code = "none"
      <3>1. CASE d = c
        <4>1. i \in 1 .. Len(net[c]) \/ i = Len(net[c]) + 1
          BY <1>6, <3>1
        <4> QED BY <1>3, <1>6, <1>7, <2>1, <3>1, <4>1
      <3>2. CASE d # c
        BY <1>1, <1>3, <2>1, <3>2 DEF ClaimsInv
      <3> QED BY <3>1, <3>2
    <2>2. \A d \in Client : call'[d] = "none" => reply'[d].code = "none"
      BY <1>1, <1>3 DEF ClaimsInv
    <2>3. \A d \in Client : \A g \in Claims(d)' : MayBeGranted(g)'
      BY <1>1, <1>3, <1>5 DEF ClaimsInv, MayBeGranted
    <2>4. \A d, e \in Client : d # e => \A g \in Claims(d)' \cap Claims(e)' : g.id = 0
      BY <1>1, <1>5 DEF ClaimsInv
    <2> QED BY <2>1, <2>2, <2>3, <2>4 DEF ClaimsInv
  <1> QED BY <1>4, <1>8 DEF OwnerInv

(* An answer in time turns a granted session into an owned one. *)
LEMMA ReceiveReplyStep ==
  ASSUME OwnerInv, NEW c \in Client, ReceiveReply(c)
  PROVE  OwnerInv'
  <1>1. TypeOK /\ ClaimsInv /\ reply[c] \in Reply
    BY DEF OwnerInv, TypeOK
  <1>2. UNCHANGED <<counter, current, restarts, net>> /\ reply[c].code # "none"
    BY DEF ReceiveReply
  <1>3. /\ reply'[c].code = "none" /\ call'[c] = "none"
        /\ owned'[c] \in Claims(c) \cup {NoGrant}
        /\ \A d \in Client : d # c => /\ call'[d] = call[d] /\ reply'[d] = reply[d]
                                      /\ owned'[d] = owned[d]
    BY <1>1 DEF ReceiveReply, TypeOK, Claims, NoReply
  <1>4. TypeOK'
    <2>1. known' \in [Client -> Id] /\ owned' \in [Client -> Grant]
      <3>1. NoGrant \in Grant /\ reply[c].grant \in Grant /\ reply[c].grant.id \in Id
        BY <1>1 DEF Reply, Grant, NoGrant, Id
      <3> QED BY <1>1, <3>1 DEF ReceiveReply, TypeOK
    <2>2. reply' \in [Client -> Reply] /\ call' \in [Client -> Op \cup {"none"}]
      BY <1>1 DEF ReceiveReply, TypeOK, Reply, Grant, NoReply, NoGrant, Id
    <2> QED BY <1>1, <1>2, <2>1, <2>2 DEF TypeOK
  <1>5. \A d \in Client : Claims(d)' \subseteq Claims(d) \cup {NoGrant}
    BY <1>3 DEF Claims
  <1>6. ClaimsInv'
    <2>1. \A d \in Client : \A i \in 1 .. Len(net[d]) :
            net[d][i].live => d # c
      BY <1>1, <1>2 DEF ClaimsInv
    <2>0. MayBeGranted(NoGrant) /\ NoGrant.id = 0
      BY <1>1 DEF MayBeGranted, NoGrant, TypeOK
    <2>2. \A d \in Client : \A g \in Claims(d)' : MayBeGranted(g)'
      <3>1. \A d \in Client : \A g \in Claims(d)' : MayBeGranted(g)
        BY <1>1, <1>5, <2>0 DEF ClaimsInv
      <3> QED BY <1>2, <3>1 DEF MayBeGranted
    <2>3. \A d, e \in Client : d # e => \A g \in Claims(d)' \cap Claims(e)' : g.id = 0
      BY <1>1, <1>5, <2>0 DEF ClaimsInv
    <2> QED BY <1>1, <1>2, <1>3, <2>1, <2>2, <2>3 DEF ClaimsInv
  <1> QED BY <1>4, <1>6 DEF OwnerInv

(* A client that gives up claims no more than before. *)
LEMMA TimeoutStep ==
  ASSUME OwnerInv, NEW c \in Client, Timeout(c)
  PROVE  OwnerInv'
  <1> DEFINE new == [i \in 1 .. Len(net[c]) |-> [net[c][i] EXCEPT !.live = FALSE]]
  <1>1. TypeOK /\ ClaimsInv /\ Len(net[c]) \in Nat
        /\ \A i \in 1 .. Len(net[c]) : net[c][i] \in Request
    BY NetTypes DEF OwnerInv
  <1>2. UNCHANGED <<counter, current, restarts, known, owned>>
    BY DEF Timeout
  <1>3. /\ reply'[c].code = "none" /\ call'[c] = "none" /\ net'[c] = new
        /\ net' = [net EXCEPT ![c] = new]
        /\ \A d \in Client : d # c => /\ call'[d] = call[d] /\ reply'[d] = reply[d]
                                      /\ net'[d] = net[d]
    BY <1>1 DEF Timeout, TypeOK, NoReply
  <1>4. new \in Seq(Request) /\ Len(new) = Len(net[c]) /\ \A i \in 1 .. Len(net[c]) : ~new[i].live
    <2>1. \A i \in 1 .. Len(net[c]) : new[i] \in Request /\ ~new[i].live
      BY <1>1, UnwaitedType DEF Request
    <2>2. new \in [1 .. Len(net[c]) -> Request]
      BY <2>1
    <2>3. Len(new) = Len(net[c])
      BY <1>1
    <2> HIDE DEF new
    <2> QED BY <1>1, <2>1, <2>2, <2>3, SeqDef
  <1> HIDE DEF new
  <1>5. TypeOK'
    <2>1. net' \in [Client -> Seq(Request)]
      BY <1>1, <1>3, <1>4 DEF TypeOK
    <2>2. reply' \in [Client -> Reply] /\ call' \in [Client -> Op \cup {"none"}]
      BY <1>1 DEF Timeout, TypeOK, Reply, Grant, NoReply, NoGrant, Id
    <2> QED BY <1>1, <1>2, <2>1, <2>2 DEF TypeOK
  <1>6. \A d \in Client : Claims(d)' \subseteq Claims(d)
    BY <1>2, <1>3 DEF Claims
  <1>7. ClaimsInv'
    <2>0. \A d \in Client : \A g \in Claims(d)' : MayBeGranted(g)'
      BY <1>1, <1>2, <1>6 DEF ClaimsInv, MayBeGranted
    <2>1. \A d, e \in Client : d # e => \A g \in Claims(d)' \cap Claims(e)' : g.id = 0
      BY <1>1, <1>6 DEF ClaimsInv
    <2>2. \A d \in Client : call'[d] = "none" => reply'[d].code = "none"
      BY <1>1, <1>3 DEF ClaimsInv
    <2>3. ASSUME NEW d \in Client, NEW i \in 1 .. Len(net'[d]), net'[d][i].live
          PROVE  i = Len(net'[d]) /\ call'[d] = net'[d][i].op /\ reply'[d].code = "none"
      <3>1. d # c
        BY <1>3, <1>4, <2>3
      <3> QED BY <1>1, <1>3, <2>3, <3>1 DEF ClaimsInv
    <2> QED BY <2>0, <2>1, <2>2, <2>3 DEF ClaimsInv
  <1> QED BY <1>5, <1>7 DEF OwnerInv

(* Any answer that grants nothing, or grants an id above the counter, keeps *)
(* the claims apart.                                                        *)
LEMMA AnswerStep ==
  ASSUME OwnerInv, NEW c \in Client, NEW code \in Code, NEW id \in Id,
         net[c] # <<>>, Answer(c, code, id),
         counter' \in Nat, current' \in 0 .. counter', counter <= counter',
         Head(net[c]).op = "request" /\ code = "success" =>
            counter < id /\ id <= counter'
  PROVE  OwnerInv'
  <1> DEFINE q == Head(net[c])
             r == [code |-> code, grant |-> [run |-> restarts, id |-> id]]
  <1>0. r \in Reply /\ r.code = code /\ r.grant \in Grant /\ code # "none"
        /\ r.grant.run = restarts /\ r.grant.id = id
    BY DEF OwnerInv, TypeOK, Reply, Grant, Code, Id
  <1>1. /\ TypeOK /\ ClaimsInv /\ net[c] \in Seq(Request) /\ Len(net[c]) \in Nat
        /\ q = net[c][1] /\ q \in Request /\ 1 \in 1 .. Len(net[c])
        /\ Tail(net[c]) \in Seq(Request)
        /\ Len(Tail(net[c])) = Len(net[c]) - 1
        /\ \A i \in 1 .. Len(Tail(net[c])) : i + 1 \in 1 .. Len(net[c])
        /\ \A i \in 1 .. Len(Tail(net[c])) : Tail(net[c])[i] = net[c][i + 1]
    BY NetTypes DEF OwnerInv
  <1>2. /\ net' = [net EXCEPT ![c] = Tail(@)]
        /\ reply' = IF q.live THEN [reply EXCEPT ![c] = r] ELSE reply
        /\ UNCHANGED <<restarts, call, known, owned>>
    BY DEF Answer
  <1> HIDE DEF r
  <1>3. /\ net'[c] = Tail(net[c])
        /\ \A d \in Client : d # c => net'[d] = net[d] /\ reply'[d] = reply[d]
        /\ q.live => reply'[c] = r /\ call[c] = q.op /\ Len(net[c]) = 1
        /\ ~q.live => reply'[c] = reply[c]
    <2>1. q.live => call[c] = q.op /\ Len(net[c]) = 1
      BY <1>1 DEF ClaimsInv
    <2> QED BY <1>1, <1>2, <2>1 DEF TypeOK
  <1>4. TypeOK'
    <2>1. net' \in [Client -> Seq(Request)]
      BY <1>1, <1>2 DEF TypeOK
    <2>2. reply' \in [Client -> Reply]
      BY <1>0, <1>1, <1>2 DEF TypeOK
    <2> QED BY <1>1, <1>2, <2>1, <2>2 DEF TypeOK
  <1>5. /\ \A d \in Client : d # c => Claims(d)' = Claims(d)
        /\ \A g \in Claims(c)' :
             g \in Claims(c) \/ (g.run = restarts /\ counter < g.id /\ g.id <= counter')
    <2>1. \A d \in Client : d # c => Claims(d)' = Claims(d)
      BY <1>2, <1>3 DEF Claims
    <2>2. CASE q.live
      BY <1>0, <1>2, <1>3, <2>2 DEF Claims
    <2>3. CASE ~q.live
      BY <1>2, <1>3, <2>3 DEF Claims
    <2> QED BY <2>1, <2>2, <2>3
  <1>6. ClaimsInv'
    <2>0. \A d \in Client : \A g \in Claims(d) :
            /\ g.run \in Nat /\ g.id \in Nat /\ g.run <= restarts
            /\ g.run = restarts => g.id <= counter
      BY <1>1, ClaimsType DEF Grant, Id, ClaimsInv, MayBeGranted
    <2>1. \A d \in Client : \A g \in Claims(d)' : MayBeGranted(g)'
      <3>1. counter \in Nat /\ restarts \in Nat /\ restarts' = restarts
        BY <1>1, <1>2 DEF TypeOK
      <3>2. ASSUME NEW d \in Client, NEW g \in Claims(d)'
            PROVE  g.run <= restarts /\ (g.run = restarts => g.id <= counter')
        <4>1. CASE g \in Claims(d)
          BY <2>0, <3>1, <4>1
        <4>2. CASE g \notin Claims(d)
          BY <1>5, <3>1, <3>2, <4>2
        <4> QED BY <4>1, <4>2
      <3> QED BY <3>1, <3>2 DEF MayBeGranted
    <2>2. ASSUME NEW d \in Client, d # c, NEW g \in Claims(d), g \in Claims(c)'
          PROVE  g.id = 0
      <3>1. g \in Claims(c)
        <4>1. counter \in Nat /\ g.id \in Nat /\ (g.run = restarts => g.id <= counter)
          BY <1>1, <2>0, <2>2 DEF TypeOK
        <4> QED BY <1>5, <2>2, <4>1
      <3> QED BY <1>1, <2>2, <3>1 DEF ClaimsInv
    <2>3. \A d, e \in Client : d # e => \A g \in Claims(d)' \cap Claims(e)' : g.id = 0
      <3>1. SUFFICES ASSUME NEW d \in Client, NEW e \in Client, d # e,
                            NEW g \in Claims(d)', g \in Claims(e)'
                     PROVE  g.id = 0
        OBVIOUS
      <3>2. CASE d # c /\ e # c
        BY <1>1, <1>5, <3>1, <3>2 DEF ClaimsInv
      <3>3. CASE d = c
        BY <1>5, <2>2, <3>1, <3>3
      <3>4. CASE e = c
        BY <1>5, <2>2, <3>1, <3>4
      <3> QED BY <3>2, <3>3, <3>4
    <2>4. \A d \in Client : call'[d] = "none" => reply'[d].code = "none"
      <3>1. q.op # "none"
        BY <1>1 DEF Request, Op
      <3> QED BY <1>0, <1>1, <1>2, <1>3, <3>1 DEF ClaimsInv
    <2>5. ASSUME NEW d \in Client, NEW i \in 1 .. Len(net'[d]), net'[d][i].live
          PROVE  i = Len(net'[d]) /\ call'[d] = net'[d][i].op /\ reply'[d].code = "none"
      <3>1. CASE d # c
        BY <1>1, <1>2, <1>3, <2>5, <3>1 DEF ClaimsInv
      <3>2. CASE d = c
        <4>1. i + 1 \in 1 .. Len(net[c]) /\ net[c][i + 1].live /\ net'[c][i] = net[c][i + 1]
          BY <1>1, <1>3, <2>5, <3>2
        <4>2. i + 1 = Len(net[c]) /\ call[c] = net[c][i + 1].op /\ reply[c].code = "none"
          BY <1>1, <4>1 DEF ClaimsInv
        <4>3. ~q.live
          BY <1>1, <1>3, <4>1, <3>2
        <4>4. Len(net'[c]) = Len(net[c]) - 1
          BY <1>1, <1>3
        <4>5. i = Len(net'[c])
          BY <1>1, <2>5, <3>2, <4>2, <4>4
        <4>6. call'[c] = net'[c][i].op /\ reply'[c].code = "none"
          BY <1>2, <1>3, <4>1, <4>2, <4>3
        <4> QED BY <3>2, <4>5, <4>6
      <3> QED BY <3>1, <3>2
    <2> QED BY <2>1, <2>3, <2>4, <2>5 DEF ClaimsInv
  <1> QED BY <1>4, <1>6 DEF OwnerInv

(* A restarted daemon has granted nothing yet in its new run. *)
LEMMA RestartStep ==
  ASSUME OwnerInv, Restart
  PROVE  OwnerInv'
  <1>1. TypeOK /\ ClaimsInv
    BY DEF OwnerInv
  <1>2. /\ restarts \in Nat /\ restarts < MaxRestarts /\ restarts' = restarts + 1
        /\ counter' = 0 /\ current' = 0 /\ net' = [c \in Client |-> <<>>]
        /\ UNCHANGED <<call, reply, known, owned>>
    BY <1>1 DEF Restart, TypeOK
  <1>3. TypeOK'
    BY <1>1, <1>2, SessionAssumption DEF TypeOK
  <1>4. \A c \in Client : Claims(c)' = Claims(c)
    BY <1>2 DEF Claims
  <1>5. ClaimsInv'
    <2>1. ASSUME NEW c \in Client, NEW g \in Claims(c)'
          PROVE  MayBeGranted(g)'
      <3>1. g \in Grant /\ g.run <= restarts
        BY <1>1, <1>4, <2>1, ClaimsType DEF ClaimsInv, MayBeGranted
      <3>2. g.run \in Nat
        BY <3>1 DEF Grant
      <3> QED BY <1>2, <3>1, <3>2 DEF MayBeGranted
    <2>2. \A c, d \in Client : c # d => \A g \in Claims(c)' \cap Claims(d)' : g.id = 0
      BY <1>1, <1>4 DEF ClaimsInv
    <2>3. \A c \in Client : Len(net'[c]) = 0
      BY <1>2
    <2>4. \A c \in Client : call'[c] = "none" => reply'[c].code = "none"
      BY <1>1, <1>2 DEF ClaimsInv
    <2> QED BY <2>1, <2>2, <2>3, <2>4 DEF ClaimsInv
  <1> QED BY <1>3, <1>5 DEF OwnerInv

(* One step of a client or of the daemon. *)
LEMMA OwnerStep ==
  ASSUME OwnerInv, [Next]_vars
  PROVE  OwnerInv'
  <1>1. TypeOK /\ counter \in Nat /\ current \in 0 .. counter
    BY DEF OwnerInv, TypeOK
  <1>2. {"success", "invalid_state", "invalid_param"} \subseteq Code /\ 0 \in Id
    BY DEF Code, Id
  <1>3. ASSUME NEW c \in Client, request_session_id(c)
        PROVE  OwnerInv'
    <2>1. CASE current = 0
      <3>1. /\ net[c] # <<>> /\ counter' = counter + 1 /\ current' = counter + 1
            /\ Answer(c, "success", counter + 1)
        BY <1>3, <2>1 DEF request_session_id, IsNext
      <3>2. /\ counter' \in Nat /\ current' \in 0 .. counter' /\ counter + 1 \in Id
            /\ counter <= counter' /\ counter < counter + 1 /\ counter + 1 <= counter'
        BY <1>1, <3>1 DEF Id
      <3> QED BY <1>2, <3>1, <3>2, AnswerStep
    <2>2. CASE current # 0
      <3>1. /\ net[c] # <<>> /\ UNCHANGED <<counter, current>>
            /\ Answer(c, "invalid_state", 0)
        BY <1>3, <2>2 DEF request_session_id, IsNext
      <3>2. counter <= counter' /\ counter' \in Nat /\ current' \in 0 .. counter'
        BY <1>1, <3>1
      <3> QED BY <1>2, <3>1, <3>2, AnswerStep
    <2> QED BY <2>1, <2>2
  <1>4. ASSUME NEW c \in Client, get_session_id(c)
        PROVE  OwnerInv'
    <2>1. /\ net[c] # <<>> /\ Head(net[c]).op = "get" /\ UNCHANGED <<counter, current>>
          /\ Answer(c, "success", current)
      BY <1>4 DEF get_session_id, IsNext
    <2>2. /\ counter <= counter' /\ counter' \in Nat /\ current' \in 0 .. counter'
          /\ current \in Id
      BY <1>1, <2>1 DEF Id
    <2> QED BY <1>2, <2>1, <2>2, AnswerStep
  <1>5. ASSUME NEW c \in Client, end_session(c)
        PROVE  OwnerInv'
    <2>1. PICK code \in Code :
             /\ net[c] # <<>> /\ Head(net[c]).op \in {"end", "end_without_id"}
             /\ counter' = counter /\ current' \in {0, current}
             /\ Answer(c, code, 0)
      BY <1>5 DEF end_session, IsNext, Code
    <2>2. counter' \in Nat /\ current' \in 0 .. counter' /\ counter <= counter'
      BY <1>1, <2>1
    <2> QED BY <1>2, <2>1, <2>2, AnswerStep
  <1>6. CASE UNCHANGED vars
    <2>1. TypeOK'
      BY <1>1, <1>6 DEF vars, TypeOK
    <2>2. \A c \in Client : Claims(c)' = Claims(c)
      BY <1>6 DEF vars, Claims
    <2>3. \A c \in Client : \A g \in Claims(c)' : MayBeGranted(g)'
      BY <1>6, <2>2 DEF vars, OwnerInv, ClaimsInv, MayBeGranted
    <2>4. ClaimsInv'
      BY <1>6, <2>2, <2>3 DEF vars, OwnerInv, ClaimsInv
    <2> QED BY <2>1, <2>4 DEF OwnerInv
  <1> QED BY <1>3, <1>4, <1>5, <1>6, InvokeStep, ReceiveReplyStep, TimeoutStep, RestartStep
          DEF Next

(* The claims of the clients stay apart (OwnerInv), over timeouts, late     *)
(* answers and restarts of the daemon.                                      *)
THEOREM OwnersInvariant == Spec => []OwnerInv
  <1>1. OwnerInv /\ [Next]_vars => OwnerInv'
    BY OwnerStep
  <1> QED BY <1>1, InitOwner, PTL DEF Spec

(* No two clients hold the active session as their own, whatever requests   *)
(* were lost, late or repeated and however often the daemon was restarted   *)
(* (request_session_id, end_session).                                       *)
THEOREM SessionHasOneOwner == Spec => []OneOwner
  <1>1. OwnerInv => OneOwner
    <2>1. SUFFICES ASSUME OwnerInv, NEW c \in Client, NEW d \in Client, current # 0,
                          owned[c] = Active, owned[d] = Active
                   PROVE  c = d
      BY DEF OneOwner
    <2>2. Active \in Claims(c) \cap Claims(d) /\ Active.id # 0
      BY <2>1 DEF Claims, Active
    <2> QED BY <2>1, <2>2 DEF OwnerInv, ClaimsInv
  <1> QED BY <1>1, OwnersInvariant, PTL

=============================================================================
