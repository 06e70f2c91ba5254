------------------------- MODULE ActionsStore_proofs -------------------------
(***************************************************************************)
(* Proofs about ActionsStore for every value of its constants: the        *)
(* handlers' steps map to steps of the upsert store (AtomicStore) or to    *)
(* stuttering steps.                                                       *)
(***************************************************************************)
EXTENDS ActionsStore, TLAPS

(* TypeOK strengthened to be inductive, and enough to map steps:           *)
(*   - a handler has not answered until it is done;                        *)
(*   - a handler between its two calls serves a PUT or a DELETE of an id   *)
(*     the database allocated;                                             *)
(*   - every id that holds an action was allocated.                        *)
SInv ==
    /\ TypeOK
    /\ \A r \in Reqs : pc[r] # "done" => resp[r] = NoReply
    /\ \A r \in Reqs : pc[r] = "write" => req[r].op \in {"put", "delete"} /\ req[r].id \in used
    /\ \A i \in Ids : Present(db, i) => i \in used

(* The fields a request of each kind carries.                              *)
LEMMA RequestFields ==
    ASSUME NEW q \in Requests
    PROVE  /\ q.op \in {"get_one", "get_all", "post", "put", "delete"}
           /\ q.op \in {"get_one", "put", "delete"} => q.id \in Ids
           /\ q.op \in {"post", "put"} => q.rec \in Records /\ q.valid \in BOOLEAN
           /\ q.op = "get_all" => q.name \in Names \cup {"any"}
BY DEF Requests

(* Every status a handler answers with is a reply, and not NoReply.        *)
LEMMA ReplyType ==
    ASSUME NEW c \in Codes
    PROVE  Reply(c) \in Replies /\ Reply(c) # NoReply
BY DEF Reply, NoReply, Replies, Codes

LEMMA RecordReplyType ==
    ASSUME NEW c \in Codes, NEW x \in Records
    PROVE  RecordReply(c, x) \in Replies /\ RecordReply(c, x) # NoReply
BY DEF RecordReply, NoReply, Replies, Codes

(* The checks of post() and put() end in 0 or in an error status.          *)
LEMMA ErrorCodes ==
    ASSUME NEW d, NEW q
    PROVE  /\ PostError(d, q) \in Codes \cup {0}
           /\ PutError(d, q) \in Codes \cup {0}
BY DEF PostError, PutError, Codes

(* The replies of the two readers are replies.                             *)
LEMMA ReadReplies ==
    ASSUME TypeOK, NEW r \in Reqs
    PROVE  /\ req[r].op = "get_one" => GetOneReply(db, req[r]) \in Replies \ {NoReply}
           /\ req[r].op = "get_all" => GetAllReply(db, req[r]) \in Replies \ {NoReply}
<1>1. req[r] \in Requests
  BY DEF TypeOK
<1>2. req[r].op = "get_one" => GetOneReply(db, req[r]) \in Replies \ {NoReply}
  <2> SUFFICES ASSUME req[r].op = "get_one" PROVE GetOneReply(db, req[r]) \in Replies \ {NoReply}
    OBVIOUS
  <2>1. req[r].id \in Ids
    BY <1>1, RequestFields
  <2>2. Present(db, req[r].id) => db[req[r].id] \in Records
    BY <2>1 DEF TypeOK, Present
  <2>. QED
    BY <2>2, ReplyType, RecordReplyType DEF GetOneReply, Codes
<1>3. req[r].op = "get_all" => GetAllReply(db, req[r]) \in Replies \ {NoReply}
  <2>1. \A i \in Ids : Present(db, i) => db[i] \in Records
    BY DEF TypeOK, Present
  <2>. QED
    BY <2>1 DEF GetAllReply, NoReply, Replies, Codes
<1>. QED
  BY <1>2, <1>3

LEMMA InitSInv == Init => SInv
<1> SUFFICES ASSUME Init PROVE SInv
  OBVIOUS
<1>1. NoReply \in Replies
  BY StoreAssumption DEF NoReply, Replies
<1>. QED
  BY <1>1, StoreAssumption DEF Init, SInv, TypeOK, Present

(* The store's data operators, seen through the instance, are the         *)
(* handlers' own: AtomicStore and ActionsStore extend the same StoreData.  *)
LEMMA SameData ==
    ASSUME NEW d, NEW q, NEW c, NEW x
    PROVE  /\ AS!GetOneReply(d, q) = GetOneReply(d, q)
           /\ AS!GetAllReply(d, q) = GetAllReply(d, q)
           /\ AS!PostError(d, q) = PostError(d, q)
           /\ AS!PutError(d, q) = PutError(d, q)
           /\ AS!Present(d, x) = Present(d, x)
           /\ AS!Reply(c) = Reply(c)
           /\ AS!RecordReply(c, x) = RecordReply(c, x)
           /\ AS!NoReply = NoReply
           /\ AS!Missing = Missing
           /\ AS!Requests = Requests
BY DEF AS!Requests, Requests, AS!Records, Records, AS!GetOneReply, GetOneReply, AS!GetAllReply, GetAllReply, AS!PostError, PostError,
       AS!PutError, PutError, AS!Present, Present, AS!Reply, Reply, AS!RecordReply, RecordReply,
       AS!NoReply, NoReply, AS!Missing, Missing, AS!NameTaken, NameTaken,
       AS!IsValidContentPack, IsValidContentPack, AS!Reply, Reply

(* A reply sent by a handler that had not answered.                        *)
LEMMA RespondSInv ==
    ASSUME SInv, NEW r \in Reqs, NEW rep \in Replies, Respond(r, rep),
           UNCHANGED <<db, used, req>>
    PROVE  SInv'
BY DEF SInv, TypeOK, Respond, Present

(* get_one: one read, answered as the atomic store answers.                *)
LEMMA GetOneStep ==
    ASSUME SInv, NEW r \in Reqs, GetOne(r)
    PROVE  SInv' /\ AS!UpsertNext
<1>1. GetOneReply(db, req[r]) \in Replies \ {NoReply}
  BY ReadReplies DEF SInv, GetOne
<1>2. SInv'
  BY <1>1, RespondSInv DEF GetOne
<1>3. resp[r] = NoReply
  BY DEF SInv, GetOne
<1>4. AS!AGetOne(r)
  BY SameData DEF GetOne, Respond, AS!AGetOne, AS!Answer
<1>. QED
  BY <1>2, <1>3, <1>4, SameData DEF AS!UpsertNext, AS!Serve

(* get_all: likewise.                                                      *)
LEMMA GetAllStep ==
    ASSUME SInv, NEW r \in Reqs, GetAll(r)
    PROVE  SInv' /\ AS!UpsertNext
<1>1. GetAllReply(db, req[r]) \in Replies \ {NoReply}
  BY ReadReplies DEF SInv, GetAll
<1>2. SInv'
  BY <1>1, RespondSInv DEF GetAll
<1>3. resp[r] = NoReply
  BY DEF SInv, GetAll
<1>4. AS!AGetAll(r)
  BY SameData DEF GetAll, Respond, AS!AGetAll, AS!Answer
<1>. QED
  BY <1>2, <1>3, <1>4, SameData DEF AS!UpsertNext, AS!Serve

(* post: the checks and one save under a fresh id, as the store's post.    *)
LEMMA PostStep ==
    ASSUME SInv, NEW r \in Reqs, Post(r)
    PROVE  SInv' /\ AS!UpsertNext
<1>1. /\ req[r] \in Requests /\ req[r].op = "post"
      /\ req[r].rec \in Records /\ resp[r] = NoReply
  BY RequestFields DEF SInv, TypeOK, Post
<1>2. AS!APost(r)
  BY SameData DEF Post, Respond, AS!APost, AS!Answer
<1>3. SInv'
  <2>1. CASE PostError(db, req[r]) # 0
    <3>1. Reply(PostError(db, req[r])) \in Replies
      BY <2>1, ErrorCodes, ReplyType
    <3>. QED
      BY <2>1, <3>1, RespondSInv DEF Post
  <2>2. CASE PostError(db, req[r]) = 0
    <3>1. PICK i \in Ids \ used :
             /\ db' = [db EXCEPT ![i] = req[r].rec]
             /\ used' = used \cup {i}
             /\ Respond(r, RecordReply(201, req[r].rec))
      BY <2>2 DEF Post
    <3>2. RecordReply(201, req[r].rec) \in Replies
      BY <1>1, RecordReplyType DEF Codes
    <3>3. TypeOK'
      BY <1>1, <3>1, <3>2 DEF SInv, TypeOK, Respond, Post
    <3>. QED
      BY <1>1, <3>1, <3>3, StoreAssumption DEF SInv, TypeOK, Respond, Post, Present
  <2>. QED
    BY <2>1, <2>2
<1>. QED
  BY <1>1, <1>2, <1>3, SameData DEF AS!UpsertNext, AS!Serve

(* The first call of put: a stutter of the store when the id holds an    *)
(* action and the body converts, the store's 404 when the id holds none,  *)
(* and the store's 400 (its put with a body that fails) otherwise.         *)
LEMMA PutReadStep ==
    ASSUME SInv, NEW r \in Reqs, PutRead(r)
    PROVE  SInv' /\ [AS!UpsertNext]_AS!avars
<1>1. /\ req[r] \in Requests /\ req[r].op = "put" /\ resp[r] = NoReply
  BY DEF SInv, TypeOK, PutRead
<1>2. CASE Present(db, req[r].id) /\ req[r].valid
  <2>1. SInv'
    BY <1>1, <1>2, RequestFields DEF SInv, TypeOK, PutRead
  <2>2. UNCHANGED AS!avars
    BY <1>2 DEF PutRead, AS!avars
  <2>. QED
    BY <2>1, <2>2
<1>3. CASE ~Present(db, req[r].id)
  <2>1. Respond(r, Reply(404)) /\ UNCHANGED <<db, used, req>>
    BY <1>3 DEF PutRead
  <2>2. SInv'
    BY <2>1, ReplyType, RespondSInv DEF Codes
  <2>3. AS!APut(r)
    BY <1>1, <1>3, <2>1, SameData DEF Respond, AS!APut, AS!Answer
  <2>. QED
    BY <1>1, <2>2, <2>3, SameData DEF AS!UpsertNext, AS!Serve
<1>4. CASE Present(db, req[r].id) /\ ~req[r].valid
  <2>1. Respond(r, Reply(400)) /\ UNCHANGED <<db, used, req>>
    BY <1>4 DEF PutRead
  <2>2. SInv'
    BY <2>1, ReplyType, RespondSInv DEF Codes
  <2>3. PutError(db, req[r]) = 400
    BY <1>4 DEF PutError
  <2>4. AS!AWrite(r) /\ UNCHANGED <<used, req>>
    <3>1. AS!PutError(db, req[r]) = 400
      BY <2>3, SameData
    <3>2. AS!Answer(r, AS!Reply(400)) /\ UNCHANGED db
      BY <2>1, SameData DEF Respond, AS!Answer
    <3>. QED
      BY <2>1, <3>1, <3>2 DEF AS!AWrite
  <2>5. AS!APut(r)
    BY <1>1, <1>4, <2>4, SameData DEF AS!APut
  <2>. QED
    BY <1>1, <2>2, <2>5, SameData DEF AS!UpsertNext, AS!Serve
<1>. QED
  BY <1>2, <1>3, <1>4

LEMMA DeleteReadStep ==
    ASSUME SInv, NEW r \in Reqs, DeleteRead(r)
    PROVE  SInv' /\ [AS!UpsertNext]_AS!avars
<1>1. /\ req[r] \in Requests /\ req[r].op = "delete" /\ resp[r] = NoReply
  BY DEF SInv, TypeOK, DeleteRead
<1>2. CASE Present(db, req[r].id)
  <2>1. SInv'
    BY <1>1, <1>2, RequestFields DEF SInv, TypeOK, DeleteRead
  <2>2. UNCHANGED AS!avars
    BY <1>2 DEF DeleteRead, AS!avars
  <2>. QED
    BY <2>1, <2>2
<1>3. CASE ~Present(db, req[r].id)
  <2>1. SInv'
    BY <1>3, ReplyType, RespondSInv DEF DeleteRead, Codes
  <2>2. AS!ADelete(r)
    BY <1>1, <1>3, SameData DEF DeleteRead, Respond, AS!ADelete, AS!Answer
  <2>. QED
    BY <1>1, <2>1, <2>2, SameData DEF AS!UpsertNext, AS!Serve
<1>. QED
  BY <1>2, <1>3

(* The write of a put, whether the id still holds an action (the store's  *)
(* put) or was deleted meanwhile (the store's late put).                   *)
LEMMA PutWriteStep ==
    ASSUME SInv, NEW r \in Reqs, PutWrite(r)
    PROVE  SInv' /\ AS!UpsertNext
<1>1. /\ req[r] \in Requests /\ req[r].op = "put" /\ resp[r] = NoReply
      /\ req[r].id \in used /\ req[r].id \in Ids /\ req[r].rec \in Records
  BY RequestFields DEF SInv, TypeOK, PutWrite
<1>2. AS!AWrite(r)
  BY SameData DEF PutWrite, Respond, AS!AWrite, AS!Answer
<1>3. SInv'
  <2>1. CASE PutError(db, req[r]) # 0
    <3>1. Reply(PutError(db, req[r])) \in Replies
      BY <2>1, ErrorCodes, ReplyType
    <3>. QED
      BY <2>1, <3>1, RespondSInv DEF PutWrite
  <2>2. CASE PutError(db, req[r]) = 0
    <3>1. RecordReply(200, req[r].rec) \in Replies
      BY <1>1, RecordReplyType DEF Codes
    <3>2. TypeOK'
      BY <1>1, <2>2, <3>1 DEF SInv, TypeOK, Respond, PutWrite
    <3>. QED
      BY <1>1, <2>2, <3>2 DEF SInv, TypeOK, Respond, PutWrite, Present
  <2>. QED
    BY <2>1, <2>2
<1>4. CASE Present(db, req[r].id)
  <2>1. AS!APut(r)
    BY <1>1, <1>2, <1>4, SameData DEF PutWrite, AS!APut
  <2>. QED
    BY <1>1, <1>3, <2>1, SameData DEF AS!UpsertNext, AS!Serve
<1>5. CASE ~Present(db, req[r].id)
  <2>1. AS!APutLate(r)
    BY <1>1, <1>2, <1>5, SameData DEF PutWrite, AS!APutLate
  <2>. QED
    BY <1>1, <1>3, <2>1, SameData DEF AS!UpsertNext
<1>. QED
  BY <1>4, <1>5

(* The delete of a delete: the store's delete if the id still holds an    *)
(* action, else the store's late delete, which leaves the store as it is.  *)
LEMMA DeleteWriteStep ==
    ASSUME SInv, NEW r \in Reqs, DeleteWrite(r)
    PROVE  SInv' /\ AS!UpsertNext
<1>1. /\ req[r] \in Requests /\ req[r].op = "delete" /\ resp[r] = NoReply
      /\ req[r].id \in used /\ req[r].id \in Ids
  BY RequestFields DEF SInv, TypeOK, DeleteWrite
<1>2. SInv'
  <2>1. Reply(204) \in Replies
    BY ReplyType DEF Codes
  <2>2. TypeOK'
    BY <1>1, <2>1 DEF SInv, TypeOK, Respond, DeleteWrite
  <2>. QED
    BY <1>1, <2>2 DEF SInv, TypeOK, Respond, DeleteWrite, Present
<1>3. CASE Present(db, req[r].id)
  <2>1. AS!ADelete(r)
    BY <1>1, <1>3, SameData DEF DeleteWrite, Respond, AS!ADelete, AS!Answer
  <2>. QED
    BY <1>1, <1>2, <2>1, SameData DEF AS!UpsertNext, AS!Serve
<1>4. CASE ~Present(db, req[r].id)
  <2>1. db' = db
    BY <1>1, <1>4 DEF SInv, TypeOK, DeleteWrite, Present
  <2>2. AS!ADeleteLate(r)
    BY <1>1, <1>4, <2>1, SameData DEF DeleteWrite, Respond, AS!ADeleteLate, AS!Answer
  <2>. QED
    BY <1>1, <1>2, <2>2, SameData DEF AS!UpsertNext
<1>. QED
  BY <1>3, <1>4

(* Every step of the handlers keeps SInv and is a step of the upsert store *)
(* or leaves the store's variables as they are.                            *)
LEMMA NextStep ==
    ASSUME SInv, [Next]_vars
    PROVE  SInv' /\ [AS!UpsertNext]_AS!avars
<1>1. CASE UNCHANGED vars
  BY <1>1 DEF SInv, TypeOK, Present, vars, AS!avars
<1>2. CASE Next
  <2>1. PICK r \in Reqs : Handle(r)
    BY <1>2 DEF Next
  <2>. QED
    BY <2>1, GetOneStep, GetAllStep, PostStep, PutReadStep, PutWriteStep,
       DeleteReadStep, DeleteWriteStep DEF Handle
<1>. QED
  BY <1>1, <1>2

(* The handlers' initial states are the upsert store's.                    *)
LEMMA InitRefines == Init => AS!AInit
BY SameData DEF Init, AS!AInit

(* put() and delete() of ActionsController, each a read and a later write, *)
(* together with get_one, get_all and post, implement the upsert store:    *)
(* every run of the handlers is, step by step, a run of the store in which *)
(* each request takes effect atomically (its safety part; that every       *)
(* request is answered is checked by TLC).                                 *)
THEOREM RefinesUpsertStore == Spec => AS!AInit /\ [][AS!UpsertNext]_AS!avars
<1>1. Init => SInv
  BY InitSInv
<1>2. SInv /\ [Next]_vars => SInv' /\ [AS!UpsertNext]_AS!avars
  BY NextStep
<1>. QED
  BY <1>1, <1>2, InitRefines, PTL DEF Spec

(* The handlers keep the store well typed, and an id holds an action only  *)
(* if the database allocated it.                                           *)
THEOREM StoreTypeCorrect == Spec => []TypeOK
<1>1. SInv /\ [Next]_vars => SInv'
  BY NextStep
<1>. QED
  BY <1>1, InitSInv, PTL DEF Spec, SInv
====
