---------------------------- MODULE ActionsStore ----------------------------
(***************************************************************************)
(* ActionsController (st2api/controllers/actions.py): the REST handlers    *)
(* for actions.  The API server runs one handler per request and several   *)
(* at once, all against one database.                                      *)
(*                                                                         *)
(* Every database call is one atomic step:                                 *)
(*   - get_one, get_all and post make one call each;                       *)
(*   - put and delete make two: they look the id up (__get_by_id) and      *)
(*     later write (add_or_update) or delete.                              *)
(* Another handler's call can fall between the two.                        *)
(*                                                                         *)
(* The persistence layer (Action.add_or_update and the unique name index) *)
(* is not in this repository.  It is modelled from the calls' contract: a *)
(* save is an upsert by id, and a duplicate name raises NotUniqueError.   *)
(***************************************************************************)
EXTENDS StoreData

VARIABLES
    db,     \* the actions collection: id -> record or Missing
    used,   \* the ids the database has allocated (ObjectIds are not reused)
    req,    \* the request each handler serves
    pc,     \* "start", "write" (put/delete found the id) or "done"
    resp    \* the reply each handler sent

vars == <<db, used, req, pc, resp>>

TypeOK ==
    /\ db \in [Ids -> Records \cup {Missing}]
    /\ used \in SUBSET Ids
    /\ req \in [Reqs -> Requests]
    /\ pc \in [Reqs -> {"start", "write", "done"}]
    /\ resp \in [Reqs -> Replies]

Init ==
    /\ db = Seed
    /\ used = {i \in Ids : Seed[i] # Missing}
    /\ req \in [Reqs -> Requests]
    /\ pc = [r \in Reqs |-> "start"]
    /\ resp = [r \in Reqs |-> NoReply]

Respond(r, rep) ==
    /\ resp' = [resp EXCEPT ![r] = rep]
    /\ pc' = [pc EXCEPT ![r] = "done"]

(* GET /actions/<id>.                                                      *)
GetOne(r) ==
    /\ pc[r] = "start" /\ req[r].op = "get_one"
    /\ Respond(r, GetOneReply(db, req[r]))
    /\ UNCHANGED <<db, used, req>>

(* GET /actions/, all of them or those named `name`.                       *)
GetAll(r) ==
    /\ pc[r] = "start" /\ req[r].op = "get_all"
    /\ Respond(r, GetAllReply(db, req[r]))
    /\ UNCHANGED <<db, used, req>>

(* POST /actions/: runner and pack checks, then one add_or_update that    *)
(* allocates a fresh id.                                                   *)
Post(r) ==
    /\ pc[r] = "start" /\ req[r].op = "post"
    /\ IF PostError(db, req[r]) # 0
         THEN Respond(r, Reply(PostError(db, req[r]))) /\ UNCHANGED <<db, used>>
         ELSE \E i \in Ids \ used :
                 /\ db' = [db EXCEPT ![i] = req[r].rec]
                 /\ used' = used \cup {i}
                 /\ Respond(r, RecordReply(201, req[r].rec))
    /\ UNCHANGED req

(* A put that goes on to the write without looking the id up.             *)
PutReadNoCheck(r) ==
    /\ pc[r] = "start" /\ req[r].op = "put"
    /\ IF req[r].valid
         THEN pc' = [pc EXCEPT ![r] = "write"] /\ UNCHANGED resp
         ELSE Respond(r, Reply(400))
    /\ UNCHANGED <<db, used, req>>

(* PUT /actions/<id>, first call: __get_by_id aborts with 404 if absent.   *)
(* ActionAPI.to_model then converts the body without touching the         *)
(* database; its ValidationError/ValueError is the 400.                    *)
PutRead(r) ==
    /\ pc[r] = "start" /\ req[r].op = "put"
    /\ IF ~Present(db, req[r].id) THEN Respond(r, Reply(404))
       ELSE IF ~req[r].valid THEN Respond(r, Reply(400))
       ELSE pc' = [pc EXCEPT ![r] = "write"] /\ UNCHANGED resp
    /\ UNCHANGED <<db, used, req>>

(* PUT, second call: add_or_update on the id, whatever the store holds    *)
(* there now.  The body is valid here, so PutError is the index's 500 or  *)
(* 0.                                                                      *)
PutWrite(r) ==
    /\ pc[r] = "write" /\ req[r].op = "put"
    /\ IF PutError(db, req[r]) # 0
         THEN Respond(r, Reply(PutError(db, req[r]))) /\ UNCHANGED db
         ELSE /\ db' = [db EXCEPT ![req[r].id] = req[r].rec]
              /\ Respond(r, RecordReply(200, req[r].rec))
    /\ UNCHANGED <<used, req>>

(* DELETE /actions/<id>, first call: __get_by_id.                          *)
DeleteRead(r) ==
    /\ pc[r] = "start" /\ req[r].op = "delete"
    /\ IF Present(db, req[r].id)
         THEN pc' = [pc EXCEPT ![r] = "write"] /\ UNCHANGED resp
         ELSE Respond(r, Reply(404))
    /\ UNCHANGED <<db, used, req>>

(* DELETE, second call: Action.delete of the document read, by its id; it *)
(* does not fail when the document is already gone.                        *)
DeleteWrite(r) ==
    /\ pc[r] = "write" /\ req[r].op = "delete"
    /\ db' = [db EXCEPT ![req[r].id] = Missing]
    /\ Respond(r, Reply(204))
    /\ UNCHANGED <<used, req>>

Handle(r) ==
    \/ GetOne(r) \/ GetAll(r) \/ Post(r)
    \/ PutRead(r) \/ PutWrite(r) \/ DeleteRead(r) \/ DeleteWrite(r)

Next == \E r \in Reqs : Handle(r)

(* A server worker runs the handler it started to completion.             *)
Fairness == \A r \in Reqs : WF_vars(Handle(r))

Spec == Init /\ [][Next]_vars /\ Fairness

-----------------------------------------------------------------------------
AS == INSTANCE AtomicStore WITH store <- db, allocated <- used, reply <- resp

(* The handlers implement the upsert store.  Each request takes effect    *)
(* atomically at its last database call, and every request is answered.   *)
(* A PUT or DELETE only touches an id the database allocated.              *)
ImplementsUpsertStore == AS!UpsertSpec

(* The handlers implement the linearizable store.  A PUT or DELETE that   *)
(* found its id acts as if the id still held an action when it writes     *)
(* (put() at actions.py:154-159, delete() at 181-186).                     *)
Linearizable == AS!StrictSpec

(* Every stored action names a runner type that exists and a content pack *)
(* with an actions/ directory.  post() checks both (actions.py:108-124);  *)
(* put() checks neither.                                                   *)
StoredActionsValid ==
    \A i \in Ids :
        Present(db, i) => db[i].runner \in KnownRunners /\ IsValidContentPack(db[i].pack)
====
