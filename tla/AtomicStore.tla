---------------------------- MODULE AtomicStore -----------------------------
(***************************************************************************)
(* What a REST store of actions promises its clients: every request takes  *)
(* effect in one atomic step, and its reply describes the store at that   *)
(* step.                                                                   *)
(*                                                                         *)
(* StrictSpec is the linearizable store.  A PUT or DELETE of an id that   *)
(* holds no action answers 404 and changes nothing.                       *)
(*                                                                         *)
(* UpsertSpec also admits two late steps.  A PUT of an id that once held  *)
(* an action writes it back (an upsert).  A DELETE of such an id answers  *)
(* 204.  Every request is eventually answered.                            *)
(***************************************************************************)
EXTENDS StoreData

VARIABLES
    store,      \* id -> action record or Missing
    allocated,  \* the ids that have ever held an action
    req,        \* the request each handler serves
    reply       \* the reply each handler sent, NoReply while pending

avars == <<store, allocated, req, reply>>

AInit ==
    /\ store = Seed
    /\ allocated = {i \in Ids : Seed[i] # Missing}
    /\ req \in [Reqs -> Requests]
    /\ reply = [r \in Reqs |-> NoReply]

Answer(r, rep) == reply' = [reply EXCEPT ![r] = rep]

AGetOne(r) ==
    /\ req[r].op = "get_one"
    /\ Answer(r, GetOneReply(store, req[r]))
    /\ UNCHANGED <<store, allocated, req>>

AGetAll(r) ==
    /\ req[r].op = "get_all"
    /\ Answer(r, GetAllReply(store, req[r]))
    /\ UNCHANGED <<store, allocated, req>>

APost(r) ==
    /\ req[r].op = "post"
    /\ IF PostError(store, req[r]) # 0
         THEN Answer(r, Reply(PostError(store, req[r]))) /\ UNCHANGED <<store, allocated>>
         ELSE \E i \in Ids \ allocated :
                 /\ store' = [store EXCEPT ![i] = req[r].rec]
                 /\ allocated' = allocated \cup {i}
                 /\ Answer(r, RecordReply(201, req[r].rec))
    /\ UNCHANGED req

(* The write of a PUT: the error of its checks, or the new record.         *)
AWrite(r) ==
    IF PutError(store, req[r]) # 0
      THEN Answer(r, Reply(PutError(store, req[r]))) /\ UNCHANGED store
      ELSE /\ store' = [store EXCEPT ![req[r].id] = req[r].rec]
           /\ Answer(r, RecordReply(200, req[r].rec))

APut(r) ==
    /\ req[r].op = "put"
    /\ IF Present(store, req[r].id)
         THEN AWrite(r)
         ELSE Answer(r, Reply(404)) /\ UNCHANGED store
    /\ UNCHANGED <<allocated, req>>

ADelete(r) ==
    /\ req[r].op = "delete"
    /\ IF Present(store, req[r].id)
         THEN store' = [store EXCEPT ![req[r].id] = Missing] /\ Answer(r, Reply(204))
         ELSE Answer(r, Reply(404)) /\ UNCHANGED store
    /\ UNCHANGED <<allocated, req>>

(* The late steps: the id held an action once and holds none now.          *)
APutLate(r) ==
    /\ req[r].op = "put"
    /\ ~Present(store, req[r].id) /\ req[r].id \in allocated
    /\ AWrite(r)
    /\ UNCHANGED <<allocated, req>>

ADeleteLate(r) ==
    /\ req[r].op = "delete"
    /\ ~Present(store, req[r].id) /\ req[r].id \in allocated
    /\ Answer(r, Reply(204))
    /\ UNCHANGED <<store, allocated, req>>

Serve(r) == AGetOne(r) \/ AGetAll(r) \/ APost(r) \/ APut(r) \/ ADelete(r)

StrictNext == \E r \in Reqs : reply[r] = NoReply /\ Serve(r)

UpsertNext ==
    \E r \in Reqs : reply[r] = NoReply /\ (Serve(r) \/ APutLate(r) \/ ADeleteLate(r))

StrictSpec == AInit /\ [][StrictNext]_avars

UpsertSpec == AInit /\ [][UpsertNext]_avars /\ WF_avars(UpsertNext)
====
