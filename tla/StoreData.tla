----------------------------- MODULE StoreData ------------------------------
(***************************************************************************)
(* The data the action store's REST handlers (st2api/controllers/         *)
(* actions.py, ActionsController) work on: action records keyed by id, the *)
(* request bodies the handlers receive, the replies they send, and the     *)
(* checks a request goes through before it writes.  Shared by the handler  *)
(* model (ActionsStore) and the atomic store it is compared with           *)
(* (AtomicStore).                                                          *)
(***************************************************************************)
EXTENDS Naturals, FiniteSets

CONSTANTS
    Ids,            \* the ids the database can allocate
    Seed,           \* the store's contents when the requests arrive
    Names,          \* action names
    Runners,        \* runner type names a request may give
    KnownRunners,   \* the runner types get_runnertype_by_name finds
    Packs,          \* content pack names ("default" when a body has none)
    ValidPacks,     \* the packs with an actions/ directory on disk
    Reqs            \* the request handlers running concurrently

(* An action record, as far as the handlers read it.                       *)
Records == [name : Names, runner : Runners, pack : Packs]
Missing == [name |-> "-", runner |-> "-", pack |-> "-"]

ASSUME StoreAssumption ==
    /\ IsFiniteSet(Ids)
    /\ Seed \in [Ids -> Records \cup {Missing}]
    /\ \A i, j \in Ids : (i # j /\ Seed[i] # Missing) => Seed[i].name # Seed[j].name
    /\ KnownRunners \subseteq Runners
    /\ ValidPacks \subseteq Packs
    /\ Missing \notin Records

(* The body of a request.  `valid` is whether ActionAPI.to_model and the  *)
(* model's validation accept the body.                                     *)
Requests ==
    [op : {"get_one"}, id : Ids] \cup
    [op : {"get_all"}, name : Names \cup {"any"}] \cup
    [op : {"post"}, rec : Records, valid : BOOLEAN] \cup
    [op : {"put"}, id : Ids, rec : Records, valid : BOOLEAN] \cup
    [op : {"delete"}, id : Ids]

(* A reply: the HTTP status, and the record or the records it carries.    *)
Codes == {200, 201, 204, 400, 404, 409, 500}
Replies == [code : Codes \cup {0}, one : Records \cup {Missing}, many : SUBSET Records]
NoReply == [code |-> 0, one |-> Missing, many |-> {}]
Reply(c) == [code |-> c, one |-> Missing, many |-> {}]
RecordReply(c, x) == [code |-> c, one |-> x, many |-> {}]

(* ActionsController.__get_by_id: Action.get_by_id(id) raises when the id *)
(* holds no action, and the handler aborts with 404.                       *)
Present(db, i) == db[i] # Missing

(* The unique index on the action name: Action.add_or_update raises       *)
(* NotUniqueError when another document holds the name.                    *)
NameTaken(db, i, n) == \E j \in Ids : j # i /\ db[j] # Missing /\ db[j].name = n

(* _is_valid_content_pack: the pack has an actions/ directory.             *)
IsValidContentPack(p) == p \in ValidPacks

(* post(): the status of the first check that fails, or 0 when the body   *)
(* is to be saved under a new id.                                          *)
PostError(db, q) ==
    IF q.rec.runner \notin KnownRunners THEN 404
    ELSE IF ~IsValidContentPack(q.rec.pack) THEN 400
    ELSE IF ~q.valid THEN 500
    ELSE IF \E j \in Ids : db[j] # Missing /\ db[j].name = q.rec.name THEN 409
    ELSE 0

(* put(), once the id was found: to_model's ValueError/ValidationError is *)
(* a 400; NotUniqueError is not caught and becomes a 500.                  *)
PutError(db, q) ==
    IF ~q.valid THEN 400
    ELSE IF NameTaken(db, q.id, q.rec.name) THEN 500
    ELSE 0

(* get_one() and get_all() read the store in one call.                     *)
GetOneReply(db, q) ==
    IF Present(db, q.id) THEN RecordReply(200, db[q.id]) ELSE Reply(404)

GetAllReply(db, q) ==
    [code |-> 200, one |-> Missing,
     many |-> {db[i] : i \in {j \in Ids : Present(db, j) /\ (q.name = "any" \/ db[j].name = q.name)}}]
====
