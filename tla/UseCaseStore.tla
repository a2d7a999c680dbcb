---------------------------- MODULE UseCaseStore ----------------------------
(***************************************************************************)
(* The saved use cases of openjev (src/openjev/server.py): a dictionary    *)
(* that concurrent request handlers change under a lock, and the file it   *)
(* is written to after every change.  Handlers are threads of a pool, and  *)
(* run freely between their locked sections.                               *)
(*                                                                         *)
(* A locked section that writes is two steps, the change in memory and the *)
(* save, for _unique_id reads without the lock and the process may die     *)
(* between them.  A request that is refused at once (404, 409, 422) changes*)
(* nothing and is no step.                                                 *)
(***************************************************************************)
EXTENDS Naturals

CONSTANTS Handlers,    \* the threads that serve requests
          Names,       \* what a request may give as id or title
          Ids,         \* the ids a case may have
          Slug,        \* the slug of each name
          Suffixed,    \* Suffixed[name][n]: "{name}-{n}"
          MaxSuffix,   \* bound on the number a new id may get
          Builtins,    \* the ids of the built-in use cases
          QuestionMaps,   \* the question maps considered
          Inputs,      \* the default inputs considered
          Nothing,        \* nothing where a question map or a state may be
          Free         \* no handler

VARIABLES saved,       \* the dictionary, Absent where there is no entry
          disk,        \* the file
          lock,        \* the handler in a locked section
          pc, request,     \* where each handler is, and its request
          promised     \* what a client may find under each id: one entry, or
                       \* several after a request that ended without an answer

storeVars == <<saved, disk, lock, pc, request, promised>>

ASSUME NamesAssumption ==
  /\ MaxSuffix \in Nat
  /\ Slug \in [Names -> Ids] /\ Suffixed \in [Names -> [2..MaxSuffix -> Ids]]
  /\ Builtins \subseteq Ids
ASSUME NothingAssumption == Nothing \notin QuestionMaps \cup Inputs /\ Free \notin Handlers

Absent  == [questions |-> Nothing, state |-> Nothing]
Entries == [questions : QuestionMaps, state : Inputs]
Stored  == Entries \cup {Absent}

\* An update without questions keeps those of the entry.
Requests  == [kind : {"create"}, id : Ids, questions : QuestionMaps, state : Inputs]
             \cup [kind : {"update"}, id : Ids, questions : QuestionMaps \cup {Nothing},
                   state : Inputs]
             \cup [kind : {"delete"}, id : Ids, questions : {Nothing}, state : {Nothing}]
NoRequest == [kind |-> "none"]

\* Every entry in memory and in the file is a whole one, and only a handler
\* with a request is at work.
StoreTypeOK ==
  /\ saved \in [Ids -> Stored] /\ disk \in [Ids -> Stored]
  /\ lock \in Handlers \cup {Free}
  /\ pc \in [Handlers -> {"idle", "asked", "saving"}]
  /\ request \in [Handlers -> Requests \cup {NoRequest}]
  /\ \A h \in Handlers : pc[h] = "idle" <=> request[h] = NoRequest
  /\ promised \in [Ids -> SUBSET Stored]

StoreInit ==
  /\ saved = [i \in Ids |-> Absent] /\ disk = saved
  /\ lock = Free
  /\ pc = [h \in Handlers |-> "idle"]
  /\ request = [h \in Handlers |-> NoRequest]
  /\ promised = [i \in Ids |-> {Absent}]
-----------------------------------------------------------------------------
(* What requests do, one at a time.                                        *)

\* What request r makes of the entry `old'.
After(old, r) ==
  CASE r.kind = "create" -> [questions |-> r.questions, state |-> r.state]
    [] r.kind = "update" -> [old EXCEPT !.state = r.state,
                                !.questions = IF r.questions = Nothing THEN @ ELSE r.questions]
    [] r.kind = "delete" -> Absent

\* What a client may expect of r under an id that held one of `found': only an
\* entry that exists can be updated.
Outcomes(found, r) ==
  {After(e, r) : e \in IF r.kind = "update" THEN found \ {Absent} ELSE found}
-----------------------------------------------------------------------------
(* The id of a new case.                                                   *)

Taken(id) == id \in Builtins \/ saved[id] # Absent

\* Mutant of UniqueId: only the saved use cases are looked at.
UniqueIdOfSaved(name, id) ==
  \/ id = Slug[name] /\ saved[id] = Absent
  \/ /\ saved[Slug[name]] # Absent
     /\ \E n \in 2..MaxSuffix :
          /\ id = Suffixed[name][n] /\ saved[id] = Absent
          /\ \A m \in 2..(n - 1) : saved[Suffixed[name][m]] # Absent

\* _unique_id(name): the slug, else the name itself with the first free suffix.
UniqueId(name, id) ==
  \/ id = Slug[name] /\ ~Taken(id)
  \/ /\ Taken(Slug[name])
     /\ \E n \in 2..MaxSuffix :
          /\ id = Suffixed[name][n] /\ ~Taken(id)
          /\ \A m \in 2..(n - 1) : Taken(Suffixed[name][m])
-----------------------------------------------------------------------------
(* The handlers.                                                           *)

Handling(h, p, r) == pc' = [pc EXCEPT ![h] = p] /\ request' = [request EXCEPT ![h] = r]

\* create_usecase up to its locked section: the id is chosen without the lock.
Create(h) ==
  /\ pc[h] = "idle"
  /\ \E name \in Names, id \in Ids, q \in QuestionMaps, s \in Inputs :
       /\ UniqueId(name, id)
       /\ Handling(h, "asked", [kind |-> "create", id |-> id, questions |-> q, state |-> s])
  /\ UNCHANGED <<saved, disk, lock, promised>>

\* update_usecase, its first locked section: the entry is there.
FindForUpdate(h) ==
  /\ pc[h] = "idle" /\ lock = Free
  /\ \E id \in Ids, q \in QuestionMaps \cup {Nothing}, s \in Inputs :
       /\ saved[id] # Absent
       /\ Handling(h, "asked", [kind |-> "update", id |-> id, questions |-> q, state |-> s])
  /\ UNCHANGED <<saved, disk, lock, promised>>

\* The entry changes in memory, with the lock held until the save is over.
Change(h, r) ==
  /\ lock = Free /\ lock' = h
  /\ saved' = [saved EXCEPT ![r.id] = After(@, r)]
  /\ Handling(h, "saving", r)
  /\ UNCHANGED <<disk, promised>>

\* Mutant of Write: _saved.get(uid, {}) where the code has _saved[uid].
WriteOfMissing(h) == pc[h] = "asked" /\ Change(h, request[h])

\* The locked section of create_usecase, and the second one of update_usecase.
Write(h) ==
  /\ pc[h] = "asked"
  /\ request[h].kind = "update" => saved[request[h].id] # Absent
  /\ Change(h, request[h])

\* update_usecase: the new state or questions are refused (422), or the entry
\* was deleted since it was found (KeyError).
FailUpdate(h) ==
  /\ pc[h] = "asked" /\ request[h].kind = "update"
  /\ Handling(h, "idle", NoRequest)
  /\ UNCHANGED <<saved, disk, lock, promised>>

\* Mutant of Delete: the file is not written.
DeleteOnlyInMemory(h) ==
  /\ pc[h] = "idle" /\ lock = Free
  /\ \E id \in Ids :
       /\ saved[id] # Absent
       /\ saved' = [saved EXCEPT ![id] = Absent]
       /\ promised' = [promised EXCEPT ![id] = {Absent}]
  /\ UNCHANGED <<disk, lock, pc, request>>

\* delete_usecase, one locked section.
Delete(h) ==
  /\ pc[h] = "idle"
  /\ \E id \in Ids :
       /\ saved[id] # Absent
       /\ Change(h, [kind |-> "delete", id |-> id, questions |-> Nothing, state |-> Nothing])

\* _persist_saved: the whole dictionary replaces the file, and the client
\* has its answer.
Save(h) ==
  /\ pc[h] = "saving"
  /\ disk' = saved
  /\ promised' = [promised EXCEPT ![request[h].id] = Outcomes(@, request[h])]
  /\ lock' = Free /\ Handling(h, "idle", NoRequest)
  /\ UNCHANGED saved

\* _persist_saved raises before the replace: an error 500, the file as it was,
\* and the change in memory stays.
SaveFails(h) ==
  /\ pc[h] = "saving"
  /\ promised' = [promised EXCEPT ![request[h].id] = @ \cup Outcomes(@, request[h])]
  /\ lock' = Free /\ Handling(h, "idle", NoRequest)
  /\ UNCHANGED <<saved, disk>>

\* The process ends and starts again from the file, which replace() has
\* changed or not: lifespan, _load_saved.
Restart ==
  /\ \/ disk' = disk
     \/ lock # Free /\ disk' = saved
  /\ saved' = disk'
  /\ promised' = IF lock = Free THEN promised
                 ELSE [promised EXCEPT ![request[lock].id] = @ \cup Outcomes(@, request[lock])]
  /\ lock' = Free
  /\ pc' = [h \in Handlers |-> "idle"]
  /\ request' = [h \in Handlers |-> NoRequest]

StoreNext ==
  \/ \E h \in Handlers :
       Create(h) \/ FindForUpdate(h) \/ Write(h) \/ FailUpdate(h) \/ Delete(h)
       \/ Save(h) \/ SaveFails(h)
  \/ Restart

StoreSpec == StoreInit /\ [][StoreNext]_storeVars
-----------------------------------------------------------------------------
(* Properties.                                                             *)

\* What a reader under the lock may find under id.
Expected(id) ==
  IF lock # Free /\ request[lock].id = id THEN Outcomes(promised[id], request[lock])
  ELSE promised[id]

\* What clients were answered is what the service holds, in memory and in the
\* file: a deleted case does not come back, an update keeps the questions it
\* was not given, and only a request that had no answer leaves two
\* possibilities.  (The locked sections and _persist_saved of server.py.)
PromisesKept ==
  \A id \in Ids : disk[id] \in promised[id] /\ saved[id] \in Expected(id)

\* A saved case never has the id of a built-in one, which would hide it from
\* the get, update, delete and run by id.  (_unique_id.)
BuiltinsUnshadowed == \A id \in Builtins : saved[id] = Absent /\ disk[id] = Absent
=============================================================================
