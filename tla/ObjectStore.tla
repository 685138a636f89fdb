---------------------------- MODULE ObjectStore ----------------------------
(***************************************************************************)
(* The object engine of devnote-object over SQLite: types with properties, *)
(* objects of a type, and links between objects.  Every call holds the     *)
(* connection's mutex, but the two updates give it up between writing the  *)
(* row and reading it back.                                                *)
(***************************************************************************)
EXTENDS Integers, Sequences, SqlRows

CONSTANTS
    TypeIds, PropertyIds, RelationIds, ObjectIds,
    Updaters,       \* threads inside update_object
    PropertyLists,  \* the property lists create_object_type is called with
    MaxWrites       \* bound on the updates of an object

ASSUME ObjectsAssumption == PropertyLists \subseteq Seq(PropertyIds)

VARIABLES
    types,      \* object_types: id -> the properties it was created with
    properties, \* object_type_properties: id -> type
    relations,  \* object_type_relations: id -> type
    objects,    \* objects: id -> its type and the number of its last write
    links,      \* object_relations: <<source, target, relation>>
    usedIds,    \* type and object ids ever drawn (Uuid::new_v4 draws no id twice)
    updates     \* update_object per thread: object, write made, answer

objectVars == <<types, properties, relations, objects, links, usedIds, updates>>

IdleUpdate == [phase |-> "idle", object |-> CHOOSE o \in ObjectIds : TRUE,
               wrote |-> 0, read |-> 0]

ObjectsInit ==
    /\ types = NoRows /\ properties = NoRows /\ relations = NoRows
    /\ objects = NoRows /\ links = {} /\ usedIds = {}
    /\ updates = [u \in Updaters |-> IdleUpdate]

\* INSERT fails on a primary key that exists, in the table or earlier in the list.
Insertable(list) ==
    \A i \in DOMAIN list :
        /\ list[i] \notin DOMAIN properties
        /\ \A j \in 1..(i - 1) : list[j] # list[i]

PropertyRows(list) == {list[i] : i \in DOMAIN list}

\* Variant: the columns are swapped.
InsertPropertiesSwapped(type, rows) ==
    properties' = IF rows = {} THEN properties ELSE InsertRow(properties, type, rows)

InsertProperties(type, rows) ==
    properties' = [p \in DOMAIN properties \cup rows |->
                      IF p \in rows THEN type ELSE properties[p]]

\* Variant: no transaction; the properties end at the first that fails.
CreateObjectTypeInSteps(type, list) ==
    LET inserted == {i \in DOMAIN list : Insertable(SubSeq(list, 1, i))}
    IN  /\ type \notin usedIds
        /\ types' = InsertRow(types, type, PropertyRows(list))
        /\ InsertProperties(type, {list[i] : i \in inserted})
        /\ usedIds' = usedIds \cup {type}
        /\ UNCHANGED <<relations, objects, links, updates>>

\* One transaction: a property that cannot be inserted takes the type back too.
CreateObjectType(type, list) ==
    /\ type \notin usedIds
    /\ Insertable(list)
    /\ types' = InsertRow(types, type, PropertyRows(list))
    /\ InsertProperties(type, PropertyRows(list))
    /\ usedIds' = usedIds \cup {type}
    /\ UNCHANGED <<relations, objects, links, updates>>

\* No call inserts a relation definition: it comes over the shared connection.
DefineRelation(relation, type) ==
    /\ relation \notin DOMAIN relations /\ type \in DOMAIN types
    /\ relations' = InsertRow(relations, relation, type)
    /\ UNCHANGED <<types, properties, objects, links, usedIds, updates>>

\* ON DELETE CASCADE from links to the objects and definitions they name.
LinksAmong(objectIds, relationIds) ==
    {l \in links : {l[1], l[2]} \subseteq objectIds /\ l[3] \in relationIds}

DeleteObjectType(type) ==
    LET leftProperties == {p \in DOMAIN properties : properties[p] # type}
        leftRelations == {r \in DOMAIN relations : relations[r] # type}
        leftObjects == {o \in DOMAIN objects : objects[o].type # type}
    IN  /\ type \in DOMAIN types
        /\ types' = DeleteRow(types, type)
        /\ properties' = KeepRows(properties, leftProperties)
        /\ relations' = KeepRows(relations, leftRelations)
        /\ objects' = KeepRows(objects, leftObjects)
        /\ links' = LinksAmong(leftObjects, leftRelations)
        /\ UNCHANGED <<usedIds, updates>>

\* The type is checked under the lock.
CreateObject(object, type) ==
    /\ object \notin usedIds /\ type \in DOMAIN types
    /\ objects' = InsertRow(objects, object, [type |-> type, write |-> 0])
    /\ usedIds' = usedIds \cup {object}
    /\ UNCHANGED <<types, properties, relations, links, updates>>

\* A block of a note becomes an object that names note and block; the block stays.
PromoteBlockToObject(object, type) == CreateObject(object, type)

\* Variant: the links to the object stay.
DeleteObjectOnly(object) ==
    /\ object \in DOMAIN objects
    /\ objects' = DeleteRow(objects, object)
    /\ UNCHANGED <<types, properties, relations, links, usedIds, updates>>

DeleteObject(object) ==
    /\ object \in DOMAIN objects
    /\ objects' = DeleteRow(objects, object)
    /\ links' = LinksAmong(DOMAIN objects \ {object}, DOMAIN relations)
    /\ UNCHANGED <<types, properties, relations, usedIds, updates>>

\* Variant: the answer is what was read before the write.
UpdateObjectReadsFirst(u, object) ==
    /\ updates[u].phase = "idle"
    /\ object \in DOMAIN objects /\ objects[object].write < MaxWrites
    /\ LET write == objects[object].write + 1
       IN  /\ objects' = [objects EXCEPT ![object].write = write]
           /\ updates' = [updates EXCEPT ![u] =
                [phase |-> "answered", object |-> object, wrote |-> write,
                 read |-> objects[object].write]]
    /\ UNCHANGED <<types, properties, relations, links, usedIds>>

\* UPDATE under the lock, then the lock is dropped.
UpdateObject(u, object) ==
    /\ updates[u].phase = "idle"
    /\ object \in DOMAIN objects /\ objects[object].write < MaxWrites
    /\ LET write == objects[object].write + 1
       IN  /\ objects' = [objects EXCEPT ![object].write = write]
           /\ updates' = [updates EXCEPT ![u] =
                [phase |-> "reload", object |-> object, wrote |-> write, read |-> 0]]
    /\ UNCHANGED <<types, properties, relations, links, usedIds>>

\* The row is read back under the lock taken again: it may be gone by then.
ReloadObject(u) ==
    LET object == updates[u].object
    IN  /\ updates[u].phase = "reload"
        /\ updates' = [updates EXCEPT
              ![u].phase = IF object \in DOMAIN objects THEN "answered" ELSE "not_found",
              ![u].read = IF object \in DOMAIN objects THEN objects[object].write ELSE 0]
        /\ UNCHANGED <<types, properties, relations, objects, links, usedIds>>

EndUpdate(u) ==
    /\ updates[u].phase \in {"answered", "not_found"}
    /\ updates' = [updates EXCEPT ![u] = IdleUpdate]
    /\ UNCHANGED <<types, properties, relations, objects, links, usedIds>>

\* The foreign keys and UNIQUE(source, target, relation) decide.
AddRelation(source, target, relation) ==
    /\ {source, target} \subseteq DOMAIN objects /\ relation \in DOMAIN relations
    /\ <<source, target, relation>> \notin links
    /\ links' = links \cup {<<source, target, relation>>}
    /\ UNCHANGED <<types, properties, relations, objects, usedIds, updates>>

RemoveRelation(link) ==
    /\ links' = links \ {link}
    /\ UNCHANGED <<types, properties, relations, objects, usedIds, updates>>

ListObjects(type) == {o \in DOMAIN objects : objects[o].type = type}

GetRelatedObjects(object) == {l[2] : l \in {k \in links : k[1] = object}}

ObjectsNext ==
    \/ \E t \in TypeIds :
          \/ \E list \in PropertyLists : CreateObjectType(t, list)
          \/ \E r \in RelationIds : DefineRelation(r, t)
          \/ DeleteObjectType(t)
          \/ \E o \in ObjectIds : CreateObject(o, t) \/ PromoteBlockToObject(o, t)
    \/ \E o \in ObjectIds : DeleteObject(o) \/ \E u \in Updaters : UpdateObject(u, o)
    \/ \E u \in Updaters : ReloadObject(u) \/ EndUpdate(u)
    \/ \E source, target \in ObjectIds, r \in RelationIds :
          AddRelation(source, target, r)
    \/ \E link \in links : RemoveRelation(link)

ObjectsSpec == ObjectsInit /\ [][ObjectsNext]_objectVars

-----------------------------------------------------------------------------
\* The tables hold rows of their types.
ObjectsTypeOK ==
    /\ DOMAIN types \subseteq TypeIds /\ DOMAIN properties \subseteq PropertyIds
    /\ DOMAIN relations \subseteq RelationIds /\ DOMAIN objects \subseteq ObjectIds
    /\ \A u \in Updaters :
          updates[u].phase \in {"idle", "reload", "answered", "not_found"}

\* A type has all the properties it was created with or does not exist: a
\* create_object_type that fails on its second property leaves nothing.
TypesWhole ==
    \A t \in TypeIds :
        {p \in DOMAIN properties : properties[p] = t} =
            IF t \in DOMAIN types THEN types[t] ELSE {}

\* Deleting a type or an object never leaves a list call a row it cannot load:
\* every object has its type and every related object exists.
RelatedObjectsLoad ==
    /\ \A o \in DOMAIN objects :
          objects[o].type \in DOMAIN types /\ GetRelatedObjects(o) \subseteq DOMAIN objects
    /\ \A l \in links : l[1] \in DOMAIN objects /\ l[3] \in DOMAIN relations

\* The answer of update_object, read under a second lock, is never older than
\* the write of the same call, and "not found" means the object is gone for good.
UpdateAnswersNewer ==
    \A u \in Updaters :
        /\ updates[u].phase = "answered" => updates[u].read >= updates[u].wrote
        /\ updates[u].phase = "not_found" => updates[u].object \notin DOMAIN objects

\* Types come whole, every list call can load what it names, and no update is
\* answered with a state from before it, whichever calls come between its locks.
ObjectsHold == TypesWhole /\ RelatedObjectsLoad /\ UpdateAnswersNewer
=============================================================================
