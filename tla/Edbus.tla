-------------------------------- MODULE Edbus ---------------------------------
(***************************************************************************)
(* The containers of the D-Bus library: a program that uses either         *)
(* EdbusDict or EdbusList, which both inherit from EdbusContainer.         *)
(***************************************************************************)
EXTENDS EdbusDict

ASSUME ProgramAssumption ==
  Data \subseteq Items /\ \A K \in SUBSET Data : None \notin [K -> Data]

VARIABLES
  kind,       \* the class of the program's containers
  array_mode  \* of EdbusList

List == INSTANCE EdbusList

edbusVars == <<heap, kind, array_mode>>

EdbusInit == kind \in {"dict", "list"} /\ List!Init

DictNext == kind = "dict" /\ Next /\ UNCHANGED <<kind, array_mode>>

ListNext == kind = "list" /\ List!Next /\ UNCHANGED kind

EdbusNext == DictNext \/ ListNext

EdbusSpec == EdbusInit /\ [][EdbusNext]_edbusVars
-------------------------------------------------------------------------------
(* Every variable has its type, and a container holds what its class does. *)
TypeOK ==
  /\ HeapTypeOK
  /\ array_mode \in [Handles -> BOOLEAN]
  /\ \A h \in Handles : Alive(h) =>
       Content(h) \in Seq(IF kind = "dict" THEN Entry ELSE Data)

(* WellFormed of the dicts (EdbusDict) and ArraysAreOneType of the lists   *)
(* (EdbusList); see there.                                                 *)
DictsStayWellFormed == kind = "dict" => DictsWellFormed
ArraysStayOneType   == kind = "list" => List!ArraysAreOneType

(* Shared and searched as they are, dicts are maps of the keys that can be *)
(* compared: append() (EdbusDict.cpp:24-66) overrides the value of its key *)
(* and of no other, remove() (73-86) leaves no second entry with the key   *)
(* behind, what find() (88-97) answers is what was put last, and no        *)
(* operation on one object shows in another.  Keys that cannot be compared *)
(* (see WellFormed) do not disturb those that can; more is not claimed of  *)
(* them.                                                                   *)
Maps == INSTANCE EdbusDictMap WITH
  dict <- [h \in Handles |->
             IF kind = "dict" /\ Alive(h) THEN MapOf(Content(h)) ELSE None]

InheritedIsOfMaps(h) ==
  /\ Create(h)  => Maps!Create(h)
  /\ Destroy(h) => Maps!Destroy(h)
  /\ \A other \in Handles : /\ Copy(h, other)   => Maps!Copy(h, other)
                           /\ Assign(h, other) => Maps!Assign(h, other)

EntriesAreOfMaps(h) ==
  /\ Clear(h) => Maps!Clear(h)
  /\ \A k \in Data : Remove(h, k) =>
       IF Comparable(k) THEN Maps!Remove(h, k) ELSE Maps!Unchanged
  /\ \A k \in Data, v \in Data : AppendEntry(h, k, v) =>
       IF Comparable(k) THEN Maps!Put(h, k, v) ELSE Maps!Unchanged

DictsAreMaps ==
  /\ Maps!Init
  /\ [][kind = "dict" =>
          \A h \in Handles : InheritedIsOfMaps(h) /\ EntriesAreOfMaps(h)]_edbusVars
===============================================================================
