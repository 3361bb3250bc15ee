---------------------------- MODULE XSettingsProofs ----------------------------
(***************************************************************************)
(* Proofs about XSettings for any managers, clients, windows, names,       *)
(* values and bounds: IInv is inductive and implies NothingMissed and      *)
(* LoserIsTold; ListsGrow is, where lists only grow, and ViewExact holds.  *)
(***************************************************************************)
EXTENDS XSettingsView, DataTheorems

-------------------------------------------------------------------------------
(* Queues: appending loses no waiting event and adds the new one; taking   *)
(* the head loses that event only.                                         *)

LEMMA AppendWaiting ==
  ASSUME NEW S, NEW q \in Seq(S), NEW f \in S
  PROVE  /\ Append(q, f) \in Seq(S)
         /\ Waiting(f, Append(q, f))
         /\ \A e : Waiting(e, q) => Waiting(e, Append(q, f))
<1>1. Append(q, f) \in Seq(S) /\ Len(Append(q, f)) = Len(q) + 1 /\ Len(q) \in Nat
  OBVIOUS
<1>2. Append(q, f)[Len(q) + 1] = f
  OBVIOUS
<1>3. Waiting(f, Append(q, f))
  BY <1>1, <1>2 DEF Waiting
<1>4. ASSUME NEW e, Waiting(e, q)
      PROVE  Waiting(e, Append(q, f))
  <2>1. PICK i \in 1..Len(q) : q[i] = e
    BY <1>4 DEF Waiting
  <2>2. Append(q, f)[i] = e /\ i \in 1..Len(Append(q, f))
    BY <1>1, <2>1
  <2>3. QED
    BY <2>2 DEF Waiting
<1>5. QED
  BY <1>1, <1>3, <1>4

LEMMA TailWaiting ==
  ASSUME NEW S, NEW q \in Seq(S), q # <<>>
  PROVE  /\ Head(q) \in S
         /\ Tail(q) \in Seq(S)
         /\ \A e : Waiting(e, q) /\ e # Head(q) => Waiting(e, Tail(q))
<1>1. Head(q) \in S /\ Tail(q) \in Seq(S)
  OBVIOUS
<1>2. ASSUME NEW e, Waiting(e, q), e # Head(q)
      PROVE  Waiting(e, Tail(q))
  <2>1. PICK i \in 1..Len(q) : q[i] = e
    BY <1>2 DEF Waiting
  <2>2. i # 1
    BY <1>2, <2>1
  <2>3. i - 1 \in 1..Len(Tail(q)) /\ Tail(q)[i - 1] = e
    BY <2>1, <2>2
  <2>4. QED
    BY <2>3 DEF Waiting
<1>3. QED
  BY <1>1, <1>2

(* Deliver queues its event where it should and disturbs no other.         *)
LEMMA DeliverWaiting ==
  ASSUME cevents \in [Clients -> Seq(Event)], NEW e \in Event, NEW to, Deliver(e, to)
  PROVE  /\ cevents' \in [Clients -> Seq(Event)]
         /\ \A c \in Clients : c \in to => Waiting(e, cevents'[c])
         /\ \A c \in Clients : \A f : Waiting(f, cevents[c]) => Waiting(f, cevents'[c])
<1>1. ASSUME NEW c \in Clients
      PROVE  /\ cevents'[c] \in Seq(Event)
             /\ c \in to => Waiting(e, cevents'[c])
             /\ \A f : Waiting(f, cevents[c]) => Waiting(f, cevents'[c])
  <2>1. cevents'[c] = IF c \in to THEN Append(cevents[c], e) ELSE cevents[c]
    BY DEF Deliver
  <2>2. cevents[c] \in Seq(Event)
    OBVIOUS
  <2>3. CASE c \in to
    BY <2>1, <2>2, <2>3, AppendWaiting
  <2>4. CASE c \notin to
    BY <2>1, <2>2, <2>4
  <2>5. QED
    BY <2>3, <2>4
<1>2. cevents' = [c \in Clients |-> cevents'[c]]
  BY DEF Deliver
<1>3. QED
  BY <1>1, <1>2

LEMMA EventTypes ==
  /\ MANAGER \in Event
  /\ \A w \in Windows : DestroyNotify(w) \in Event /\ PropertyNotify(w) \in Event
BY DEF MANAGER, DestroyNotify, PropertyNotify, Event

(* Settings and data.                                                      *)

LEMMA PutSettingType ==
  ASSUME NEW s \in Settings, NEW n \in Names, NEW v \in Values, NEW k \in Serial
  PROVE  PutSetting(s, n, v, k) \in Settings
<1>1. PICK S \in SUBSET Names : s \in [S -> Setting]
  BY DEF Settings
<1>2. CASE n \in DOMAIN s /\ s[n].val = v
  BY <1>2 DEF PutSetting
<1>3. CASE ~(n \in DOMAIN s /\ s[n].val = v)
  <2>1. PutSetting(s, n, v, k) \in [S \cup {n} -> Setting]
    BY <1>1, <1>3 DEF PutSetting, Setting
  <2>2. S \cup {n} \in SUBSET Names
    BY <1>1
  <2>3. QED
    BY <2>1, <2>2 DEF Settings
<1>4. QED
  BY <1>2, <1>3

LEMMA DataType ==
  ASSUME NEW w \in Windows \cup {None}, NEW s \in Settings, NEW k \in Serial
  PROVE  /\ DataOf(w, s, k) \in Data
         /\ DataOf(w, s, k).manager_win = w
         /\ DataOf(w, s, k).settings = s
         /\ DataOf(w, s, k).serial = k
BY DEF DataOf, Data

LEMMA NullTypes ==
  /\ EmptySettings \in Settings
  /\ NullData \in Data /\ NullData.manager_win = None
  /\ 0 \in Serial
  /\ NoProperty \in Property
<1>1. EmptySettings \in [{} -> Setting]
  BY DEF EmptySettings
<1>2. EmptySettings \in Settings
  BY <1>1 DEF Settings
<1>3. 0 \in Serial
  BY MaxSerialAssumption DEF Serial
<1>4. QED
  BY <1>2, <1>3, DataType DEF NullData, NoProperty, Property
-------------------------------------------------------------------------------
LEMMA InitIInv == Init => IInv
<1> SUFFICES ASSUME Init PROVE IInv
  OBVIOUS
<1>1. TypeOK
  <2>1. \A S : <<>> \in Seq(S)
    OBVIOUS
  <2>2. QED
    BY <2>1, NullTypes, WindowsAssumption DEF Init, TypeOK, ManagerPC, ClientPC
<1>2. WindowsHeld /\ ManagersTold /\ ClientsTold
  BY NullTypes DEF Init, WindowsHeld, ManagersTold, ClientsTold, Told
<1>3. QED
  BY <1>1, <1>2 DEF IInv

(* clear(), whatever becomes of the manager's own queue.                   *)
LEMMA ManagerClearIInv ==
  ASSUME IInv, NEW m \in Managers, mpc[m] # "none", ManagerClear(m),
         mevents' \in [Managers -> Seq(Windows)],
         \A k \in Managers : k # m => mevents'[k] = mevents[k]
  PROVE  IInv'
<1> DEFINE w == manager_data[m].manager_win
<1> USE DEF IInv
<1>1. w \in alive /\ w \in Windows /\ Creator[w] = m /\ w # None
  BY WindowsAssumption DEF ManagersTold, TypeOK
<1>2. /\ cevents' \in [Clients -> Seq(Event)]
      /\ \A c \in Clients : w \in selected[c] => Waiting(DestroyNotify(w), cevents'[c])
      /\ \A c \in Clients : \A f : Waiting(f, cevents[c]) => Waiting(f, cevents'[c])
  BY <1>1, EventTypes, DeliverWaiting DEF ManagerClear, DestroyWindow, WatchersOf, TypeOK
<1>3. TypeOK'
  BY <1>1, <1>2, NullTypes DEF ManagerClear, DestroyWindow, TypeOK, ManagerPC
<1>4. WindowsHeld'
  BY <1>1 DEF ManagerClear, DestroyWindow, TypeOK, WindowsHeld
<1>5. ManagersTold'
  <2> SUFFICES ASSUME NEW k \in Managers
               PROVE  LET u == manager_data'[k].manager_win IN
                      /\ mpc'[k] # "none" => u \in alive' /\ Creator[u] = k
                      /\ mpc'[k] \in {"owning", "running"} /\ u # owner' => Waiting(u, mevents'[k])
    BY DEF ManagersTold
  <2>1. CASE k = m
    BY <2>1 DEF ManagerClear, TypeOK
  <2>2. CASE k # m
    BY <1>1, <2>2 DEF ManagerClear, DestroyWindow, TypeOK, ManagersTold
  <2>3. QED
    BY <2>1, <2>2
<1>6. ClientsTold'
  <2>1. owner' # None => owner' = owner
    BY DEF ManagerClear, DestroyWindow
  <2>2. Announced(owner)' /\ owner' # None => Announced(owner)
    BY <2>1 DEF ManagerClear, Announced, TypeOK, WindowsHeld
  <2>3. QED
    BY <1>1, <1>2, <2>1, <2>2 DEF ManagerClear, DestroyWindow, TypeOK, ClientsTold, Told, PropertyOf
<1>7. QED
  BY <1>3, <1>4, <1>5, <1>6

(* xsettings_manager_notify(), by a manager or by a client: the window's   *)
(* watchers all have a PropertyNotify coming.                              *)
LEMMA PublishIInv ==
  ASSUME IInv, NEW data \in Data, Publish(data)
  PROVE  /\ property' \in [Windows -> Property]
         /\ cevents' \in [Clients -> Seq(Event)]
         /\ \A w \in Windows \ alive : property'[w] = property[w]
         /\ \A c \in Clients : \A f : Waiting(f, cevents[c]) => Waiting(f, cevents'[c])
         /\ \A c \in Clients, w \in Windows :
              property'[w] # property[w] /\ w \in selected[c]
                => Waiting(PropertyNotify(w), cevents'[c])
<1> DEFINE u == data.manager_win
<1> USE DEF IInv, TypeOK
<1>1. CASE u \in alive
  <2>1. u \in Windows
    BY <1>1
  <2>2. /\ cevents' \in [Clients -> Seq(Event)]
        /\ \A c \in Clients : u \in selected[c] => Waiting(PropertyNotify(u), cevents'[c])
        /\ \A c \in Clients : \A f : Waiting(f, cevents[c]) => Waiting(f, cevents'[c])
    BY <1>1, <2>1, EventTypes, DeliverWaiting DEF Publish, WatchersOf
  <2>3. [settings |-> data.settings, serial |-> data.serial] \in Property
    BY DEF Data, Property
  <2>4. /\ property' \in [Windows -> Property]
        /\ \A w \in Windows : w # u => property'[w] = property[w]
    BY <1>1, <2>1, <2>3 DEF Publish
  <2>5. QED
    BY <1>1, <2>2, <2>4
<1>2. CASE u \notin alive
  BY <1>2 DEF Publish
<1>3. QED
  BY <1>1, <1>2
-------------------------------------------------------------------------------
LEMMA ManagerStepIInv ==
  ASSUME IInv, NEW m \in Managers, ManagerNext(m)
  PROVE  IInv'
<1> USE DEF IInv
<1>1. CASE ManagerCreateWindow(m)
  <2>1. PICK w \in Windows \ created :
          /\ Creator[w] = m
          /\ created' = created \cup {w}
          /\ alive' = alive \cup {w}
          /\ manager_data' = [manager_data EXCEPT ![m] = DataOf(w, EmptySettings, 0)]
    BY <1>1 DEF ManagerCreateWindow
  <2>2. w \notin alive /\ w # None /\ w # owner
    BY <2>1, WindowsAssumption DEF TypeOK, WindowsHeld
  <2>3. DataOf(w, EmptySettings, 0) \in Data /\ DataOf(w, EmptySettings, 0).manager_win = w
    BY <2>1, NullTypes, DataType
  <2>4. TypeOK'
    BY <1>1, <2>1, <2>3 DEF ManagerCreateWindow, TypeOK, ManagerPC, clientVars
  <2>5. manager_data'[m].manager_win = w
    BY <2>1, <2>3 DEF TypeOK
  <2>6. WindowsHeld'
    <3>1. \A u \in alive : Creator[u] # m
      BY <1>1 DEF ManagerCreateWindow, WindowsHeld
    <3>2. QED
      BY <1>1, <2>1, <2>5, <3>1 DEF ManagerCreateWindow, TypeOK, WindowsHeld
  <2>7. ManagersTold'
    BY <1>1, <2>1, <2>5 DEF ManagerCreateWindow, TypeOK, ManagersTold
  <2>8. ClientsTold'
    BY <1>1, <2>1, <2>2
       DEF ManagerCreateWindow, TypeOK, ClientsTold, Told, clientVars, Announced, PropertyOf
  <2>9. QED
    BY <2>4, <2>6, <2>7, <2>8
<1>2. CASE ManagerSetSelectionOwner(m)
  <2> DEFINE w == manager_data[m].manager_win
  <2>1. w \in alive /\ w \in Windows /\ Creator[w] = m /\ w # None
    BY <1>2, WindowsAssumption DEF ManagerSetSelectionOwner, ManagersTold, TypeOK
  <2>2. owner # None => owner # w \/ Creator[owner] = m
    BY <2>1
  <2>3. ASSUME NEW k \in Managers
        PROVE  /\ mevents'[k] \in Seq(Windows)
               /\ \A u : Waiting(u, mevents[k]) => Waiting(u, mevents'[k])
               /\ owner # None /\ owner' # owner /\ Creator[owner] = k /\ k # m
                    => Waiting(owner, mevents'[k])
    <3>1. CASE mevents'[k] = mevents[k]
               /\ ~(owner # None /\ owner' # owner /\ Creator[owner] = k /\ k # m)
      BY <3>1 DEF TypeOK
    <3>2. CASE /\ owner # None /\ Creator[owner] = k /\ k # m
               /\ mevents'[k] = Append(mevents[k], owner)
      BY <3>2, AppendWaiting DEF TypeOK
    <3>3. QED
      BY <1>2, <3>1, <3>2 DEF ManagerSetSelectionOwner, TypeOK
  <2>4. mevents' \in [Managers -> Seq(Windows)]
    BY <1>2, <2>3 DEF ManagerSetSelectionOwner, TypeOK
  <2>5. TypeOK'
    <3>1. /\ owner' \in Windows \cup {None} /\ lastChange' \in Nat
          /\ mpc' \in [Managers -> ManagerPC]
      BY <1>2, <2>1 DEF ManagerSetSelectionOwner, TypeOK, ManagerPC
    <3>2. timestamp' \in [Managers -> Nat]
      BY <1>2 DEF ManagerSetSelectionOwner, TypeOK
    <3>3. QED
      BY <1>2, <2>4, <3>1, <3>2 DEF ManagerSetSelectionOwner, TypeOK, clientVars
  <2>6. WindowsHeld'
    BY <1>2, <2>1 DEF ManagerSetSelectionOwner, TypeOK, WindowsHeld
  <2>7. ManagersTold'
    <3> SUFFICES ASSUME NEW k \in Managers
                 PROVE  LET u == manager_data'[k].manager_win IN
                        /\ mpc'[k] # "none" => u \in alive' /\ Creator[u] = k
                        /\ mpc'[k] \in {"owning", "running"} /\ u # owner' => Waiting(u, mevents'[k])
      BY DEF ManagersTold
    <3>1. mpc'[k] # "none" => manager_data'[k].manager_win \in alive'
                              /\ Creator[manager_data'[k].manager_win] = k
      BY <1>2 DEF ManagerSetSelectionOwner, TypeOK, ManagersTold
    <3>2. CASE k = m
      BY <1>2, <3>1, <3>2 DEF ManagerSetSelectionOwner, TypeOK
    <3>3. CASE k # m
      BY ZenonT(30), <1>2, <2>1, <2>3, <3>1, <3>3, WindowsAssumption DEF ManagerSetSelectionOwner, TypeOK, ManagersTold
    <3>4. QED
      BY <3>2, <3>3
  <2>8. ClientsTold'
    <3>1. owner' # None /\ Announced(owner)' => owner' = owner /\ Announced(owner)
      BY <1>2, <2>1 DEF ManagerSetSelectionOwner, TypeOK, Announced
    <3>2. QED
      BY <1>2, <3>1 DEF ManagerSetSelectionOwner, TypeOK, ClientsTold, Told, clientVars, PropertyOf
  <2>9. QED
    BY <2>5, <2>6, <2>7, <2>8
<1>3. CASE ManagerGetSelectionOwner(m)
  <2>1. CASE /\ mpc[m] = "asked"
             /\ owner = manager_data[m].manager_win
             /\ mpc' = [mpc EXCEPT ![m] = "owning"]
             /\ UNCHANGED <<serverVars, timestamp, manager_data, clientVars, mevents>>
    <3>1. TypeOK'
      BY <2>1 DEF TypeOK, ManagerPC, serverVars, clientVars
    <3>2. WindowsHeld'
      BY <2>1, WindowsAssumption DEF TypeOK, WindowsHeld, serverVars
    <3>3. ManagersTold'
      BY <2>1 DEF TypeOK, ManagersTold, serverVars
    <3>4. \A u : Announced(u)' => Announced(u)
      BY <2>1 DEF TypeOK, Announced
    <3>5. ClientsTold'
      BY <2>1, <3>4 DEF TypeOK, ClientsTold, Told, serverVars, clientVars, PropertyOf
    <3>6. QED
      BY <3>1, <3>2, <3>3, <3>5
  <2>2. CASE ManagerClear(m) /\ mpc[m] = "asked" /\ mevents' = mevents
    BY <2>2, ManagerClearIInv DEF TypeOK
  <2>3. QED
    BY <1>3, <2>1, <2>2 DEF ManagerGetSelectionOwner
<1>4. CASE ManagerAnnounce(m)
  <2>1. /\ cevents' \in [Clients -> Seq(Event)]
        /\ \A c \in Clients : c \in rootListeners => Waiting(MANAGER, cevents'[c])
        /\ \A c \in Clients : \A f : Waiting(f, cevents[c]) => Waiting(f, cevents'[c])
    BY <1>4, EventTypes, DeliverWaiting DEF ManagerAnnounce, TypeOK
  <2>2. TypeOK' /\ WindowsHeld'
    BY <1>4, <2>1 DEF ManagerAnnounce, TypeOK, WindowsHeld, ManagerPC, serverVars
  <2>3. ManagersTold'
    BY <1>4 DEF ManagerAnnounce, TypeOK, ManagersTold, serverVars
  <2>4. ClientsTold'
    BY <1>4, <2>1 DEF ManagerAnnounce, TypeOK, ClientsTold, Told, serverVars, PropertyOf
  <2>5. QED
    BY <2>2, <2>3, <2>4
<1>5. CASE ManagerSet(m)
  <2>1. PICK n \in Names, v \in Values :
          manager_data' = [manager_data EXCEPT
            ![m] = WithSettings(@, PutSetting(@.settings, n, v, @.serial))]
    BY <1>5 DEF ManagerSet
  <2> DEFINE d == manager_data[m]
             s == PutSetting(d.settings, n, v, d.serial)
  <2>2. /\ WithSettings(d, s) \in Data
        /\ WithSettings(d, s).manager_win = d.manager_win
    <3>1. d.manager_win \in Windows \cup {None} /\ d.settings \in Settings /\ d.serial \in Serial
      BY DEF TypeOK, Data
    <3>2. s \in Settings
      BY <3>1, PutSettingType
    <3>3. QED
      BY <3>1, <3>2 DEF Data, DataOf, WithSettings
  <2>3. /\ manager_data' \in [Managers -> Data]
        /\ \A k \in Managers : manager_data'[k].manager_win = manager_data[k].manager_win
    BY <2>1, <2>2 DEF TypeOK
  <2>4. TypeOK' /\ WindowsHeld' /\ ManagersTold'
    BY <1>5, <2>3, WindowsAssumption
       DEF ManagerSet, TypeOK, WindowsHeld, ManagersTold, serverVars, clientVars
  <2>5. ClientsTold'
    BY <1>5, <2>3, WindowsAssumption
       DEF ManagerSet, TypeOK, ClientsTold, Told, serverVars, clientVars, Announced, PropertyOf
  <2>6. QED
    BY <2>4, <2>5
<1>6. CASE ManagerNotify(m)
  <2>1. manager_data[m] \in Data /\ Publish(manager_data[m])
    BY <1>6 DEF ManagerNotify, TypeOK
  <2>2. /\ manager_data' \in [Managers -> Data]
        /\ \A k \in Managers : manager_data'[k].manager_win = manager_data[k].manager_win
    <3> DEFINE d == manager_data[m]
    <3>1. /\ d.manager_win \in Windows \cup {None} /\ d.settings \in Settings
          /\ d.serial + 1 \in Serial
      BY <1>6, MaxSerialAssumption DEF ManagerNotify, TypeOK, Data, Serial
    <3>2. /\ WithSerial(d, d.serial + 1) \in Data
          /\ WithSerial(d, d.serial + 1).manager_win = d.manager_win
      BY <3>1 DEF Data, DataOf, WithSerial
    <3>3. QED
      BY <1>6, <3>2 DEF ManagerNotify, TypeOK
  <2>3. TypeOK' /\ WindowsHeld' /\ ManagersTold'
    BY <1>6, <2>1, <2>2, PublishIInv, WindowsAssumption
       DEF ManagerNotify, TypeOK, WindowsHeld, ManagersTold
  <2>4. \A w : Announced(w)' /\ w \in Windows => Announced(w)
    BY <1>6, <2>2, WindowsAssumption DEF ManagerNotify, Announced
  <2>5. ClientsTold'
    BY <1>6, <2>1, <2>4, PublishIInv DEF ManagerNotify, TypeOK, ClientsTold, Told, PropertyOf
  <2>6. QED
    BY <2>3, <2>5
<1>7. CASE ManagerEvent(m)
  <2>1. /\ Tail(mevents[m]) \in Seq(Windows)
        /\ \A u : Waiting(u, mevents[m]) /\ u # Head(mevents[m]) => Waiting(u, Tail(mevents[m]))
    BY <1>7, TailWaiting DEF ManagerEvent, TypeOK
  <2>2. /\ mevents' \in [Managers -> Seq(Windows)]
        /\ mevents'[m] = Tail(mevents[m])
        /\ \A k \in Managers : k # m => mevents'[k] = mevents[k]
    BY <1>7, <2>1 DEF ManagerEvent, TypeOK
  <2>3. CASE Head(mevents[m]) = manager_data[m].manager_win
    BY <1>7, <2>2, <2>3, ManagerClearIInv DEF ManagerEvent
  <2>4. CASE Head(mevents[m]) # manager_data[m].manager_win
    <3>1. TypeOK' /\ WindowsHeld'
      BY <1>7, <2>2, <2>4 DEF ManagerEvent, TypeOK, WindowsHeld, serverVars, clientVars
    <3>2. ManagersTold'
      BY <1>7, <2>1, <2>2, <2>4 DEF ManagerEvent, TypeOK, ManagersTold, serverVars
    <3>3. ClientsTold'
      BY <1>7, <2>4
         DEF ManagerEvent, TypeOK, ClientsTold, Told, serverVars, clientVars, Announced, PropertyOf
    <3>4. QED
      BY <3>1, <3>2, <3>3
  <2>5. QED
    BY <2>3, <2>4
<1>8. CASE ManagerStop(m)
  BY <1>8, ManagerClearIInv DEF ManagerStop, TypeOK
<1>9. CASE ManagerCrash(m)
  <2>1. /\ mevents' \in [Managers -> Seq(Windows)]
        /\ \A k \in Managers : k # m => mevents'[k] = mevents[k]
    BY <1>9 DEF ManagerCrash, TypeOK
  <2>2. QED
    BY <1>9, <2>1, ManagerClearIInv DEF ManagerCrash
<1>10. QED
  BY <1>1, <1>2, <1>3, <1>4, <1>5, <1>6, <1>7, <1>8, <1>9 DEF ManagerNext
-------------------------------------------------------------------------------
(* A step of one client that changes neither windows, properties nor       *)
(* managers keeps the other parts of IInv and what the others were told.   *)
LEMMA ClientFrame ==
  ASSUME IInv, NEW c \in Clients, TypeOK', Told(c)',
         UNCHANGED <<now, owner, lastChange, created, alive, property, managerVars>>,
         \A k \in Clients : k # c =>
           /\ cpc'[k] = cpc[k] /\ client_data'[k] = client_data[k]
           /\ cevents'[k] = cevents[k] /\ selected'[k] = selected[k]
           /\ k \in rootListeners => k \in rootListeners'
  PROVE  IInv'
<1>1. WindowsHeld' /\ ManagersTold'
  BY DEF IInv, WindowsHeld, ManagersTold, managerVars
<1>2. ASSUME NEW k \in Clients, k # c
      PROVE  Told(k)'
  <2>1. Announced(owner)' = Announced(owner)
    BY DEF Announced, managerVars
  <2>2. Told(k)
    BY DEF IInv, ClientsTold, Told
  <2>3. QED
    BY <1>2, <2>1, <2>2 DEF Told, PropertyOf
<1>3. ClientsTold'
  BY <1>2 DEF ClientsTold, Told
<1>4. QED
  BY <1>1, <1>3 DEF IInv

LEMMA ClientStepIInv ==
  ASSUME IInv, NEW c \in Clients, ClientNext(c)
  PROVE  IInv'
<1> DEFINE d == client_data[c]
<1>a. TypeOK /\ Told(c)
  BY DEF IInv, ClientsTold, Told
<1>b. /\ d.manager_win \in Windows \cup {None}
      /\ d.settings \in Settings
      /\ d.serial \in Serial
  BY <1>a DEF TypeOK, Data
<1>c. d \in Data
  BY <1>a DEF TypeOK
<1>1. CASE ClientInit(c)
  <2>1. TypeOK'
    BY <1>1, <1>a, NullTypes DEF ClientInit, TypeOK, ClientPC, managerVars
  <2>2. client_data'[c].manager_win = None /\ cpc'[c] = "check" /\ c \in rootListeners'
    BY <1>1, <1>a, NullTypes DEF ClientInit, TypeOK
  <2>3. Told(c)'
    BY <2>2 DEF Told
  <2>4. QED
    BY <1>1, <1>a, <2>1, <2>3, ClientFrame DEF ClientInit, TypeOK
<1>2. CASE ClientCheckManagerWindow(c)
  <2>1. DataOf(owner, d.settings, d.serial) \in Data
        /\ DataOf(owner, d.settings, d.serial).manager_win = owner
    BY <1>a, <1>b DEF TypeOK, Data, DataOf
  <2>2. TypeOK'
    BY <1>2, <1>a, <2>1 DEF ClientCheckManagerWindow, TypeOK, ClientPC, managerVars
  <2>3. /\ client_data'[c].manager_win = owner /\ cpc'[c] = "read"
        /\ c \in rootListeners' /\ owner' = owner /\ created' = created /\ alive' = alive
        /\ owner # None => owner \in selected'[c]
    BY <1>2, <1>a, <2>1 DEF ClientCheckManagerWindow, TypeOK, Told
  <2>4. owner # None => owner \in alive /\ owner \in created
    BY <1>a DEF IInv, WindowsHeld, TypeOK
  <2>5. Told(c)'
    <3>1. owner \in alive => owner # None
      BY <1>a, WindowsAssumption DEF TypeOK
    <3>2. /\ owner # None => owner \in created'
          /\ owner \in alive' => owner \in selected'[c]
          /\ ~(owner # None /\ owner \notin alive')
      BY <2>3, <2>4, <3>1
    <3>3. cpc'[c] # "idle" /\ owner' = owner /\ client_data'[c].manager_win = owner
          /\ c \in rootListeners'
      BY <2>3
    <3>4. QED
      BY <3>2, <3>3, Zenon DEF Told
  <2>6. QED
    BY <1>2, <1>a, <2>2, <2>5, ClientFrame DEF ClientCheckManagerWindow, TypeOK
<1>3. CASE ClientReadSettings(c)
  <2> DEFINE p == PropertyOf(d.manager_win)
  <2>1. p \in Property
    BY <1>a, <1>b, NullTypes DEF PropertyOf, TypeOK
  <2>2. ReadInto(d, p) \in Data
        /\ ReadInto(d, p).manager_win = d.manager_win
        /\ ReadInto(d, p).settings = p.settings
    <3>1. p.settings \in Settings /\ p.serial \in Serial \cup {-1}
      BY <2>1 DEF Property
    <3>2. QED
      BY <1>b, <3>1 DEF Data, DataOf, ReadInto
  <2>3. TypeOK'
    BY <1>3, <1>a, <2>2 DEF ClientReadSettings, TypeOK, ClientPC, serverVars, managerVars
  <2>4. client_data'[c] = ReadInto(d, p)
    BY <1>3, <1>a DEF ClientReadSettings, TypeOK
  <2>5. Announced(owner)' = Announced(owner)
    BY <1>3 DEF ClientReadSettings, Announced, serverVars, managerVars
  <2>6. Told(c)'
    BY <1>3, <1>a, <2>2, <2>4, <2>5
       DEF ClientReadSettings, Told, TypeOK, PropertyOf, serverVars, managerVars
  <2>7. QED
    BY <1>3, <1>a, <2>3, <2>6, ClientFrame DEF ClientReadSettings, TypeOK, serverVars
<1>4. CASE ClientProcessXEvent(c)
  <2> DEFINE e == Head(cevents[c])
  <2>1. cevents[c] \in Seq(Event) /\ cevents[c] # <<>>
    BY <1>4, <1>a DEF ClientProcessXEvent, TypeOK
  <2>2. /\ Tail(cevents[c]) \in Seq(Event)
        /\ \A f : Waiting(f, cevents[c]) /\ f # e => Waiting(f, Tail(cevents[c]))
    BY <2>1, TailWaiting
  <2>3. /\ cevents'[c] = Tail(cevents[c])
        /\ cpc'[c] = Reaction(c, e)
        /\ cpc[c] = "idle"
    BY <1>4, <1>a DEF ClientProcessXEvent, TypeOK
  <2>4. /\ Reaction(c, e) \in {"check", "read", "idle"}
        /\ e = MANAGER \/ e = DestroyNotify(d.manager_win) => Reaction(c, e) = "check"
        /\ e = PropertyNotify(d.manager_win) => Reaction(c, e) # "idle"
    BY DEF Reaction, MANAGER, DestroyNotify, PropertyNotify
  <2>5. TypeOK'
    BY <1>4, <1>a, <2>2, <2>4 DEF ClientProcessXEvent, TypeOK, ClientPC, serverVars, managerVars
  <2>6. Announced(owner)' = Announced(owner)
    BY <1>4 DEF ClientProcessXEvent, Announced, serverVars, managerVars
  <2>7. /\ Reaction(c, e) # "check" =>
             \A f \in {MANAGER, DestroyNotify(d.manager_win)} :
               Waiting(f, cevents[c]) => Waiting(f, cevents'[c])
        /\ Reaction(c, e) = "idle" =>
             (Waiting(PropertyNotify(d.manager_win), cevents[c])
                => Waiting(PropertyNotify(d.manager_win), cevents'[c]))
    BY <2>2, <2>3, <2>4
  <2>8. Told(c)'
    BY <1>4, <1>a, <2>3, <2>4, <2>6, <2>7
       DEF ClientProcessXEvent, Told, PropertyOf, serverVars, managerVars
  <2>9. QED
    BY <1>4, <1>a, <2>5, <2>8, ClientFrame DEF ClientProcessXEvent, TypeOK, serverVars
<1>5. CASE ClientSet(c)
  <2>1. PICK n \in MaySet[c], v \in Values :
          client_data' = [client_data EXCEPT
            ![c] = WithSettings(@, PutSetting(@.settings, n, v, @.serial))]
    BY <1>5 DEF ClientSet
  <2> DEFINE s == PutSetting(d.settings, n, v, d.serial)
  <2>2. n \in Names /\ c \in Writers
    BY <2>1, MaySetAssumption DEF Writers
  <2>3. WithSettings(d, s) \in Data
        /\ WithSettings(d, s).manager_win = d.manager_win
    <3>1. s \in Settings
      BY <1>b, <2>2, PutSettingType
    <3>2. QED
      BY <1>b, <3>1 DEF Data, DataOf, WithSettings
  <2>4. client_data' \in [Clients -> Data]
        /\ client_data'[c].manager_win = d.manager_win
        /\ \A k \in Clients : k # c => client_data'[k] = client_data[k]
    BY <1>a, <2>1, <2>3 DEF TypeOK
  <2>5. TypeOK'
    BY <1>5, <1>a, <2>4 DEF ClientSet, TypeOK, serverVars, managerVars
  <2>6. Announced(owner)' = Announced(owner)
    BY <1>5 DEF ClientSet, Announced, serverVars, managerVars
  <2>7. Told(c)'
    BY <1>5, <1>a, <2>2, <2>4, <2>6 DEF ClientSet, Told, serverVars, managerVars
  <2>8. QED
    BY <1>5, <2>4, <2>5, <2>7, ClientFrame DEF ClientSet, serverVars
<1>6. CASE ClientManagerNotify(c)
  <2>1. /\ property' \in [Windows -> Property]
        /\ cevents' \in [Clients -> Seq(Event)]
        /\ \A w \in Windows \ alive : property'[w] = property[w]
        /\ \A k \in Clients : \A f : Waiting(f, cevents[k]) => Waiting(f, cevents'[k])
        /\ \A k \in Clients, w \in Windows :
             property'[w] # property[w] /\ w \in selected[k]
               => Waiting(PropertyNotify(w), cevents'[k])
    BY <1>6, <1>c, PublishIInv DEF ClientManagerNotify
  <2>2. /\ client_data' \in [Clients -> Data]
        /\ client_data'[c].manager_win = d.manager_win
        /\ \A k \in Clients : k # c => client_data'[k] = client_data[k]
    <3>1. d.serial + 1 \in Serial
      BY <1>6, <1>b, MaxSerialAssumption DEF ClientManagerNotify, Serial
    <3>2. WithSerial(d, d.serial + 1) \in Data
          /\ WithSerial(d, d.serial + 1).manager_win = d.manager_win
      BY <1>b, <3>1 DEF Data, DataOf, WithSerial
    <3>3. QED
      BY <1>6, <1>a, <3>2 DEF ClientManagerNotify, TypeOK
  <2>3. TypeOK'
    BY <1>6, <1>a, <2>1, <2>2 DEF ClientManagerNotify, TypeOK, managerVars
  <2>4. WindowsHeld' /\ ManagersTold'
    BY <1>6, <2>1 DEF ClientManagerNotify, IInv, TypeOK, WindowsHeld, ManagersTold, managerVars
  <2>5. Announced(owner)' = Announced(owner)
    BY <1>6 DEF ClientManagerNotify, Announced, managerVars
  <2>6. ASSUME NEW k \in Clients
        PROVE  Told(k)'
    <3>1. Told(k) /\ client_data[k].manager_win \in Windows \cup {None}
      BY <1>a DEF IInv, ClientsTold, Told, TypeOK, Data
    <3>2. CASE k = c
      BY <1>6, <2>1, <2>2, <2>5, <3>1, <3>2 DEF ClientManagerNotify, Told
    <3>3. CASE k # c
      <4> DEFINE w == client_data[k].manager_win
      <4>1. client_data'[k] = client_data[k]
        BY <2>2, <3>3
      <4>2. PropertyOf(w)' # PropertyOf(w) =>
              w \in alive /\ property'[w] # property[w] /\ w \in Windows
        BY <2>1, <3>1, <4>1 DEF PropertyOf
      <4>3. cpc[k] = "idle" /\ PropertyOf(w)' # PropertyOf(w) =>
              Waiting(PropertyNotify(w), cevents'[k])
        BY <2>1, <3>1, <4>2 DEF Told
      <4>4. QED
        BY <1>6, <2>1, <2>5, <3>1, <4>1, <4>3 DEF ClientManagerNotify, Told
    <3>4. QED
      BY <3>2, <3>3
  <2>7. QED
    BY <2>3, <2>4, <2>6 DEF IInv, ClientsTold, Told
<1>7. CASE ClientClear(c)
  <2>1. TypeOK'
    BY <1>7, <1>a, NullTypes DEF ClientClear, TypeOK, ClientPC, serverVars, managerVars
  <2>2. client_data'[c].manager_win = None /\ cpc'[c] = "off"
    BY <1>7, <1>a, NullTypes DEF ClientClear, TypeOK
  <2>3. Told(c)'
    BY <2>2 DEF Told
  <2>4. QED
    BY <1>7, <1>a, <2>1, <2>3, ClientFrame DEF ClientClear, TypeOK, serverVars
<1>8. CASE ClientDropEvent(c)
  <2>1. cevents' \in [Clients -> Seq(Event)]
    BY <1>8, <1>a, TailWaiting DEF ClientDropEvent, TypeOK
  <2>2. TypeOK'
    BY <1>8, <1>a, <2>1 DEF ClientDropEvent, TypeOK, serverVars, managerVars
  <2>3. Told(c)'
    BY <1>8, <1>a DEF ClientDropEvent, Told, serverVars
  <2>4. QED
    BY <1>8, <1>a, <2>2, <2>3, ClientFrame DEF ClientDropEvent, TypeOK, serverVars
<1>9. QED
  BY <1>1, <1>2, <1>3, <1>4, <1>5, <1>6, <1>7, <1>8 DEF ClientNext
-------------------------------------------------------------------------------
(* IInv is kept by every step.                                             *)
LEMMA NextIInv == IInv /\ [Next]_vars => IInv'
<1> SUFFICES ASSUME IInv, [Next]_vars PROVE IInv'
  OBVIOUS
<1>1. CASE Tick
  <2>1. TypeOK'
    BY <1>1 DEF IInv, Tick, TypeOK, managerVars, clientVars
  <2>2. Announced(owner)' = Announced(owner)
    BY <1>1 DEF Tick, Announced, managerVars
  <2>3. WindowsHeld' /\ ManagersTold' /\ ClientsTold'
    BY <1>1, <2>2
       DEF IInv, Tick, WindowsHeld, ManagersTold, ClientsTold, Told, PropertyOf, managerVars, clientVars
  <2>4. QED
    BY <2>1, <2>3 DEF IInv
<1>2. CASE \E m \in Managers : ManagerNext(m)
  BY <1>2, ManagerStepIInv
<1>3. CASE \E c \in Clients : ClientNext(c)
  BY <1>3, ClientStepIInv
<1>4. CASE UNCHANGED vars
  <2>1. TypeOK'
    BY <1>4 DEF IInv, TypeOK, vars, serverVars, managerVars, clientVars
  <2>2. Announced(owner)' = Announced(owner)
    BY <1>4 DEF Announced, vars, serverVars, managerVars
  <2>3. WindowsHeld' /\ ManagersTold' /\ ClientsTold'
    BY <1>4, <2>2
       DEF IInv, WindowsHeld, ManagersTold, ClientsTold, Told, PropertyOf,
           vars, serverVars, managerVars, clientVars
  <2>4. QED
    BY <2>1, <2>3 DEF IInv
<1>5. QED
  BY <1>1, <1>2, <1>3, <1>4 DEF Next

(* Whatever a manager or a client does not know is on its way to it: the   *)
(* invariant of init(), process_xevent() and should_terminate().           *)
THEOREM Inductive == Spec => []IInv
<1>1. Init => IInv
  BY InitIInv
<1>2. IInv /\ [Next]_vars => IInv'
  BY NextIInv
<1>3. QED
  BY <1>1, <1>2, PTL DEF Spec

(* Every variable keeps its type: no list, serial or queue is ever         *)
(* anything else, whatever the handlers are given.                         *)
THEOREM TypeCorrect == Spec => []TypeOK
<1>1. IInv => TypeOK
  BY DEF IInv
<1>2. QED
  BY <1>1, Inductive, PTL

(* A client that has processed its events watches the owner of the         *)
(* selection and holds what is published there (XSettingsClient.cpp).      *)
THEOREM NothingIsMissed == Spec => []NothingMissed
<1>1. IInv => NothingMissed
  <2> SUFFICES ASSUME IInv, NEW c \in Clients, cpc[c] = "idle", cevents[c] = <<>>
               PROVE  InSync(c)
    BY DEF NothingMissed
  <2>1. \A e : ~Waiting(e, cevents[c])
    BY DEF Waiting
  <2>2. QED
    BY <2>1 DEF IInv, ClientsTold, Told, InSync
<1>2. QED
  BY <1>1, Inductive, PTL

(* Of two managers that both succeeded in init(), one has a SelectionClear *)
(* coming that makes should_terminate() true (XSettingsManager.cpp).       *)
THEOREM LosersAreTold == Spec => []LoserIsTold
<1>1. IInv => LoserIsTold
  BY DEF IInv, ManagersTold, LoserIsTold
<1>2. QED
  BY <1>1, Inductive, PTL
-------------------------------------------------------------------------------
(* Stamps: what set(), notify() and read_settings() make of a list whose   *)
(* stamps are bounded by a serial.                                         *)
LEMMA SettingType ==
  ASSUME NEW s \in Settings, NEW n \in DOMAIN s
  PROVE  s[n].stamp \in Nat
<1>1. PICK S \in SUBSET Names : s \in [S -> Setting]
  BY DEF Settings
<1>2. s[n] \in Setting
  BY <1>1
<1>3. QED
  BY <1>2, MaxSerialAssumption DEF Setting, Serial

LEMMA PutSettingBounded ==
  ASSUME NEW s \in Settings, NEW n, NEW v, NEW k \in Serial, Bounded(s, k)
  PROVE  Bounded(PutSetting(s, n, v, k), k)
<1>1. k <= k
  BY MaxSerialAssumption DEF Serial
<1>2. QED
  BY <1>1 DEF PutSetting, Bounded

LEMMA BoundedLater ==
  ASSUME NEW s \in Settings, NEW k \in Serial, Bounded(s, k)
  PROVE  Bounded(s, k + 1)
BY SettingType, MaxSerialAssumption DEF Bounded, Serial

LEMMA NothingBounded == \A k : Bounded(EmptySettings, k)
BY DEF Bounded, EmptySettings

LEMMA ReadBounded ==
  ASSUME NEW p \in Property, NEW data \in Data, Bounded(p.settings, p.serial)
  PROVE  Bounded(ReadInto(data, p).settings, ReadInto(data, p).serial)
<1>1. p.settings \in Settings /\ p.serial \in Serial \cup {-1}
  BY DEF Property
<1>2. \A n \in DOMAIN p.settings : p.settings[n].stamp \in Nat
  BY <1>1, SettingType
<1>3. CASE p.serial = -1
  BY <1>2, <1>3 DEF Bounded, ReadInto, DataOf
<1>4. CASE p.serial # -1
  BY <1>4 DEF Bounded, ReadInto, DataOf
<1>5. QED
  BY <1>3, <1>4

(* A publication keeps the bound on every window.                          *)
LEMMA PublishBounded ==
  ASSUME TypeOK, NEW data, Publish(data), Bounded(data.settings, data.serial),
         \A w \in Windows : Bounded(property[w].settings, property[w].serial)
  PROVE  \A w \in Windows : Bounded(property'[w].settings, property'[w].serial)
<1> DEFINE u == data.manager_win
           q == [settings |-> data.settings, serial |-> data.serial]
<1>1. property \in [Windows -> Property]
  BY DEF TypeOK
<1>2. property' = property \/ property' = [property EXCEPT ![u] = q]
  BY DEF Publish
<1>3. q.settings = data.settings /\ q.serial = data.serial
  OBVIOUS
<1> HIDE DEF q
<1>4. \A w \in Windows : property'[w] = property[w] \/ property'[w] = q
  BY <1>1, <1>2
<1>5. QED
  BY <1>3, <1>4

(* clear() leaves an empty list and takes a property away.                 *)
LEMMA ManagerClearBounded ==
  ASSUME TypeOK, StampsBounded, NEW m \in Managers, ManagerClear(m)
  PROVE  StampsBounded'
<1>1. \A w \in Windows : property'[w] = property[w] \/ property'[w] = NoProperty
  BY DEF ManagerClear, DestroyWindow, TypeOK
<1>2. \A k \in Managers : manager_data'[k] = manager_data[k] \/ manager_data'[k] = NullData
  BY DEF ManagerClear, TypeOK
<1>3. NoProperty.settings = EmptySettings /\ NullData.settings = EmptySettings
  BY DEF NoProperty, NullData, DataOf
<1>4. \A c \in Clients : client_data'[c] = client_data[c]
  BY DEF ManagerClear
<1>5. QED
  BY <1>1, <1>2, <1>3, <1>4, NothingBounded DEF StampsBounded

LEMMA NextStamps == TypeOK /\ StampsBounded /\ [Next]_vars => StampsBounded'
<1> SUFFICES ASSUME TypeOK, StampsBounded, [Next]_vars PROVE StampsBounded'
  OBVIOUS
<1>1. \A data \in Data : data.settings \in Settings /\ data.serial \in Serial
  BY DEF Data
<1>2. NullData.settings = EmptySettings
  BY DEF NullData, DataOf
<1>3. ASSUME NEW m \in Managers, ManagerNext(m)
      PROVE  StampsBounded'
  <2> DEFINE d == manager_data[m]
  <2>1. d \in Data /\ d.settings \in Settings /\ d.serial \in Serial
    BY <1>1 DEF TypeOK
  <2>2. CASE ManagerCreateWindow(m)
    <3>1. PICK w : manager_data' = [manager_data EXCEPT ![m] = DataOf(w, EmptySettings, 0)]
      BY <2>2 DEF ManagerCreateWindow
    <3>2. DataOf(w, EmptySettings, 0).settings = EmptySettings
      BY DEF DataOf
    <3>3. QED
      BY <2>2, <3>1, <3>2, NothingBounded DEF ManagerCreateWindow, TypeOK, StampsBounded, clientVars
  <2>3. CASE ManagerSetSelectionOwner(m)
    BY <2>3 DEF ManagerSetSelectionOwner, StampsBounded, clientVars
  <2>4. CASE ManagerGetSelectionOwner(m)
    BY <2>4, ManagerClearBounded DEF ManagerGetSelectionOwner, StampsBounded, serverVars, clientVars
  <2>5. CASE ManagerAnnounce(m)
    BY <2>5 DEF ManagerAnnounce, StampsBounded, serverVars
  <2>6. CASE ManagerSet(m)
    <3>1. PICK n \in Names, v \in Values :
            manager_data' = [manager_data EXCEPT
              ![m] = WithSettings(@, PutSetting(@.settings, n, v, @.serial))]
      BY <2>6 DEF ManagerSet
    <3>2. Bounded(PutSetting(d.settings, n, v, d.serial), d.serial)
      BY <2>1, PutSettingBounded DEF StampsBounded
    <3>3. Bounded(manager_data'[m].settings, manager_data'[m].serial)
      BY <3>1, <3>2 DEF TypeOK, WithSettings, DataOf
    <3>4. QED
      BY <2>6, <3>1, <3>3 DEF ManagerSet, TypeOK, StampsBounded, serverVars, clientVars
  <2>7. CASE ManagerNotify(m)
    <3>1. Bounded(d.settings, d.serial) /\ Bounded(d.settings, d.serial + 1)
      BY <2>1, BoundedLater DEF StampsBounded
    <3>2. \A w \in Windows : Bounded(property'[w].settings, property'[w].serial)
      BY <2>7, <3>1, PublishBounded DEF ManagerNotify, StampsBounded
    <3>3. Bounded(manager_data'[m].settings, manager_data'[m].serial)
      BY <2>7, <3>1 DEF ManagerNotify, TypeOK, WithSerial, DataOf
    <3>4. QED
      BY <2>7, <3>2, <3>3 DEF ManagerNotify, TypeOK, StampsBounded
  <2>8. CASE ManagerEvent(m)
    BY <2>8, ManagerClearBounded DEF ManagerEvent, StampsBounded, serverVars, clientVars
  <2>9. CASE ManagerStop(m) \/ ManagerCrash(m)
    BY <2>9, ManagerClearBounded DEF ManagerStop, ManagerCrash
  <2>10. QED
    BY <1>3, <2>2, <2>3, <2>4, <2>5, <2>6, <2>7, <2>8, <2>9 DEF ManagerNext
<1>4. ASSUME NEW c \in Clients, ClientNext(c)
      PROVE  StampsBounded'
  <2> DEFINE d == client_data[c]
  <2>1. d \in Data /\ d.settings \in Settings /\ d.serial \in Serial
    BY <1>1 DEF TypeOK
  <2>2. CASE ClientInit(c) \/ ClientClear(c)
    BY <1>2, <2>2, NothingBounded
       DEF ClientInit, ClientClear, TypeOK, StampsBounded, serverVars, managerVars
  <2>3. CASE ClientCheckManagerWindow(c)
    BY <2>3 DEF ClientCheckManagerWindow, TypeOK, StampsBounded, managerVars, DataOf
  <2>4. CASE ClientReadSettings(c)
    <3> DEFINE p == PropertyOf(d.manager_win)
    <3>1. p \in Property /\ Bounded(p.settings, p.serial)
      <4>1. d.manager_win \in Windows \cup {None}
        BY <2>1 DEF Data
      <4>2. Bounded(NoProperty.settings, NoProperty.serial)
        BY NothingBounded DEF NoProperty
      <4>3. QED
        BY <4>1, <4>2, NullTypes DEF PropertyOf, TypeOK, StampsBounded
    <3>2. Bounded(ReadInto(d, p).settings, ReadInto(d, p).serial)
      BY <2>1, <3>1, ReadBounded
    <3>3. QED
      BY <2>4, <3>2 DEF ClientReadSettings, TypeOK, StampsBounded, serverVars, managerVars
  <2>5. CASE ClientProcessXEvent(c) \/ ClientDropEvent(c)
    BY <2>5 DEF ClientProcessXEvent, ClientDropEvent, StampsBounded, serverVars, managerVars
  <2>6. CASE ClientSet(c)
    <3>1. PICK n \in MaySet[c], v \in Values :
            client_data' = [client_data EXCEPT
              ![c] = WithSettings(@, PutSetting(@.settings, n, v, @.serial))]
      BY <2>6 DEF ClientSet
    <3>2. Bounded(PutSetting(d.settings, n, v, d.serial), d.serial)
      BY <2>1, PutSettingBounded DEF StampsBounded
    <3>3. Bounded(client_data'[c].settings, client_data'[c].serial)
      BY <3>1, <3>2 DEF TypeOK, WithSettings, DataOf
    <3>4. QED
      BY <2>6, <3>1, <3>3 DEF ClientSet, TypeOK, StampsBounded, serverVars, managerVars
  <2>7. CASE ClientManagerNotify(c)
    <3>1. Bounded(d.settings, d.serial) /\ Bounded(d.settings, d.serial + 1)
      BY <2>1, BoundedLater DEF StampsBounded
    <3>2. \A w \in Windows : Bounded(property'[w].settings, property'[w].serial)
      BY <2>7, <3>1, PublishBounded DEF ClientManagerNotify, StampsBounded
    <3>3. Bounded(client_data'[c].settings, client_data'[c].serial)
      BY <2>7, <3>1 DEF ClientManagerNotify, TypeOK, WithSerial, DataOf
    <3>4. QED
      BY <2>7, <3>2, <3>3 DEF ClientManagerNotify, TypeOK, StampsBounded, managerVars
  <2>8. QED
    BY <1>4, <2>2, <2>3, <2>4, <2>5, <2>6, <2>7 DEF ClientNext
<1>5. CASE Tick \/ UNCHANGED vars
  BY <1>5 DEF Tick, vars, serverVars, managerVars, clientVars, StampsBounded
<1>6. QED
  BY <1>3, <1>4, <1>5 DEF Next

(* No setting is stamped later than the serial its list goes out under,    *)
(* whoever set it (xsettings_manager_set_setting(), XSettingsCommon.cpp).  *)
THEOREM StampsAreBounded == Spec => []StampsBounded
<1>1. Init => StampsBounded
  <2>1. NoProperty.settings = EmptySettings /\ NullData.settings = EmptySettings
    BY DEF NoProperty, NullData, DataOf
  <2>2. QED
    BY <2>1, NothingBounded DEF Init, StampsBounded
<1>2. TypeOK /\ StampsBounded /\ [Next]_vars => StampsBounded'
  BY NextStamps
<1>3. QED
  BY <1>1, <1>2, TypeCorrect, PTL DEF Spec
-------------------------------------------------------------------------------
(* Without writing clients a window's property is its manager's own.       *)

(* Whatever set() makes of a list tells its changes if the list did, since *)
(* set() stamps with a serial that was not published.                      *)
LEMMA PutSettingTells ==
  ASSUME NEW s \in Settings, NEW n, NEW v, NEW serial, NEW p, NEW k, serial > k,
         TellsChanges(s, p, k)
  PROVE  TellsChanges(PutSetting(s, n, v, serial), p, k)
BY DEF PutSetting, TellsChanges

(* clear() takes a window away and nothing else from the rest.             *)
LEMMA ManagerClearAhead ==
  ASSUME IInv, ManagersAhead, NEW m \in Managers, mpc[m] # "none", ManagerClear(m)
  PROVE  ManagersAhead'
<1> SUFFICES ASSUME NEW w \in alive'
             PROVE  /\ manager_data'[Creator[w]] = manager_data[Creator[w]]
                    /\ property'[w] = property[w]
                    /\ w \in alive
  BY DEF ManagersAhead
<1>1. w \in alive /\ w # manager_data[m].manager_win /\ w \in Windows
  BY DEF ManagerClear, DestroyWindow, IInv, TypeOK
<1>2. Creator[w] # m
  BY <1>1 DEF IInv, WindowsHeld
<1>3. QED
  BY <1>1, <1>2, WindowsAssumption DEF ManagerClear, DestroyWindow, IInv, TypeOK

(* What a step does to the windows that live before and after it.          *)
TellsAll ==
  \A w \in alive \cap alive' :
    property'[w] # property[w] =>
      /\ property'[w].serial > property[w].serial
      /\ TellsChanges(property'[w].settings, property[w].settings, property[w].serial)

(* Only notify() changes the property of a window that lives on.           *)
LEMMA AheadStep ==
  ASSUME Writers = {}, IInv, ManagersAhead, [Next]_vars
  PROVE  ManagersAhead' /\ TellsAll
<1> USE DEF TellsAll
<1>1. ASSUME NEW m \in Managers, ManagerNext(m)
      PROVE  ManagersAhead' /\ TellsAll
  <2> DEFINE d == manager_data[m]
  <2>1. d \in Data /\ d.settings \in Settings /\ d.serial \in Serial /\ d.serial \in Int
    BY MaxSerialAssumption DEF IInv, TypeOK, Data, Serial
  <2>2. CASE ManagerCreateWindow(m)
    <3>1. PICK w \in Windows \ created :
            /\ Creator[w] = m
            /\ alive' = alive \cup {w}
            /\ manager_data' = [manager_data EXCEPT ![m] = DataOf(w, EmptySettings, 0)]
      BY <2>2 DEF ManagerCreateWindow
    <3>2. property' = property
      BY <2>2 DEF ManagerCreateWindow
    <3>3. property[w] = NoProperty /\ w \notin alive
      BY <3>1 DEF IInv, WindowsHeld, TypeOK
    <3>4. /\ manager_data'[m].settings = EmptySettings
          /\ manager_data'[m].serial = 0
      BY <3>1 DEF IInv, TypeOK, DataOf
    <3>5. ASSUME NEW u \in alive
          PROVE  manager_data'[Creator[u]] = manager_data[Creator[u]]
      <4>1. Creator[u] # m
        BY <2>2 DEF ManagerCreateWindow, IInv, WindowsHeld
      <4>2. QED
        BY <3>1, <4>1, WindowsAssumption DEF IInv, TypeOK
    <3>6. 0 > NoProperty.serial /\ \A p, k : TellsChanges(EmptySettings, p, k)
      BY DEF NoProperty, TellsChanges, EmptySettings
    <3>7. QED
      BY <3>1, <3>2, <3>3, <3>4, <3>5, <3>6 DEF ManagersAhead
  <2>3. CASE ManagerSetSelectionOwner(m)
    BY <2>3 DEF ManagerSetSelectionOwner, ManagersAhead
  <2>4. CASE ManagerClear(m) /\ mpc[m] # "none"
    <3>1. \A w \in alive' : property'[w] = property[w]
      BY <2>4 DEF ManagerClear, DestroyWindow, IInv, TypeOK
    <3>2. QED
      BY <2>4, <3>1, ManagerClearAhead
  <2>5. CASE ManagerAnnounce(m)
    BY <2>5 DEF ManagerAnnounce, ManagersAhead, serverVars
  <2>6. CASE ManagerSet(m)
    <3>1. PICK n \in Names, v \in Values :
            manager_data' = [manager_data EXCEPT
              ![m] = WithSettings(@, PutSetting(@.settings, n, v, @.serial))]
      BY <2>6 DEF ManagerSet
    <3>2. /\ manager_data'[m].settings = PutSetting(d.settings, n, v, d.serial)
          /\ manager_data'[m].serial = d.serial
      BY <3>1 DEF IInv, TypeOK, WithSettings, DataOf
    <3>3. property' = property /\ alive' = alive
      BY <2>6 DEF ManagerSet, serverVars
    <3>4. ASSUME NEW w \in alive, Creator[w] = m
          PROVE  /\ manager_data'[m].serial > property[w].serial
                 /\ TellsChanges(manager_data'[m].settings, property[w].settings, property[w].serial)
      BY <2>1, <3>2, <3>4, PutSettingTells DEF ManagersAhead
    <3>5. ASSUME NEW w \in alive, Creator[w] # m
          PROVE  manager_data'[Creator[w]] = manager_data[Creator[w]]
      BY <3>1, <3>5, WindowsAssumption DEF IInv, TypeOK
    <3>6. QED
      BY <3>3, <3>4, <3>5 DEF ManagersAhead
  <2>7. CASE ManagerNotify(m)
    <3> DEFINE u == d.manager_win
    <3>1. u \in alive /\ Creator[u] = m /\ u \in Windows
      BY <2>7 DEF ManagerNotify, IInv, ManagersTold, TypeOK
    <3>2. /\ property'[u].settings = d.settings
          /\ property'[u].serial = d.serial
          /\ \A w \in Windows : w # u => property'[w] = property[w]
      BY <2>7, <3>1 DEF ManagerNotify, Publish, IInv, TypeOK
    <3>3. /\ manager_data'[m].settings = d.settings
          /\ manager_data'[m].serial = d.serial + 1
      BY <2>7 DEF ManagerNotify, IInv, TypeOK, WithSerial, DataOf
    <3>4. alive' = alive /\ alive \in SUBSET Windows
      BY <2>7 DEF ManagerNotify, IInv, TypeOK
    <3>5. ASSUME NEW w \in alive, w # u
          PROVE  manager_data'[Creator[w]] = manager_data[Creator[w]] /\ property'[w] = property[w]
      <4>1. Creator[w] # m
        BY <3>5 DEF IInv, WindowsHeld
      <4>2. QED
        BY <2>7, <3>2, <3>4, <3>5, <4>1, WindowsAssumption DEF ManagerNotify, IInv, TypeOK
    <3>6. TellsChanges(d.settings, d.settings, d.serial) /\ d.serial + 1 > d.serial
      BY <2>1 DEF TellsChanges
    <3>7. /\ d.serial > property[u].serial
          /\ TellsChanges(d.settings, property[u].settings, property[u].serial)
      BY <3>1 DEF ManagersAhead
    <3>8. ManagersAhead'
      <4> SUFFICES ASSUME NEW w \in alive
                   PROVE  /\ manager_data'[Creator[w]].serial > property'[w].serial
                          /\ TellsChanges(manager_data'[Creator[w]].settings,
                                          property'[w].settings, property'[w].serial)
        BY <3>4 DEF ManagersAhead
      <4>1. CASE w = u
        BY <3>1, <3>2, <3>3, <3>6, <4>1
      <4>2. CASE w # u
        BY <3>5, <4>2 DEF ManagersAhead
      <4>3. QED
        BY <4>1, <4>2
    <3>9. TellsAll
      BY <3>2, <3>5, <3>7
    <3>10. QED
      BY <3>8, <3>9
  <2>8. CASE UNCHANGED <<serverVars, manager_data>>
    BY <2>8 DEF ManagersAhead, serverVars
  <2>9. ManagerGetSelectionOwner(m) \/ ManagerEvent(m) \/ ManagerStop(m) \/ ManagerCrash(m) =>
          \/ ManagerClear(m) /\ mpc[m] # "none"
          \/ UNCHANGED <<serverVars, manager_data>>
    BY DEF ManagerGetSelectionOwner, ManagerEvent, ManagerStop, ManagerCrash
  <2>10. QED
    BY <1>1, <2>2, <2>3, <2>4, <2>5, <2>6, <2>7, <2>8, <2>9 DEF ManagerNext
<1>2. ASSUME NEW c \in Clients, ClientNext(c)
      PROVE  UNCHANGED <<alive, property, manager_data>>
  BY <1>2 DEF ClientNext, ClientInit, ClientCheckManagerWindow, ClientReadSettings,
              ClientProcessXEvent, ClientSet, ClientManagerNotify, ClientClear,
              ClientDropEvent, serverVars, managerVars
<1>3. Tick \/ UNCHANGED vars => UNCHANGED <<alive, property, manager_data>>
  BY DEF Tick, vars, serverVars, managerVars
<1>4. CASE UNCHANGED <<alive, property, manager_data>>
  BY <1>4 DEF ManagersAhead
<1>5. QED
  BY <1>1, <1>2, <1>3, <1>4 DEF Next

LEMMA AheadInit == Init => ManagersAhead
BY DEF Init, ManagersAhead

(* Where clients only read, a list that replaces another on a window bears *)
(* a higher serial (xsettings_manager_notify(), XSettingsCommon.cpp).      *)
THEOREM SerialAlwaysTells ==
  ASSUME Writers = {} PROVE Spec => SerialTellsChange
<1>1. IInv /\ ManagersAhead /\ [Next]_vars => ManagersAhead'
  BY AheadStep
<1>2. IInv /\ ManagersAhead /\ [Next]_vars =>
        [\A w \in alive \cap alive' :
           property'[w] # property[w] => property'[w].serial > property[w].serial]_vars
  BY AheadStep DEF TellsAll
<1>3. QED
  BY <1>1, <1>2, AheadInit, Inductive, PTL DEF Spec, SerialTellsChange

(* And what the new list changes or adds is stamped later than the list it *)
(* replaces (xsettings_manager_set_setting(), XSettingsCommon.cpp).        *)
THEOREM StampsAlwaysTell ==
  ASSUME Writers = {} PROVE Spec => StampsTellChanges
<1>1. IInv /\ ManagersAhead /\ [Next]_vars => ManagersAhead'
  BY AheadStep
<1>2. IInv /\ ManagersAhead /\ [Next]_vars =>
        [\A w \in alive \cap alive' : \A n \in DOMAIN property'[w].settings :
           \/ property'[w].settings[n].stamp > property[w].serial
           \/ /\ n \in DOMAIN property[w].settings
              /\ property'[w].settings[n].val = property[w].settings[n].val]_vars
  <2>1. \A s, k : TellsChanges(s, s, k)
    BY DEF TellsChanges
  <2>2. QED
    BY AheadStep, <2>1 DEF TellsAll, TellsChanges
<1>3. QED
  BY <1>1, <1>2, AheadInit, Inductive, PTL DEF Spec, StampsTellChanges
-------------------------------------------------------------------------------
(* What an application sees.  A list in its order: each name has its place *)
(* by the number of smaller ones.                                          *)
LEMMA Places0 ==
  ASSUME NEW s, DOMAIN s \in SUBSET Names, IsFiniteSet(DOMAIN s)
  PROVE  /\ Cardinality(DOMAIN s) \in Nat
         /\ \A n \in Names : IsFiniteSet(Smaller(s, n)) /\ Cardinality(Smaller(s, n)) \in Nat
         /\ \A m \in DOMAIN s, n \in Names :
              <<m, n>> \in Before => Cardinality(Smaller(s, m)) < Cardinality(Smaller(s, n))
         /\ \A i \in 1..Cardinality(DOMAIN s) :
              \E n \in DOMAIN s : Cardinality(Smaller(s, n)) = i - 1
<1> DEFINE D == DOMAIN s
           N == Cardinality(D)
           f == [n \in D |-> Cardinality(Smaller(s, n)) + 1]
<1>1. N \in Nat
  BY FS_CardinalityType
<1>2. ASSUME NEW n \in Names
      PROVE  /\ IsFiniteSet(Smaller(s, n)) /\ Cardinality(Smaller(s, n)) \in Nat
             /\ Cardinality(Smaller(s, n)) <= N
             /\ n \in D => Cardinality(Smaller(s, n)) < N
  <2>1. Smaller(s, n) \in SUBSET D /\ (n \in D => n \notin Smaller(s, n))
    BY OrderAssumption DEF Smaller
  <2>2. IsFiniteSet(Smaller(s, n)) /\ Cardinality(Smaller(s, n)) <= N
    BY <2>1, FS_Subset
  <2>3. n \in D => Cardinality(Smaller(s, n)) # N
    BY <2>1, FS_Subset
  <2>4. Cardinality(Smaller(s, n)) \in Nat
    BY <2>2, FS_CardinalityType
  <2> QED
    BY <1>1, <2>2, <2>3, <2>4
<1>3. ASSUME NEW m \in D, NEW n \in Names, <<m, n>> \in Before
      PROVE  Cardinality(Smaller(s, m)) < Cardinality(Smaller(s, n))
  <2>1. Smaller(s, m) \in SUBSET Smaller(s, n)
    BY <1>3, OrderAssumption DEF Smaller
  <2>2. m \in Smaller(s, n) /\ m \notin Smaller(s, m)
    BY <1>3, OrderAssumption DEF Smaller
  <2>3. /\ Cardinality(Smaller(s, m)) <= Cardinality(Smaller(s, n))
        /\ Cardinality(Smaller(s, m)) # Cardinality(Smaller(s, n))
    BY <1>2, <2>1, <2>2, FS_Subset
  <2> QED
    BY <1>2, <2>3
<1>4. f \in Injection(D, 1..N)
  <2>1. f \in [D -> 1..N]
    BY <1>1, <1>2
  <2>2. ASSUME NEW m \in D, NEW n \in D, f[m] = f[n] PROVE m = n
    <3>1. Cardinality(Smaller(s, m)) = Cardinality(Smaller(s, n))
      BY <1>2, <2>2
    <3>2. <<m, n>> \notin Before /\ <<n, m>> \notin Before
      BY <1>2, <1>3, <3>1
    <3> QED
      BY <3>2, OrderAssumption
  <2> HIDE DEF f
  <2> QED
    BY <2>1, <2>2 DEF Injection, IsInjective
<1>5. f \in Surjection(D, 1..N)
  <2>1. IsFiniteSet(1..N) /\ Cardinality(1..N) = N
    BY <1>1, FS_Interval
  <2> HIDE DEF f
  <2> QED
    BY <1>4, <2>1, FS_Injection
<1>6. ASSUME NEW i \in 1..N
      PROVE  \E n \in D : Cardinality(Smaller(s, n)) = i - 1
  <2>1. PICK n \in D : f[n] = i
    BY <1>5 DEF Surjection
  <2> QED
    BY <1>2, <2>1
<1> QED
  BY <1>1, <1>2, <1>3, <1>6

LEMMA SortedIs ==
  ASSUME NEW s, DOMAIN s \in SUBSET Names, IsFiniteSet(DOMAIN s)
  PROVE  LET o == SortedNames(s)
             N == Cardinality(DOMAIN s)
         IN  /\ N \in Nat /\ o \in [1..N -> DOMAIN s]
             /\ \A i \in 1..N : Cardinality(Smaller(s, o[i])) = i - 1
             /\ \A n \in DOMAIN s : \E i \in 1..N : o[i] = n
<1> DEFINE o == SortedNames(s)
           D == DOMAIN s
           N == Cardinality(D)
<1>1. N \in Nat /\ \A i \in 1..N : \E n \in D : Cardinality(Smaller(s, n)) = i - 1
  BY Places0
<1>2. o = [i \in 1..N |-> CHOOSE n \in D : Cardinality(Smaller(s, n)) = i - 1]
  BY DEF SortedNames
<1>3. \A i \in 1..N : o[i] \in D /\ Cardinality(Smaller(s, o[i])) = i - 1
  BY <1>1, <1>2
<1>4. o \in [1..N -> D]
  BY <1>2, <1>3
<1>5. ASSUME NEW n \in D PROVE \E i \in 1..N : o[i] = n
  <2> DEFINE i == Cardinality(Smaller(s, n)) + 1
  <2>1. Cardinality(Smaller(s, n)) \in Nat
    BY Places0
  <2>2. Cardinality(Smaller(s, n)) < N
    <3>1. Smaller(s, n) \in SUBSET D /\ n \notin Smaller(s, n)
      BY OrderAssumption DEF Smaller
    <3>2. Cardinality(Smaller(s, n)) <= N /\ Cardinality(Smaller(s, n)) # N
      BY <3>1, FS_Subset
    <3> QED
      BY <1>1, <2>1, <3>2
  <2>3. i \in 1..N /\ i - 1 = Cardinality(Smaller(s, n))
    BY <1>1, <2>1, <2>2
  <2> HIDE DEF i
  <2>4. o[i] \in D /\ Cardinality(Smaller(s, o[i])) = Cardinality(Smaller(s, n))
    BY <1>3, <2>3
  <2>5. <<o[i], n>> \notin Before /\ <<n, o[i]>> \notin Before
    <3>1. ~(Cardinality(Smaller(s, n)) < Cardinality(Smaller(s, n)))
      BY <2>1
    <3> QED
      BY <2>4, <3>1, Places0
  <2> QED
    BY <2>3, <2>4, <2>5, OrderAssumption
<1> QED
  BY <1>1, <1>3, <1>4, <1>5

(* Where a list only has more names than another, the name in a place of   *)
(* it comes no later than that in the same place of the other.             *)
LEMMA PlacesMeet ==
  ASSUME NEW s, NEW t, DOMAIN s \in SUBSET DOMAIN t, DOMAIN t \in SUBSET Names,
         IsFiniteSet(DOMAIN t), NEW i \in 1..Cardinality(DOMAIN s)
  PROVE  /\ i \in 1..Cardinality(DOMAIN t)
         /\ <<SortedNames(s)[i], SortedNames(t)[i]>> \notin Before
<1> DEFINE o == SortedNames(s)
           p == SortedNames(t)
<1>1. IsFiniteSet(DOMAIN s) /\ Cardinality(DOMAIN s) <= Cardinality(DOMAIN t)
  BY FS_Subset
<1>2. /\ Cardinality(DOMAIN s) \in Nat /\ o[i] \in DOMAIN s
      /\ Cardinality(Smaller(s, o[i])) = i - 1
  BY <1>1, SortedIs
<1>3. Cardinality(DOMAIN t) \in Nat /\ i \in 1..Cardinality(DOMAIN t)
  <2>1. Cardinality(DOMAIN t) \in Nat
    BY FS_CardinalityType
  <2> QED
    BY <1>1, <1>2, <2>1
<1>4. p[i] \in DOMAIN t /\ Cardinality(Smaller(t, p[i])) = i - 1
  BY <1>3, SortedIs
<1>5. Smaller(s, o[i]) \in SUBSET Smaller(t, o[i])
  BY DEF Smaller
<1>6. IsFiniteSet(Smaller(t, o[i])) /\ Cardinality(Smaller(t, o[i])) \in Nat
  BY <1>2, Places0
<1>7. i - 1 <= Cardinality(Smaller(t, o[i]))
  BY <1>2, <1>5, <1>6, FS_Subset
<1>8. ASSUME <<o[i], p[i]>> \in Before PROVE FALSE
  <2>1. Cardinality(Smaller(t, o[i])) < Cardinality(Smaller(t, p[i]))
    BY <1>2, <1>4, <1>8, Places0
  <2> QED
    BY <1>4, <1>6, <1>7, <2>1
<1> QED
  BY <1>3, <1>8

(* The copies and the reports there can be.                                *)
Copies  == UNION {[S -> Values] : S \in SUBSET Names}
Reports == {NoReport} \cup [action : {"deleted"}, name : Names]
             \cup [action : {"new", "changed"}, name : Names, val : Values]

LEMMA HeedType ==
  ASSUME NEW copy \in Copies, NEW r \in Reports
  PROVE  Heed(copy, r) \in Copies
<1>1. PICK S \in SUBSET Names : copy \in [S -> Values]
  BY DEF Copies
<1>2. CASE r = NoReport
  BY <1>2 DEF Heed, NoReport
<1>3. CASE r \in [action : {"deleted"}, name : Names]
  <2>1. Heed(copy, r) \in [S \ {r.name} -> Values]
    BY <1>1, <1>3 DEF Heed
  <2> QED
    BY <2>1 DEF Copies
<1>4. CASE r \in [action : {"new", "changed"}, name : Names, val : Values]
  <2>1. r.action # "none" /\ r.action # "deleted" /\ r.name \in Names /\ r.val \in Values
    BY <1>4
  <2>2. Heed(copy, r) = [n \in S \cup {r.name} |-> IF n = r.name THEN r.val ELSE copy[n]]
    BY <1>1, <2>1 DEF Heed
  <2>3. Heed(copy, r) \in [S \cup {r.name} -> Values] /\ S \cup {r.name} \in SUBSET Names
    BY <1>1, <2>1, <2>2
  <2> QED
    BY <2>3 DEF Copies
<1> QED
  BY <1>2, <1>3, <1>4 DEF Reports

LEMMA HeededIs ==
  ASSUME NEW copy \in Copies, NEW r \in Seq(Reports)
  PROVE  \E d : /\ d[0] = copy /\ Heeded(copy, r) = d[Len(r)]
                /\ \A i \in 1..Len(r) : d[i] = Heed(d[i - 1], r[i])
<1> DEFINE n == Len(r)
           IsCopying(d) == d = [i \in 0..n |-> IF i = 0 THEN copy ELSE Heed(d[i - 1], r[i])]
           g == [x \in (1..n) \X Copies |-> Heed(x[2], r[x[1]])]
<1>1. n \in Nat /\ \A i \in 1..n : r[i] \in Reports
  OBVIOUS
<1>2. g \in [(1..n) \X Copies -> Copies]
  <2>1. \A x \in (1..n) \X Copies : Heed(x[2], r[x[1]]) \in Copies
    BY <1>1, HeedType
  <2> QED
    BY <2>1
<1>3. \A i \in 1..n, c \in Copies : g[<<i, c>>] = Heed(c, r[i])
  OBVIOUS
<1>4. PICK d \in [0..n -> Copies] : Iterates(d, copy, g, n)
  <2> HIDE DEF g, n
  <2> QED
    BY <1>1, <1>2, Iterated
<1>5. IsCopying(d)
  <2>1. \A i \in 1..n : i - 1 \in 0..n /\ d[i - 1] \in Copies
    OBVIOUS
  <2>2. \A i \in 1..n : g[<<i, d[i - 1]>>] = Heed(d[i - 1], r[i])
    BY <1>3, <2>1
  <2>3. d = [i \in 0..n |-> IF i = 0 THEN copy ELSE g[<<i, d[i - 1]>>]]
    BY <1>4 DEF Iterates
  <2> HIDE DEF g
  <2>4. \A i \in 0..n : d[i] = IF i = 0 THEN copy ELSE Heed(d[i - 1], r[i])
    <3>1. TAKE i \in 0..n
    <3>2. CASE i = 0
      BY <2>3, <3>2
    <3>3. CASE i # 0
      <4>1. i \in 1..n
        BY <1>1, <3>3
      <4>2. d[i] = g[<<i, d[i - 1]>>]
        BY <2>3, <3>3
      <4> QED
        BY <2>2, <3>3, <4>1, <4>2
    <3> QED
      BY <3>2, <3>3
  <2>5. d = [i \in 0..n |-> d[i]]
    OBVIOUS
  <2> QED
    BY <2>4, <2>5
<1>6. \E e : IsCopying(e)
  BY <1>5
<1>7. PICK e : IsCopying(e) /\ Heeded(copy, r) = e[n]
  <2> DEFINE e == CHOOSE f : IsCopying(f)
  <2>1. IsCopying(e)
    BY <1>6
  <2>2. Heeded(copy, r) = e[n]
    BY DEF Heeded
  <2> HIDE DEF e
  <2> QED
    BY <2>1, <2>2
<1>8. \A i \in 0..n : e[i] = IF i = 0 THEN copy ELSE Heed(e[i - 1], r[i])
  BY <1>7
<1>9. e[0] = copy /\ \A i \in 1..n : e[i] = Heed(e[i - 1], r[i])
  BY <1>1, <1>8
<1> QED
  BY <1>7, <1>9

LEMMA SettingsAre ==
  ASSUME NEW s \in Settings
  PROVE  /\ DOMAIN s \in SUBSET Names
         /\ \A n \in DOMAIN s : s[n].val \in Values
         /\ Values0(s) \in Copies
<1>1. PICK S \in SUBSET Names : s \in [S -> Setting]
  BY DEF Settings
<1>2. DOMAIN s = S /\ \A n \in S : s[n].val \in Values
  BY <1>1 DEF Setting
<1> QED
  BY <1>2 DEF Values0, Copies

(* The reports on a list that has all the names of the one before: the     *)
(* i-th is about its i-th name.                                            *)
LEMMA ReportsOnMore ==
  ASSUME NEW s \in Settings, NEW t \in Settings, DOMAIN s \in SUBSET DOMAIN t,
         IsFiniteSet(DOMAIN t)
  PROVE  LET r == NotifyChanges(s, t)
             p == SortedNames(t)
             N == Cardinality(DOMAIN t)
         IN  /\ N \in Nat /\ r \in Seq(Reports) /\ Len(r) = N
             /\ \A i \in 1..N :
                  \/ r[i] = NoReport /\ p[i] \in DOMAIN s /\ s[p[i]].val = t[p[i]].val
                  \/ /\ r[i].action \notin {"none", "deleted"}
                     /\ r[i].name = p[i] /\ r[i].val = t[p[i]].val
<1> DEFINE r == NotifyChanges(s, t)
           o == SortedNames(s)
           p == SortedNames(t)
           M == Cardinality(DOMAIN s)
           N == Cardinality(DOMAIN t)
<1>0. DOMAIN s \in SUBSET Names /\ DOMAIN t \in SUBSET Names /\ \A n \in DOMAIN t : t[n].val \in Values
  BY SettingsAre
<1>1. IsFiniteSet(DOMAIN s)
  BY FS_Subset
<1>2. M \in Nat /\ o \in [1..M -> DOMAIN s] /\ N \in Nat /\ p \in [1..N -> DOMAIN t]
  BY <1>0, <1>1, SortedIs
<1>3. \A i \in 1..M : i \in 1..N /\ <<o[i], p[i]>> \notin Before
  BY <1>0, PlacesMeet
<1>4. DOMAIN o = 1..M /\ DOMAIN p = 1..N /\ DOMAIN o \cup DOMAIN p = 1..N
  BY <1>2, <1>3
<1> HIDE DEF M, N, o, p
<1>5. DOMAIN r = 1..N
  BY <1>4 DEF NotifyChanges, o, p
<1> DEFINE Old(i) == s[o[i]].val
           Neu(i) == t[p[i]].val
           Says(i) ==
             \/ r[i] = NoReport /\ p[i] \in DOMAIN s /\ s[p[i]].val = Neu(i)
             \/ r[i] = [action |-> "new", name |-> p[i], val |-> Neu(i)]
             \/ r[i] = [action |-> "changed", name |-> p[i], val |-> Neu(i)]
<1>6. ASSUME NEW i \in 1..N PROVE Says(i)
  <2>1. i \in DOMAIN o \cup DOMAIN p /\ i \in DOMAIN p
    BY <1>4
  <2>2. CASE i \notin DOMAIN o
    BY <2>1, <2>2 DEF NotifyChanges, o, p
  <2>3. CASE i \in DOMAIN o /\ o[i] = p[i]
    <3>1. r[i] = IF Old(i) = Neu(i) THEN NoReport
                 ELSE [action |-> "changed", name |-> o[i], val |-> Neu(i)]
      BY <2>1, <2>3 DEF NotifyChanges, o, p
    <3>2. p[i] \in DOMAIN s
      BY <1>2, <1>4, <2>3
    <3> QED
      BY <2>3, <3>1, <3>2
  <2>4. CASE i \in DOMAIN o /\ o[i] # p[i]
    <3>1. <<o[i], p[i]>> \notin Before
      BY <1>3, <1>4, <2>4
    <3>2. r[i] = [action |-> "new", name |-> p[i], val |-> Neu(i)]
      BY <2>1, <2>4, <3>1 DEF NotifyChanges, o, p
    <3> QED
      BY <3>2
  <2> QED
    BY <2>2, <2>3, <2>4
<1>7. \A i \in 1..N : p[i] \in Names /\ Neu(i) \in Values
  BY <1>0, <1>2
<1>8. ASSUME NEW i \in 1..N PROVE r[i] \in Reports
  <2> DEFINE v == Neu(i)
  <2>1. p[i] \in Names /\ v \in Values
    BY <1>7
  <2>2. Says(i)
    BY <1>6
  <2> HIDE DEF r, v
  <2>3. CASE r[i] = NoReport
    BY <2>3 DEF Reports
  <2>4. CASE r[i] = [action |-> "new", name |-> p[i], val |-> v]
    BY <2>1, <2>4 DEF Reports
  <2>5. CASE r[i] = [action |-> "changed", name |-> p[i], val |-> v]
    BY <2>1, <2>5 DEF Reports
  <2> QED
    BY <2>2, <2>3, <2>4, <2>5 DEF v
<1>9. r \in Seq(Reports) /\ Len(r) = N
  <2>1. r = [i \in 1..N |-> r[i]]
    BY <1>5 DEF NotifyChanges
  <2> HIDE DEF r
  <2>2. r \in [1..N -> Reports]
    BY <1>8, <2>1
  <2> QED
    BY <1>2, <2>2
<1>10. ASSUME NEW i \in 1..N
       PROVE  \/ r[i] = NoReport /\ p[i] \in DOMAIN s /\ s[p[i]].val = t[p[i]].val
              \/ /\ r[i].action \notin {"none", "deleted"}
                 /\ r[i].name = p[i] /\ r[i].val = t[p[i]].val
  <2> DEFINE v == Neu(i)
  <2>1. Says(i)
    BY <1>6
  <2> HIDE DEF r, v
  <2>2. CASE r[i] = NoReport /\ p[i] \in DOMAIN s /\ s[p[i]].val = v
    BY <2>2 DEF v
  <2>3. CASE r[i] = [action |-> "new", name |-> p[i], val |-> v]
    <3>1. r[i].action = "new" /\ r[i].name = p[i] /\ r[i].val = v
      BY <2>3
    <3> QED
      BY <3>1 DEF v
  <2>4. CASE r[i] = [action |-> "changed", name |-> p[i], val |-> v]
    <3>1. r[i].action = "changed" /\ r[i].name = p[i] /\ r[i].val = v
      BY <2>4
    <3> QED
      BY <3>1 DEF v
  <2> QED
    BY <2>1, <2>2, <2>3, <2>4 DEF v
<1> QED
  BY <1>2, <1>9, <1>10 DEF N, p

(* And those on a list that is gone.                                       *)
LEMMA ReportsOnNone ==
  ASSUME NEW s \in Settings, NEW t \in Settings, DOMAIN t = {}, IsFiniteSet(DOMAIN s)
  PROVE  LET r == NotifyChanges(s, t)
             o == SortedNames(s)
             M == Cardinality(DOMAIN s)
         IN  /\ M \in Nat /\ r \in Seq(Reports) /\ Len(r) = M
             /\ \A i \in 1..M : r[i] = [action |-> "deleted", name |-> o[i]]
<1> DEFINE r == NotifyChanges(s, t)
           o == SortedNames(s)
           p == SortedNames(t)
           M == Cardinality(DOMAIN s)
<1>0. DOMAIN s \in SUBSET Names
  BY SettingsAre
<1>2. M \in Nat /\ o \in [1..M -> DOMAIN s]
  BY <1>0, SortedIs
<1>3. DOMAIN p = {}
  BY FS_EmptySet DEF SortedNames
<1>4. DOMAIN o = 1..M /\ DOMAIN o \cup DOMAIN p = 1..M
  BY <1>2, <1>3
<1> HIDE DEF M, o, p
<1>5. r = [i \in 1..M |-> [action |-> "deleted", name |-> o[i]]]
  BY <1>3, <1>4 DEF NotifyChanges, o, p
<1>6. \A i \in 1..M : [action |-> "deleted", name |-> o[i]] \in Reports
  BY <1>0, <1>2 DEF Reports
<1>7. r \in Seq(Reports) /\ Len(r) = M
  <2> HIDE DEF r
  <2>1. r \in [1..M -> Reports]
    BY <1>5, <1>6
  <2> QED
    BY <1>2, <2>1
<1> QED
  BY <1>2, <1>5, <1>7 DEF M, o
(* The reports tell an application all there is to tell, where the new     *)
(* list has every name of the old one: after k of them its copy has the    *)
(* new values of the first k names.                                        *)
LEMMA FollowsMore ==
  ASSUME NEW s \in Settings, NEW t \in Settings, DOMAIN s \in SUBSET DOMAIN t,
         IsFiniteSet(DOMAIN t)
  PROVE  Heeded(Values0(s), NotifyChanges(s, t)) = Values0(t)
<1> DEFINE r == NotifyChanges(s, t)
           p == SortedNames(t)
           N == Cardinality(DOMAIN t)
           At(k) == {p[j] : j \in 1..k}
           Want(k) == [x \in DOMAIN s \cup At(k) |-> IF x \in At(k) THEN t[x].val ELSE s[x].val]
<1>1. /\ N \in Nat /\ r \in Seq(Reports) /\ Len(r) = N
      /\ \A i \in 1..N :
           \/ r[i] = NoReport /\ p[i] \in DOMAIN s /\ s[p[i]].val = t[p[i]].val
           \/ /\ r[i].action \notin {"none", "deleted"}
              /\ r[i].name = p[i] /\ r[i].val = t[p[i]].val
  BY ReportsOnMore
<1>2. At(N) = DOMAIN t
  <2>1. DOMAIN t \in SUBSET Names
    BY SettingsAre
  <2>2. p \in [1..N -> DOMAIN t] /\ \A x \in DOMAIN t : \E i \in 1..N : p[i] = x
    BY <2>1, SortedIs
  <2> HIDE DEF p, N
  <2> QED
    BY <2>2
<1>3. Values0(s) \in Copies
  BY SettingsAre
<1> HIDE DEF r, p, N
<1>4. PICK d : /\ d[0] = Values0(s) /\ Heeded(Values0(s), r) = d[N]
               /\ \A i \in 1..N : d[i] = Heed(d[i - 1], r[i])
  BY <1>1, <1>3, HeededIs
<1> DEFINE P == {k \in 0..N : d[k] = Want(k)}
<1>5. 0 \in P
  <2>1. At(0) = {}
    OBVIOUS
  <2>2. Want(0) = Values0(s)
    BY <2>1 DEF Values0
  <2> QED
    BY SMTT(20), <1>1, <1>4, <2>2
<1>6. ASSUME NEW i \in 1..N, i - 1 \in P PROVE i \in P
  <2>1. At(i) = At(i - 1) \cup {p[i]}
    <3>1. 1..i = (1..i - 1) \cup {i}
      BY <1>1
    <3> QED
      BY <3>1
  <2>2. d[i] = Heed(Want(i - 1), r[i])
    BY <1>4, <1>6
  <2> DEFINE A == At(i - 1)
             B == At(i)
             wantA == [x \in DOMAIN s \cup A |-> IF x \in A THEN t[x].val ELSE s[x].val]
             wantB == [x \in DOMAIN s \cup B |-> IF x \in B THEN t[x].val ELSE s[x].val]
  <2>3. B = A \cup {p[i]} /\ d[i] = Heed(wantA, r[i])
    BY <2>1, <2>2
  <2> HIDE DEF A, B
  <2> DEFINE Old(x) == IF x \in A THEN t[x].val ELSE s[x].val
             Neu(x) == IF x \in B THEN t[x].val ELSE s[x].val
             X == DOMAIN s \cup B
  <2>4. ASSUME r[i] = NoReport /\ p[i] \in DOMAIN s /\ s[p[i]].val = t[p[i]].val
        PROVE  d[i] = wantB
    <3>1. d[i] = wantA
      BY <2>3, <2>4 DEF Heed, NoReport
    <3>2. DOMAIN s \cup A = X /\ \A x \in X : Old(x) = Neu(x)
      BY <2>3, <2>4
    <3> HIDE DEF Old, Neu, X
    <3>3. [x \in X |-> Old(x)] = [x \in X |-> Neu(x)]
      BY <3>2
    <3> QED
      BY <3>1, <3>2, <3>3 DEF Old, Neu, X
  <2>5. ASSUME /\ r[i].action \notin {"none", "deleted"}
               /\ r[i].name = p[i] /\ r[i].val = t[p[i]].val
        PROVE  d[i] = wantB
    <3> DEFINE Put(x) == IF x = p[i] THEN t[p[i]].val ELSE wantA[x]
    <3>1. DOMAIN wantA = DOMAIN s \cup A /\ DOMAIN wantA \cup {p[i]} = X
      BY <2>3
    <3>2. d[i] = [x \in DOMAIN wantA \cup {p[i]} |-> Put(x)]
      <4> HIDE DEF wantA
      <4> QED
        BY <2>3, <2>5 DEF Heed
    <3>3. \A x \in X : Put(x) = Neu(x)
      BY <2>3
    <3> HIDE DEF wantA, Put, Neu, X
    <3>4. [x \in X |-> Put(x)] = [x \in X |-> Neu(x)]
      BY <3>3
    <3> QED
      BY <3>1, <3>2, <3>4 DEF Neu, X
  <2>6. d[i] = wantB
    <3> HIDE DEF wantB
    <3> QED
      BY <1>1, <2>4, <2>5
  <2> QED
    BY <1>1, <2>6 DEF B
<1>7. \A i \in 0..N : i \in P
  <2> HIDE DEF P
  <2> QED
    BY <1>1, <1>5, <1>6, Stepwise
<1>8. d[N] = Want(N)
  BY <1>1, <1>7
<1>9. Want(N) = Values0(t)
  BY <1>2 DEF Values0
<1> QED
  BY <1>4, <1>8, <1>9 DEF r

LEMMA FollowsNone ==
  ASSUME NEW s \in Settings, NEW t \in Settings, DOMAIN t = {}, IsFiniteSet(DOMAIN s)
  PROVE  Heeded(Values0(s), NotifyChanges(s, t)) = Values0(t)
<1> DEFINE r == NotifyChanges(s, t)
           o == SortedNames(s)
           M == Cardinality(DOMAIN s)
           At(k) == {o[j] : j \in 1..k}
           Want(k) == [x \in DOMAIN s \ At(k) |-> s[x].val]
<1>1. /\ M \in Nat /\ r \in Seq(Reports) /\ Len(r) = M
      /\ \A i \in 1..M : r[i] = [action |-> "deleted", name |-> o[i]]
  BY ReportsOnNone
<1>2. At(M) = DOMAIN s
  <2>1. DOMAIN s \in SUBSET Names
    BY SettingsAre
  <2>2. o \in [1..M -> DOMAIN s] /\ \A x \in DOMAIN s : \E i \in 1..M : o[i] = x
    BY <2>1, SortedIs
  <2> HIDE DEF o, M
  <2> QED
    BY <2>2
<1>3. Values0(s) \in Copies
  BY SettingsAre
<1> HIDE DEF r, o, M
<1>4. PICK d : /\ d[0] = Values0(s) /\ Heeded(Values0(s), r) = d[M]
               /\ \A i \in 1..M : d[i] = Heed(d[i - 1], r[i])
  BY <1>1, <1>3, HeededIs
<1> DEFINE P == {k \in 0..M : d[k] = Want(k)}
<1>5. 0 \in P
  <2>1. At(0) = {}
    OBVIOUS
  <2>2. Want(0) = Values0(s)
    BY <2>1 DEF Values0
  <2> QED
    BY <1>1, <1>4, <2>2
<1>6. ASSUME NEW i \in 1..M, i - 1 \in P PROVE i \in P
  <2>1. At(i) = At(i - 1) \cup {o[i]}
    <3>1. 1..i = (1..i - 1) \cup {i}
      BY <1>1
    <3> QED
      BY <3>1
  <2>2. d[i] = Heed(Want(i - 1), r[i])
    BY <1>4, <1>6
  <2> DEFINE A == DOMAIN s \ At(i - 1)
             B == DOMAIN s \ At(i)
  <2>3. B = A \ {o[i]} /\ d[i] = Heed([x \in A |-> s[x].val], r[i])
    BY <2>1, <2>2
  <2> HIDE DEF A, B
  <2>4. r[i].action = "deleted" /\ r[i].name = o[i]
    BY <1>1
  <2>5. d[i] = [x \in B |-> s[x].val]
    BY <2>3, <2>4 DEF Heed
  <2> QED
    BY <1>1, <2>5 DEF B
<1>7. \A i \in 0..M : i \in P
  <2> HIDE DEF P
  <2> QED
    BY <1>1, <1>5, <1>6, Stepwise
<1>8. d[M] = Want(M)
  BY <1>1, <1>7
<1>9. Want(M) = Values0(t)
  BY <1>2 DEF Values0
<1> QED
  BY <1>4, <1>8, <1>9 DEF r
-------------------------------------------------------------------------------
(* One window and no client that writes: names only come, or all go.       *)
LEMMA Unwritten ==
  ASSUME Writers = {}, NEW c \in Clients
  PROVE  MaySet[c] = {} /\ ~ClientSet(c) /\ ~ClientManagerNotify(c)
<1>1. MaySet[c] = {}
  BY DEF Writers
<1> QED
  BY <1>1 DEF ClientSet, ClientManagerNotify

LEMMA PutSettingGrows ==
  ASSUME NEW s, IsFiniteSet(DOMAIN s), NEW n, NEW v, NEW k
  PROVE  /\ DOMAIN s \in SUBSET DOMAIN PutSetting(s, n, v, k)
         /\ IsFiniteSet(DOMAIN PutSetting(s, n, v, k))
<1>1. DOMAIN PutSetting(s, n, v, k) \in {DOMAIN s, DOMAIN s \cup {n}}
  BY DEF PutSetting
<1>2. IsFiniteSet(DOMAIN s \cup {n})
  BY FS_AddElement
<1> QED
  BY <1>1, <1>2

LEMMA NothingGrows ==
  /\ DOMAIN EmptySettings = {} /\ IsFiniteSet({})
  /\ NullData.settings = EmptySettings /\ NoProperty.settings = EmptySettings
BY FS_EmptySet DEF EmptySettings, NullData, DataOf, NoProperty

LEMMA GrowInit == Init => ListsGrow
<1> SUFFICES ASSUME Init PROVE ListsGrow
  OBVIOUS
<1>1. /\ \A m \in Managers : manager_data[m] = NullData
      /\ \A w \in Windows : property[w] = NoProperty
      /\ \A c \in Clients : client_data[c] = NullData
      /\ alive = {}
  BY DEF Init
<1> QED
  BY <1>1, NothingGrows DEF ListsGrow

LEMMA ManagerClearGrow ==
  ASSUME IInv, ListsGrow, NEW m \in Managers, mpc[m] # "none", ManagerClear(m)
  PROVE  ListsGrow'
<1> DEFINE w == manager_data[m].manager_win
<1>1. w \in alive /\ Creator[w] = m
  BY DEF IInv, ManagersTold
<1>2. /\ alive' = alive \ {w} /\ property' = [property EXCEPT ![w] = NoProperty]
      /\ manager_data' = [manager_data EXCEPT ![m] = NullData]
      /\ client_data' = client_data /\ cpc' = cpc /\ created' = created
  BY DEF ManagerClear, DestroyWindow
<1>3. /\ property \in [Windows -> Property] /\ manager_data \in [Managers -> Data]
      /\ alive \in SUBSET Windows
  BY DEF IInv, TypeOK
<1>4. \A k \in Managers : IsFiniteSet(DOMAIN manager_data'[k].settings)
  BY <1>2, <1>3, NothingGrows DEF ListsGrow
<1>5. \A u \in Windows : IsFiniteSet(DOMAIN property'[u].settings)
  BY <1>2, <1>3, NothingGrows DEF ListsGrow
<1>6. ASSUME NEW u \in alive'
      PROVE  /\ property'[u] = property[u] /\ Creator[u] # m /\ Creator[u] \in Managers
             /\ manager_data'[Creator[u]] = manager_data[Creator[u]]
  <2>1. u \in alive /\ u # w /\ Creator[u] \in Managers
    BY <1>2, <1>3, WindowsAssumption
  <2>2. Creator[u] # m
    BY <2>1 DEF IInv, WindowsHeld
  <2> QED
    BY <1>2, <1>3, <2>1, <2>2
<1>7. \A u \in alive' :
        /\ DOMAIN property'[u].settings \subseteq DOMAIN manager_data'[Creator[u]].settings
        /\ \A c \in Clients :
             DOMAIN client_data'[c].settings \subseteq DOMAIN property'[u].settings
  BY <1>2, <1>6 DEF ListsGrow
<1> QED
  BY <1>2, <1>4, <1>5, <1>7 DEF ListsGrow

(* read_settings() with no other window than the one it reads from.        *)
LEMMA ReadGrows ==
  ASSUME IInv, ListsGrow, Writers = {}, \A v, w \in Windows : v = w,
         NEW c \in Clients, ClientReadSettings(c)
  PROVE  LET s == client_data[c].settings
             t == client_data'[c].settings
         IN  /\ s \in Settings /\ t \in Settings
             /\ IsFiniteSet(DOMAIN s) /\ IsFiniteSet(DOMAIN t)
             /\ DOMAIN s \in SUBSET DOMAIN t \/ DOMAIN t = {}
             /\ \A w \in alive : DOMAIN t \in SUBSET DOMAIN property[w].settings
             /\ created = {} => DOMAIN t = {}
             /\ client_data' = [client_data EXCEPT ![c] = client_data'[c]]
<1> DEFINE w == client_data[c].manager_win
           t == client_data'[c].settings
<1>1. /\ client_data \in [Clients -> Data] /\ property \in [Windows -> Property]
      /\ alive \in SUBSET Windows /\ alive \in SUBSET created
  BY DEF IInv, TypeOK
<1>2. /\ client_data'[c] = ReadInto(client_data[c], PropertyOf(w))
      /\ client_data' = [client_data EXCEPT ![c] = client_data'[c]]
  BY <1>1 DEF ClientReadSettings
<1>3. t = PropertyOf(w).settings /\ w \in Windows \cup {None}
  BY <1>1, <1>2 DEF ReadInto, DataOf, Data
<1>4. client_data[c].settings \in Settings /\ IsFiniteSet(DOMAIN client_data[c].settings)
  BY <1>1 DEF Data, ListsGrow
<1>5. CASE w \in alive
  <2>1. w # None /\ w \in Windows /\ t = property[w].settings
    BY <1>1, <1>3, <1>5, WindowsAssumption DEF PropertyOf
  <2>2. t \in Settings /\ IsFiniteSet(DOMAIN t) /\ DOMAIN client_data[c].settings \in SUBSET DOMAIN t
    BY <1>1, <1>5, <2>1 DEF ListsGrow, Property
  <2>3. \A u \in alive : u = w
    BY <1>1, <1>5
  <2>4. created # {}
    BY <1>1, <1>5
  <2> QED
    BY <1>2, <1>4, <2>1, <2>2, <2>3, <2>4
<1>6. CASE w \notin alive
  <2>1. PropertyOf(w) = NoProperty
    BY <1>3, <1>6 DEF PropertyOf, IInv, WindowsHeld
  <2>2. t = EmptySettings
    BY <1>3, <2>1, NothingGrows
  <2> QED
    BY <1>2, <1>4, <2>2, NothingGrows, NullTypes
<1> QED
  BY <1>5, <1>6

LEMMA GrowStep ==
  ASSUME IInv, ListsGrow, Writers = {}, \A v, w \in Windows : v = w, [Next]_vars
  PROVE  ListsGrow'
<1>0. /\ manager_data \in [Managers -> Data] /\ client_data \in [Clients -> Data]
      /\ property \in [Windows -> Property] /\ cpc \in [Clients -> ClientPC]
      /\ alive \in SUBSET Windows /\ alive \in SUBSET created /\ created \in SUBSET Windows
      /\ \A w \in alive : Creator[w] \in Managers /\ manager_data[Creator[w]].manager_win = w
  BY WindowsAssumption DEF IInv, TypeOK, WindowsHeld
<1>1. CASE UNCHANGED <<manager_data, client_data, property, cpc, alive, created>>
  BY <1>1 DEF ListsGrow
<1>2. ASSUME NEW m \in Managers, ManagerNext(m) PROVE ListsGrow'
  <2>1. CASE ManagerCreateWindow(m)
    <3>1. PICK w \in Windows \ created :
            /\ created' = created \cup {w} /\ alive' = alive \cup {w} /\ Creator[w] = m
            /\ manager_data' = [manager_data EXCEPT ![m] = DataOf(w, EmptySettings, 0)]
      BY <2>1 DEF ManagerCreateWindow
    <3>2. client_data' = client_data /\ cpc' = cpc /\ property' = property
      BY <2>1 DEF ManagerCreateWindow, clientVars
    <3>3. created = {} /\ alive = {} /\ property[w] = NoProperty
      BY <1>0, <3>1 DEF IInv, WindowsHeld
    <3>4. \A k \in Managers : IsFiniteSet(DOMAIN manager_data'[k].settings)
      <4>1. DataOf(w, EmptySettings, 0).settings = EmptySettings
        BY DEF DataOf
      <4> QED
        BY <1>0, <3>1, <4>1, NothingGrows DEF ListsGrow
    <3>5. DOMAIN property[w].settings = {}
      BY <3>3, NothingGrows
    <3>6. \A c \in Clients : DOMAIN client_data[c].settings = {}
      BY <3>3 DEF ListsGrow
    <3>7. created' # {} /\ \A u \in alive' : u = w
      BY <3>1, <3>3
    <3> QED
      BY <3>2, <3>4, <3>5, <3>6, <3>7 DEF ListsGrow
  <2>2. CASE ManagerSetSelectionOwner(m)
    BY <1>1, <2>2 DEF ManagerSetSelectionOwner, clientVars
  <2>3. CASE ManagerGetSelectionOwner(m)
    <3>1. CASE ManagerClear(m)
      BY <2>3, <3>1, ManagerClearGrow DEF ManagerGetSelectionOwner
    <3> QED
      BY <1>1, <2>3, <3>1 DEF ManagerGetSelectionOwner, serverVars, clientVars
  <2>4. CASE ManagerAnnounce(m)
    BY <1>1, <2>4 DEF ManagerAnnounce, serverVars
  <2>5. CASE ManagerSet(m)
    <3>1. PICK n \in Names, v \in Values :
            manager_data' = [manager_data EXCEPT
              ![m] = WithSettings(@, PutSetting(@.settings, n, v, @.serial))]
      BY <2>5 DEF ManagerSet
    <3> DEFINE s == manager_data[m].settings
               t == PutSetting(s, n, v, manager_data[m].serial)
    <3>2. DOMAIN s \in SUBSET DOMAIN t /\ IsFiniteSet(DOMAIN t)
      BY PutSettingGrows DEF ListsGrow
    <3>3. manager_data'[m].settings = t
      BY <1>0, <3>1 DEF WithSettings, DataOf
    <3>4. \A k \in Managers : k # m => manager_data'[k] = manager_data[k]
      BY <1>0, <3>1
    <3>5. UNCHANGED <<client_data, property, cpc, alive, created>>
      BY <2>5 DEF ManagerSet, serverVars, clientVars
    <3> HIDE DEF t
    <3>6. \A k \in Managers : /\ IsFiniteSet(DOMAIN manager_data'[k].settings)
                              /\ DOMAIN manager_data[k].settings
                                   \in SUBSET DOMAIN manager_data'[k].settings
      BY <3>2, <3>3, <3>4 DEF ListsGrow
    <3> QED
      BY <1>0, <3>5, <3>6 DEF ListsGrow
  <2>6. CASE ManagerNotify(m)
    <3> DEFINE w == manager_data[m].manager_win
               d == manager_data[m]
    <3>1. w \in alive /\ Creator[w] = m /\ w \in Windows
      BY <1>0, <2>6 DEF ManagerNotify, IInv, ManagersTold
    <3>2. property' = [property EXCEPT ![w] = [settings |-> d.settings, serial |-> d.serial]]
      BY <2>6, <3>1 DEF ManagerNotify, Publish
    <3>3. property'[w].settings = d.settings /\ \A u \in Windows : u # w => property'[u] = property[u]
      BY <1>0, <3>1, <3>2
    <3>4. \A k \in Managers : manager_data'[k].settings = manager_data[k].settings
      BY <1>0, <2>6 DEF ManagerNotify, WithSerial, DataOf
    <3>5. UNCHANGED <<client_data, cpc, alive, created>>
      BY <2>6 DEF ManagerNotify
    <3>6. DOMAIN property[w].settings \subseteq DOMAIN d.settings /\ IsFiniteSet(DOMAIN d.settings)
      BY <3>1 DEF ListsGrow
    <3>7. \A u \in Windows : IsFiniteSet(DOMAIN property'[u].settings)
      BY <3>3, <3>6 DEF ListsGrow
    <3>8. ASSUME NEW u \in alive'
          PROVE  /\ DOMAIN property'[u].settings \subseteq DOMAIN manager_data'[Creator[u]].settings
                 /\ \A c \in Clients :
                      DOMAIN client_data'[c].settings \subseteq DOMAIN property'[u].settings
      <4>1. u = w
        BY <1>0, <3>1, <3>5
      <4>2. property'[u].settings = d.settings /\ manager_data'[Creator[u]].settings = d.settings
        BY <3>1, <3>3, <3>4, <4>1
      <4>3. \A c \in Clients : DOMAIN client_data[c].settings \subseteq DOMAIN property[w].settings
        BY <3>1 DEF ListsGrow
      <4> QED
        BY <3>5, <3>6, <4>2, <4>3
    <3> QED
      BY <3>4, <3>5, <3>7, <3>8 DEF ListsGrow
  <2>7. CASE ManagerEvent(m)
    <3>1. CASE ManagerClear(m)
      BY <2>7, <3>1, ManagerClearGrow DEF ManagerEvent
    <3> QED
      BY <1>1, <2>7, <3>1 DEF ManagerEvent, serverVars, clientVars
  <2>8. CASE ManagerStop(m)
    BY <2>8, ManagerClearGrow DEF ManagerStop
  <2>9. CASE ManagerCrash(m)
    BY <2>9, ManagerClearGrow DEF ManagerCrash
  <2> QED
    BY <1>2, <2>1, <2>2, <2>3, <2>4, <2>5, <2>6, <2>7, <2>8, <2>9 DEF ManagerNext
<1>3. ASSUME NEW c \in Clients, ClientNext(c) PROVE ListsGrow'
  <2>1. ~ClientSet(c) /\ ~ClientManagerNotify(c)
    BY Unwritten
  <2>2. CASE ClientInit(c) \/ ClientClear(c)
    <3>1. /\ client_data' = [client_data EXCEPT ![c] = NullData]
          /\ UNCHANGED <<manager_data, property, alive, created>>
          /\ \A k \in Clients : k # c => cpc'[k] = cpc[k]
      BY <1>0, <2>2 DEF ClientInit, ClientClear, serverVars, managerVars
    <3>2. \A k \in Clients : client_data'[k] \in {client_data[k], NullData}
                             /\ (k # c => client_data'[k] = client_data[k])
      BY <1>0, <3>1
    <3>3. client_data'[c] = NullData
      BY <1>0, <3>1
    <3> QED
      BY <3>1, <3>2, <3>3, NothingGrows DEF ListsGrow
  <2>3. CASE ClientCheckManagerWindow(c)
    <3>1. /\ client_data' = [client_data EXCEPT ![c] = DataOf(owner, @.settings, @.serial)]
          /\ cpc' = [cpc EXCEPT ![c] = "read"]
          /\ UNCHANGED <<manager_data, property, alive, created>>
      BY <2>3 DEF ClientCheckManagerWindow, managerVars
    <3>2. \A k \in Clients : client_data'[k].settings = client_data[k].settings
      BY <1>0, <3>1 DEF DataOf
    <3>3. \A k \in Clients : cpc'[k] = "off" => cpc[k] = "off" /\ client_data'[k] = client_data[k]
      BY <1>0, <3>1
    <3> QED
      BY <3>1, <3>2, <3>3 DEF ListsGrow
  <2>4. CASE ClientReadSettings(c)
    <3> DEFINE t == client_data'[c].settings
    <3>1. /\ IsFiniteSet(DOMAIN t)
          /\ \A w \in alive : DOMAIN t \in SUBSET DOMAIN property[w].settings
          /\ created = {} => DOMAIN t = {}
          /\ client_data' = [client_data EXCEPT ![c] = client_data'[c]]
      BY <2>4, ReadGrows
    <3>2. UNCHANGED <<manager_data, property, alive, created>> /\ cpc' = [cpc EXCEPT ![c] = "idle"]
      BY <2>4 DEF ClientReadSettings, serverVars, managerVars
    <3>3. \A k \in Clients : k # c => client_data'[k] = client_data[k]
      BY <1>0, <3>1
    <3>4. \A k \in Clients : cpc'[k] = "off" => k # c /\ cpc[k] = "off"
      BY <1>0, <3>2
    <3>5. \A k \in Clients :
            /\ IsFiniteSet(DOMAIN client_data'[k].settings)
            /\ \A w \in alive : DOMAIN client_data'[k].settings \subseteq DOMAIN property[w].settings
            /\ created = {} => DOMAIN client_data'[k].settings = {}
      BY <3>1, <3>3 DEF ListsGrow
    <3> QED
      BY <3>2, <3>3, <3>4, <3>5 DEF ListsGrow
  <2>5. CASE ClientProcessXEvent(c)
    <3>1. /\ UNCHANGED <<client_data, manager_data, property, alive, created>>
          /\ cpc' = [cpc EXCEPT ![c] = Reaction(c, Head(cevents[c]))]
      BY <2>5 DEF ClientProcessXEvent, serverVars, managerVars
    <3>2. Reaction(c, Head(cevents[c])) # "off"
      BY DEF Reaction
    <3>3. \A k \in Clients : cpc'[k] = "off" => cpc[k] = "off"
      BY <1>0, <3>1, <3>2
    <3> QED
      BY <3>1, <3>3 DEF ListsGrow
  <2>6. CASE ClientDropEvent(c)
    BY <1>1, <2>6 DEF ClientDropEvent, serverVars, managerVars
  <2> QED
    BY <1>3, <2>1, <2>2, <2>3, <2>4, <2>5, <2>6 DEF ClientNext
<1>4. CASE Tick
  BY <1>1, <1>4 DEF Tick, managerVars, clientVars
<1>5. CASE UNCHANGED vars
  BY <1>1, <1>5 DEF vars, serverVars, managerVars, clientVars
<1> QED
  BY <1>2, <1>3, <1>4, <1>5 DEF Next
-------------------------------------------------------------------------------
(* The copy.                                                               *)
LEMMA ViewSteps == ViewNext => Next
BY DEF ViewNext, OtherStep, ViewRead, ViewClear, Next, ClientNext

LEMMA ViewIsVars == [ViewNext]_viewVars => [Next]_vars
BY ViewSteps DEF viewVars

LEMMA ViewStep ==
  ASSUME IInv, ListsGrow, Writers = {}, \A v, w \in Windows : v = w,
         view \in [Clients -> Copies], ViewExact, [ViewNext]_viewVars
  PROVE  view' \in [Clients -> Copies] /\ ViewExact'
<1>0. /\ client_data \in [Clients -> Data]
      /\ \A c \in Clients : view[c] = Values0(client_data[c].settings)
      /\ \A c \in Clients : client_data[c].settings \in Settings
  BY DEF IInv, TypeOK, ViewExact, Data
<1>1. ASSUME UNCHANGED view,
             \A c \in Clients : client_data'[c].settings = client_data[c].settings
      PROVE  view' \in [Clients -> Copies] /\ ViewExact'
  BY <1>0, <1>1 DEF ViewExact
<1>2. ASSUME NEW c \in Clients, NEW new,
             client_data' = [client_data EXCEPT ![c] = client_data'[c]],
             new = Values0(client_data'[c].settings),
             client_data'[c].settings \in Settings,
             view' = [view EXCEPT ![c] = new]
      PROVE  view' \in [Clients -> Copies] /\ ViewExact'
  <2>1. new \in Copies
    BY <1>2, SettingsAre
  <2>2. \A k \in Clients : k # c => client_data'[k] = client_data[k] /\ view'[k] = view[k]
    BY <1>0, <1>2
  <2>3. view'[c] = new
    BY <1>2
  <2> QED
    BY <1>0, <1>2, <2>1, <2>2, <2>3 DEF ViewExact
<1>3. ASSUME NEW c \in Clients, ViewRead(c)
      PROVE  view' \in [Clients -> Copies] /\ ViewExact'
  <2> DEFINE s == client_data[c].settings
             t == client_data'[c].settings
             new == Heeded(view[c], NotifyChanges(s, t))
  <2>1. /\ s \in Settings /\ t \in Settings
        /\ IsFiniteSet(DOMAIN s) /\ IsFiniteSet(DOMAIN t)
        /\ DOMAIN s \in SUBSET DOMAIN t \/ DOMAIN t = {}
        /\ client_data' = [client_data EXCEPT ![c] = client_data'[c]]
    BY <1>3, ReadGrows DEF ViewRead
  <2>2. view[c] = Values0(s)
    BY <1>0
  <2>3. new = Values0(t)
    BY <2>1, <2>2, FollowsMore, FollowsNone
  <2>4. view' = [view EXCEPT ![c] = new]
    BY <1>3 DEF ViewRead
  <2> HIDE DEF new
  <2> QED
    BY <1>2, <2>1, <2>3, <2>4
<1>4. ASSUME NEW c \in Clients, ViewClear(c)
      PROVE  view' \in [Clients -> Copies] /\ ViewExact'
  <2>1. /\ client_data' = [client_data EXCEPT ![c] = NullData]
        /\ view' = [view EXCEPT ![c] = Values0(EmptySettings)]
    BY <1>4 DEF ViewClear, ClientClear
  <2>2. client_data'[c] = NullData
    BY <1>0, <2>1
  <2>3. client_data'[c].settings = EmptySettings /\ EmptySettings \in Settings
    BY <2>2, NothingGrows, NullTypes
  <2> QED
    BY <1>2, <2>1, <2>2, <2>3
<1>5. ASSUME OtherStep, UNCHANGED view
      PROVE  view' \in [Clients -> Copies] /\ ViewExact'
  <2>1. CASE Tick
    BY <1>1, <1>5, <2>1 DEF Tick, clientVars
  <2>2. ASSUME NEW m \in Managers, ManagerNext(m)
        PROVE  UNCHANGED client_data
    BY <2>2 DEF ManagerNext, ManagerCreateWindow, ManagerSetSelectionOwner,
         ManagerGetSelectionOwner, ManagerAnnounce, ManagerSet, ManagerNotify, ManagerEvent,
         ManagerStop, ManagerCrash, ManagerClear, clientVars
  <2>3. ASSUME NEW c \in Clients,
               ClientInit(c) \/ ClientCheckManagerWindow(c) \/ ClientProcessXEvent(c)
                 \/ ClientSet(c) \/ ClientManagerNotify(c) \/ ClientDropEvent(c)
        PROVE  \A k \in Clients : client_data'[k].settings = client_data[k].settings
    <3>1. CASE ClientInit(c)
      <4>1. client_data' = [client_data EXCEPT ![c] = NullData] /\ client_data[c] = NullData
        BY <3>1 DEF ClientInit, ListsGrow
      <4> QED
        BY <1>0, <4>1
    <3>2. CASE ClientCheckManagerWindow(c)
      BY <1>0, <3>2 DEF ClientCheckManagerWindow, DataOf
    <3>3. CASE ClientProcessXEvent(c)
      BY <3>3 DEF ClientProcessXEvent
    <3>4. CASE ClientDropEvent(c)
      BY <3>4 DEF ClientDropEvent
    <3> QED
      BY <2>3, <3>1, <3>2, <3>3, <3>4, Unwritten
  <2> QED
    BY <1>1, <1>5, <2>1, <2>2, <2>3 DEF OtherStep
<1>6. CASE UNCHANGED viewVars
  BY <1>1, <1>6 DEF viewVars, vars, clientVars
<1> QED
  BY <1>3, <1>4, <1>5, <1>6 DEF ViewNext

(* The copy of an application is exact as long as lists only grow (see     *)
(* ViewExact): one manager with the window of one init(), and applications *)
(* that only read.  The run XSettingsView_two shows that it is not with a  *)
(* second manager.                                                         *)
THEOREM ViewAlwaysExact ==
  ASSUME Writers = {}, \A v, w \in Windows : v = w
  PROVE  ViewSpec => []ViewExact
<1> DEFINE Inv == IInv /\ ListsGrow /\ view \in [Clients -> Copies] /\ ViewExact
<1>1. ViewInit => Inv
  <2> SUFFICES ASSUME ViewInit PROVE Inv
    OBVIOUS
  <2>1. IInv /\ ListsGrow
    BY InitIInv, GrowInit DEF ViewInit
  <2>2. Values0(EmptySettings) \in Copies
    BY NullTypes, SettingsAre
  <2>3. \A c \in Clients : client_data[c].settings = EmptySettings
    BY NothingGrows DEF ViewInit, Init
  <2> QED
    BY <2>1, <2>2, <2>3 DEF ViewInit, ViewExact
<1>2. Inv /\ [ViewNext]_viewVars => Inv'
  BY NextIInv, GrowStep, ViewStep, ViewIsVars
<1> QED
  BY <1>1, <1>2, PTL DEF ViewSpec
===============================================================================
