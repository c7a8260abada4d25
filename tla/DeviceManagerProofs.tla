------------------------- MODULE DeviceManagerProofs -------------------------
(***************************************************************************)
(* Theorems about DeviceManager for any number of devices, IDs and calls,  *)
(* and any limit.                                                          *)
(***************************************************************************)
EXTENDS DeviceManager, TLAPS

\* What the library proves of the sizes of finite sets; the end of the module
\* takes it from there.
FiniteFacts ==
    /\ IsFiniteSet({}) /\ Cardinality({}) = 0
    /\ \A x : IsFiniteSet({x}) /\ Cardinality({x}) = 1
    /\ \A k \in Nat : IsFiniteSet(1..k) /\ Cardinality(1..k) = k
    /\ \A S : IsFiniteSet(S) =>
         /\ Cardinality(S) \in Nat
         /\ \A T \in SUBSET S : IsFiniteSet(T) /\ Cardinality(T) <= Cardinality(S)
         /\ \A x : x \notin S => /\ IsFiniteSet(S \cup {x})
                                 /\ Cardinality(S \cup {x}) = Cardinality(S) + 1
         /\ \A x \in S : IsFiniteSet(S \ {x}) /\ Cardinality(S \ {x}) = Cardinality(S) - 1
    /\ \A S, T : IsFiniteSet(S) /\ IsFiniteSet(T) =>
         /\ IsFiniteSet(S \cup T)
         /\ Cardinality(S \cup T) = Cardinality(S) + Cardinality(T) - Cardinality(S \cap T)
         /\ IsFiniteSet(S \X T) /\ Cardinality(S \X T) = Cardinality(S) * Cardinality(T)

LEMMA SizeType ==
    ASSUME FiniteFacts, NEW m \in [IDs -> Devices \cup {None}]
    PROVE  IsFiniteSet(Present(m)) /\ Size(m) \in Nat
BY ManagerAssumption DEF Present, Size, FiniteFacts

LEMMA ManagerTypeInit == Init => TypeOK
BY DEF Init, TypeOK, Nobody

ClosedType ==
    /\ closed \in [Devices -> BOOLEAN]
    /\ closedBy \in [Devices -> [kind : {"nobody", "limit", "duplicate", "pump", "manager"},
                                 device : Devices \cup {None}]]

LEMMA RequestCloseType ==
    ASSUME TypeOK, NEW d \in Devices, NEW x \in Devices \cup {None},
           NEW kind \in {"limit", "duplicate", "pump", "manager"},
           RequestClose(d, By(kind, x))
    PROVE  ClosedType'
BY DEF TypeOK, ClosedType, RequestClose, By

LEMMA ManagerTypeConnect ==
    ASSUME FiniteFacts, TypeOK, NEW d \in Devices, ConnectStep(d)
    PROVE  TypeOK'
<1> USE ManagerAssumption DEF TypeOK, connectVars, pumpVars, opVars, metrics
<1>1. CASE ConnectBegin(d)
  BY <1>1 DEF ConnectBegin
<1>2. CASE ConnectAdd(d)
  <2>1. data' \in [IDs -> Devices \cup {None}] /\ (gauge' = gauge \/ gauge' = Size(data'))
    BY <1>2 DEF ConnectAdd
  <2>2. gauge' \in Nat
    BY <2>1, SizeType
  <2>3. existing' \in [Devices -> Devices \cup {None}]
    BY <1>2 DEF ConnectAdd
  <2>4. connect' \in [Devices -> {"idle", "add", "limit", "added", "event", "done", "refused"}]
    BY <1>2 DEF ConnectAdd
  <2> QED
    BY <1>2, <2>1, <2>2, <2>3, <2>4 DEF ConnectAdd
<1>3. CASE ConnectLimit(d)
  BY <1>3 DEF ConnectLimit, RequestClose, By
<1>4. CASE ConnectAdded(d)
  <2>1. ClosedType' /\ disconnects' \in Nat /\ duplicates' \in Nat
    <3>1. CASE existing[d] = None
      BY <1>4, <3>1 DEF ConnectAdded, ClosedType
    <3>2. CASE existing[d] # None
      <4> HIDE DEF TypeOK
      <4>1. existing[d] \in Devices /\ RequestClose(existing[d], By("duplicate", d))
        BY <1>4, <3>2 DEF ConnectAdded, TypeOK
      <4>2. ClosedType'
        BY <4>1, RequestCloseType
      <4> QED
        BY <1>4, <3>2, <4>2 DEF ConnectAdded, TypeOK
    <3> QED
      BY <3>1, <3>2
  <2>2. /\ connect' \in [Devices -> {"idle", "add", "limit", "added", "event", "done", "refused"}]
        /\ existing' \in [Devices -> Devices \cup {None}]
        /\ connects' \in Nat
    BY <1>4 DEF ConnectAdded
  <2> QED
    BY <1>4, <2>1, <2>2 DEF ConnectAdded, ClosedType
<1>5. CASE ConnectEvent(d)
  BY <1>5 DEF ConnectEvent
<1> QED
  BY <1>1, <1>2, <1>3, <1>4, <1>5 DEF ConnectStep

LEMMA ManagerTypePump ==
    ASSUME FiniteFacts, TypeOK, NEW d \in Devices, PumpEnds(d) \/ PumpRemove(d) \/ PumpClose(d)
    PROVE  TypeOK'
<1> USE ManagerAssumption DEF TypeOK, connectVars, pumpVars, opVars, metrics
<1>1. CASE PumpEnds(d)
  BY <1>1 DEF PumpEnds
<1>2. CASE PumpRemove(d)
  <2>1. data' \in [IDs -> Devices \cup {None}] /\ gauge' = Size(data')
    BY <1>2 DEF PumpRemove, Remove
  <2>2. gauge' \in Nat
    BY <2>1, SizeType
  <2> QED
    BY <1>2, <2>1, <2>2 DEF PumpRemove
<1>3. CASE PumpClose(d)
  <2>1. ClosedType' /\ disconnects' \in Nat
    <3>1. CASE removed[d] = None
      BY <1>3, <3>1 DEF PumpClose, ClosedType
    <3>2. CASE removed[d] # None
      <4> HIDE DEF TypeOK
      <4>1. removed[d] \in Devices /\ RequestClose(removed[d], By("pump", d))
        BY <1>3, <3>2 DEF PumpClose, TypeOK
      <4>2. ClosedType'
        BY <4>1, RequestCloseType
      <4> QED
        BY <1>3, <3>2, <4>2 DEF PumpClose, TypeOK
    <3> QED
      BY <3>1, <3>2
  <2> QED
    BY <1>3, <2>1, Zenon DEF PumpClose, ClosedType
<1> QED
  BY <1>1, <1>2, <1>3

LEMMA ManagerTypeOp ==
    ASSUME FiniteFacts, TypeOK, NEW o \in Ops, OpCall(o) \/ OpStep(o)
    PROVE  TypeOK'
<1> USE ManagerAssumption DEF TypeOK, connectVars, pumpVars, opVars, metrics
<1>1. ASSUME NEW id \in IDs, Disconnect(o, id) PROVE TypeOK'
  <2>1. data' \in [IDs -> Devices \cup {None}] /\ gauge' = Size(data')
    BY <1>1 DEF Disconnect, Remove
  <2>2. gauge' \in Nat
    BY <2>1, SizeType
  <2> QED
    BY <1>1, <2>1, <2>2 DEF Disconnect
<1>2. ASSUME NEW ids \in SUBSET IDs, DisconnectIf(o, ids) PROVE TypeOK'
  <2>1. matched' \in [Ops -> SUBSET Devices]
    BY <1>2 DEF DisconnectIf
  <2> QED
    BY <1>2, <2>1 DEF DisconnectIf
<1>3. CASE DisconnectAll(o)
  <2>1. original' \in [Ops -> SUBSET Devices] /\ data' \in [IDs -> Devices \cup {None}]
    BY <1>3 DEF DisconnectAll
  <2>2. Size(data) \in Nat
    BY SizeType
  <2>3. counted' \in [Ops -> Nat]
    BY <1>3, <2>2 DEF DisconnectAll
  <2> QED
    BY <1>3, <2>1, <2>3 DEF DisconnectAll
<1>4. CASE DisconnectClose(o)
  <2>1. ClosedType' /\ disconnects' \in Nat
    <3>1. CASE original[o] = {}
      BY <1>4, <3>1 DEF DisconnectClose, ClosedType
    <3>2. CASE original[o] # {}
      <4> HIDE DEF TypeOK
      <4>1. PICK d \in original[o] : disconnects' = disconnects + 1
                   /\ RequestClose(d, By("manager", None))
        BY <1>4, <3>2 DEF DisconnectClose
      <4>2. d \in Devices
        BY DEF TypeOK
      <4>3. ClosedType'
        BY <4>1, <4>2, RequestCloseType
      <4> QED
        BY <4>1, <4>3 DEF TypeOK
    <3> QED
      BY <3>1, <3>2
  <2> QED
    BY <1>4, <2>1 DEF DisconnectClose, ClosedType
<1>5. ASSUME NEW d \in Devices, DisconnectIfRemove(o, d) PROVE TypeOK'
  <2>1. /\ data' \in [IDs -> Devices \cup {None}] /\ (gauge' = gauge \/ gauge' = Size(data'))
        /\ original' \in [Ops -> SUBSET Devices] /\ counted' \in [Ops -> Nat]
    BY <1>5 DEF DisconnectIfRemove, Remove
  <2>2. gauge' \in Nat
    BY <2>1, SizeType
  <2> QED
    BY <1>5, <2>1, <2>2, Zenon DEF DisconnectIfRemove
<1>6. ASSUME NEW d \in Devices, DisconnectManyClose(o, d) PROVE TypeOK'
  <2> HIDE DEF TypeOK
  <2>1. ClosedType'
    BY <1>6, RequestCloseType DEF DisconnectManyClose
  <2> QED
    BY <1>6, <2>1 DEF DisconnectManyClose, ClosedType, TypeOK
<1>7. CASE DisconnectManyDone(o)
  BY <1>7 DEF DisconnectManyDone
<1> QED
  BY <1>1, <1>2, <1>3, <1>4, <1>5, <1>6, <1>7 DEF OpCall, OpStep

LEMMA ManagerTypeStep == FiniteFacts /\ TypeOK /\ [Next]_vars => TypeOK'
<1> SUFFICES ASSUME FiniteFacts, TypeOK, [Next]_vars PROVE TypeOK'
  OBVIOUS
<1>1. CASE UNCHANGED vars
  BY <1>1 DEF vars, TypeOK, connectVars, pumpVars, opVars, metrics
<1> QED
  BY <1>1, ManagerTypeConnect, ManagerTypePump, ManagerTypeOp DEF Next

-----------------------------------------------------------------------------
(* The limit.                                                              *)

LEMMA SmallerSize ==
    ASSUME FiniteFacts, NEW m \in [IDs -> Devices \cup {None}],
             NEW n \in [IDs -> Devices \cup {None}],
           \A i \in IDs : n[i] # None => m[i] # None
    PROVE  Size(n) <= Size(m)
<1>1. Present(n) \subseteq Present(m) /\ IsFiniteSet(Present(m))
  BY SizeType DEF Present
<1> QED
  BY <1>1 DEF Size, FiniteFacts

LEMMA LargerSize ==
    ASSUME FiniteFacts, NEW m \in [IDs -> Devices \cup {None}], NEW i \in IDs, NEW d \in Devices,
             m[i] = None
    PROVE  Size([m EXCEPT ![i] = d]) = Size(m) + 1
<1>1. /\ Present([m EXCEPT ![i] = d]) = Present(m) \cup {i}
      /\ i \notin Present(m) /\ IsFiniteSet(Present(m))
  BY SizeType, ManagerAssumption DEF Present
<1> QED
  BY <1>1, Zenon DEF Size, FiniteFacts

\* A step adds a device only where the limit leaves room for it.
LEMMA LimitStep == FiniteFacts /\ TypeOK /\ LimitRespected /\ [Next]_vars => LimitRespected'
<1> SUFFICES ASSUME FiniteFacts, TypeOK, LimitRespected, [Next]_vars, Limit > 0
             PROVE  Size(data') <= Limit
  BY DEF LimitRespected
<1>0. /\ data \in [IDs -> Devices \cup {None}] /\ data' \in [IDs -> Devices \cup {None}]
      /\ Size(data) \in Nat /\ Size(data') \in Nat /\ Size(data) <= Limit /\ Limit \in Int
  BY ManagerTypeStep, SizeType, ManagerAssumption DEF TypeOK, LimitRespected
<1>1. CASE \A i \in IDs : data'[i] # None => data[i] # None
  <2>1. Size(data') <= Size(data)
    BY <1>0, <1>1, SmallerSize
  <2> QED
    BY <1>0, <2>1
<1>2. ASSUME NEW d \in Devices, ConnectAdd(d) PROVE Size(data') <= Limit
  <2>0. IdOf[d] \in IDs
    BY ManagerAssumption
  <2>1. CASE data' = data
    BY <1>1, <2>1
  <2>2. CASE data' = [data EXCEPT ![IdOf[d]] = d] /\ ~AtLimit(d)
    <3>1. CASE data[IdOf[d]] = None
      <4>1. Size(data') = Size(data) + 1
        BY <1>0, <2>0, <2>2, <3>1, LargerSize, Zenon
      <4> QED
        BY <1>0, <2>2, <3>1, <4>1 DEF AtLimit
    <3>2. CASE data[IdOf[d]] # None
      BY <1>0, <1>1, <2>0, <2>2, <3>2
    <3> QED
      BY <3>1, <3>2
  <2> QED
    BY <1>2, <2>1, <2>2 DEF ConnectAdd
<1>3. ASSUME NEW id \in IDs, data' = [data EXCEPT ![id] = None] PROVE Size(data') <= Limit
  BY <1>0, <1>1, <1>3
<1>4. ASSUME NEW d \in Devices, ConnectStep(d) \/ PumpEnds(d) \/ PumpRemove(d) \/ PumpClose(d)
      PROVE  Size(data') <= Limit
  <2>1. IdOf[d] \in IDs
    BY ManagerAssumption
  <2> QED
    BY <1>1, <1>2, <1>3, <1>4, <2>1 DEF ConnectStep, ConnectBegin, ConnectLimit, ConnectAdded,
       ConnectEvent, PumpEnds, PumpRemove, PumpClose, Remove
<1>5. ASSUME NEW o \in Ops, OpCall(o) PROVE Size(data') <= Limit
  BY <1>0, <1>1, <1>3, <1>5 DEF OpCall, Disconnect, DisconnectIf, DisconnectAll, Remove
<1>6. ASSUME NEW o \in Ops, OpStep(o) PROVE Size(data') <= Limit
  <2>1. ASSUME NEW d \in Devices, DisconnectIfRemove(o, d) PROVE Size(data') <= Limit
    <3>1. IdOf[d] \in IDs
      BY ManagerAssumption
    <3> QED
      BY <1>1, <1>3, <2>1, <3>1 DEF DisconnectIfRemove, Remove
  <2> QED
    BY <1>1, <1>6, <2>1 DEF OpStep, DisconnectClose, DisconnectManyClose, DisconnectManyDone
<1>7. CASE UNCHANGED vars
  BY <1>1, <1>7 DEF vars
<1> QED
  BY <1>4, <1>5, <1>6, <1>7 DEF Next

-----------------------------------------------------------------------------
(* Who is registered is open.                                              *)

\* Devices that are, or were, in the registry.
Known(d) == connect[d] \in {"added", "event", "done"}

\* Devices that are closed, or in the hands of a goroutine that will close them.
Doomed(d) == closed[d] \/ connect[d] = "limit" \/ ToBeClosed(d)

\* The inductive invariant: a registered device is under its ID; a doomed one
\* is not registered and will not be, because it was registered before; a pump
\* that has removed its ID has left no trace of its device.
DataKnown == \A i \in IDs : data[i] # None => IdOf[data[i]] = i /\ Known(data[i])
DoomedIsGone ==
    \A d \in Devices : Doomed(d) => data[IdOf[d]] # d /\ connect[d] \notin {"idle", "add"}
MatchedKnown == \A o \in Ops : \A d \in matched[o] : Known(d)
PumpStarted == \A d \in Devices : pump[d] # "off" => connect[d] = "done"
RegistryInv == TypeOK /\ DataKnown /\ DoomedIsGone /\ MatchedKnown /\ PumpStarted /\ NoZombie

LEMMA RegistryInvOpen == RegistryInv => RegisteredIsOpen
<1> SUFFICES ASSUME RegistryInv, NEW i \in IDs, data[i] # None
             PROVE  ~closed[data[i]] /\ IdOf[data[i]] = i
  BY DEF RegisteredIsOpen
<1>1. data[i] \in Devices /\ IdOf[data[i]] = i
  BY DEF RegistryInv, DataKnown, TypeOK
<1> QED
  BY <1>1 DEF RegistryInv, DoomedIsGone, Doomed

LEMMA RegistryInit == Init => RegistryInv
<1> SUFFICES ASSUME Init PROVE RegistryInv
  OBVIOUS
<1>1. TypeOK
  BY ManagerTypeInit
<1> QED
  BY <1>1, ManagerAssumption DEF Init, RegistryInv, DataKnown, DoomedIsGone, Doomed, ToBeClosed,
     MatchedKnown, PumpStarted, NoZombie

\* A step that takes IDs out of the registry, marks devices that were in it, or
\* gathered from it, as doomed, and moves no Connect back keeps the invariant.
LEMMA RemovalStep ==
    ASSUME RegistryInv, TypeOK',
           \A i \in IDs : data'[i] # None => data'[i] = data[i],
           \A d \in Devices : \/ connect'[d] = connect[d]
                              \/ Known(d) /\ Known(d)'
                              \/ connect[d] = "limit" /\ connect'[d] = "refused",
           \A d \in Devices : Doomed(d)' => Doomed(d) \/ (Known(d) /\ data'[IdOf[d]] # d),
           \A o \in Ops : \A d \in matched'[o] : Known(d),
           \A d \in Devices : pump'[d] # "off" => connect'[d] = "done",
           \A d \in Devices : pump'[d] \in {"close", "exit"} => data'[IdOf[d]] # d
    PROVE  RegistryInv'
<1> USE ManagerAssumption DEF RegistryInv
<1>0. /\ data \in [IDs -> Devices \cup {None}] /\ data' \in [IDs -> Devices \cup {None}]
      /\ \A d \in Devices : IdOf[d] \in IDs
      /\ matched' \in [Ops -> SUBSET Devices]
  BY DEF TypeOK
<1>1. \A d \in Devices : Known(d) => Known(d)'
  BY DEF Known
<1>2. DataKnown'
  BY <1>0, <1>1 DEF DataKnown
<1>3. DoomedIsGone'
  <2> SUFFICES ASSUME NEW d \in Devices, Doomed(d)'
               PROVE  data'[IdOf[d]] # d /\ connect'[d] \notin {"idle", "add"}
    BY DEF DoomedIsGone
  <2>1. CASE Doomed(d)
    BY <1>0, <2>1 DEF DoomedIsGone, Known
  <2>2. CASE Known(d) /\ data'[IdOf[d]] # d
    BY <1>1, <2>2 DEF Known
  <2> QED
    BY <2>1, <2>2
<1>4. MatchedKnown'
  BY <1>0, <1>1 DEF MatchedKnown
<1> QED
  BY <1>2, <1>3, <1>4 DEF PumpStarted, NoZombie

LEMMA RegistryConnect ==
    ASSUME FiniteFacts, RegistryInv, NEW d \in Devices, ConnectStep(d)
    PROVE  RegistryInv'
<1> USE ManagerAssumption DEF connectVars, pumpVars, opVars, metrics
<1>0. TypeOK /\ TypeOK'
  BY ManagerTypeConnect DEF RegistryInv
<1>y. /\ data \in [IDs -> Devices \cup {None}] /\ closed \in [Devices -> BOOLEAN]
      /\ connect \in [Devices -> {"idle", "add", "limit", "added", "event", "done", "refused"}]
      /\ existing \in [Devices -> Devices \cup {None}]
      /\ pump \in [Devices -> {"off", "running", "remove", "close", "exit"}]
      /\ removed \in [Devices -> Devices \cup {None}]
      /\ matched \in [Ops -> SUBSET Devices] /\ original \in [Ops -> SUBSET Devices]
  BY <1>0 DEF TypeOK
<1>1. CASE ConnectBegin(d)
  <2>1. \A x \in Devices :
             \/ connect'[x] = connect[x]
             \/ x = d /\ connect[x] = "idle" /\ connect'[x] \in {"add", "refused"}
    BY <1>y, <1>1 DEF ConnectBegin
  <2>2. \A x \in Devices : (Known(x)' <=> Known(x)) /\ (Doomed(x)' <=> Doomed(x))
          /\ (Doomed(x) => x # d)
    BY <2>1, <1>1 DEF ConnectBegin, Known, Doomed, ToBeClosed, RegistryInv, DoomedIsGone
  <2>3. DataKnown'
    BY <1>y, <1>1, <2>2 DEF ConnectBegin, RegistryInv, DataKnown
  <2>4. DoomedIsGone'
    BY <1>1, <2>1, <2>2 DEF ConnectBegin, RegistryInv, DoomedIsGone
  <2>5. MatchedKnown'
    BY <1>y, <1>1, <2>2 DEF ConnectBegin, RegistryInv, MatchedKnown
  <2>6. PumpStarted' /\ NoZombie'
    BY <1>1, <2>1, Zenon DEF ConnectBegin, RegistryInv, PumpStarted, NoZombie
  <2> QED
    BY <1>0, <2>3, <2>4, <2>5, <2>6 DEF RegistryInv
<1>2. CASE ConnectAdd(d)
  <2>1. /\ \A x \in Devices \ {d} : connect'[x] = connect[x]
        /\ connect[d] = "add" /\ connect'[d] \in {"limit", "added"}
        /\ ~Known(d) /\ ~Doomed(d) /\ pump[d] = "off"
    BY <1>y, <1>2 DEF ConnectAdd, Known, RegistryInv, DoomedIsGone, PumpStarted
  <2>2. \A x \in Devices : Known(x) => Known(x)'
    BY <2>1 DEF Known
  <2>3. PumpStarted' /\ MatchedKnown'
    BY <1>y, <1>2, <2>1, <2>2 DEF ConnectAdd, RegistryInv, PumpStarted, MatchedKnown
  <2>4. \A i \in IDs : data[i] # d
    BY <2>1, <1>y DEF RegistryInv, DataKnown
  <2>5. CASE AtLimit(d)
    <3>1. UNCHANGED <<data, existing>> /\ connect'[d] = "limit"
      BY <1>y, <1>2, <2>5 DEF ConnectAdd
    <3>2. DataKnown' /\ NoZombie'
      BY <1>y, <1>2, <2>2, <3>1 DEF ConnectAdd, RegistryInv, DataKnown, NoZombie
    <3>3. \A x \in Devices : Doomed(x)' => Doomed(x) \/ x = d
      BY <1>2, <2>1, <3>1, Zenon DEF ConnectAdd, Doomed, ToBeClosed
    <3>4. DoomedIsGone'
      BY <1>y, <2>1, <2>4, <3>1, <3>3 DEF RegistryInv, DoomedIsGone
    <3> QED
      BY <1>0, <2>3, <3>2, <3>4 DEF RegistryInv
  <2>6. CASE ~AtLimit(d)
    <3>1. /\ data' = [data EXCEPT ![IdOf[d]] = d]
          /\ existing' = [existing EXCEPT ![d] = data[IdOf[d]]]
          /\ connect'[d] = "added"
      BY <1>y, <1>2, <2>6 DEF ConnectAdd
    <3>2. \A i \in IDs : data'[i] = IF i = IdOf[d] THEN d ELSE data[i]
      BY <1>y, <3>1
    <3>3. DataKnown'
      BY <1>y, <2>2, <3>1, <3>2 DEF RegistryInv, DataKnown, Known
    <3>4. NoZombie'
      BY <1>y, <1>2, <2>1, <3>2 DEF ConnectAdd, RegistryInv, NoZombie
    <3>5. \A x \in Devices : Doomed(x)' => Doomed(x) \/ x = data[IdOf[d]]
      <4>1. \A y \in Devices : existing'[y] = existing[y] \/ existing'[y] = data[IdOf[d]]
        BY <1>y, <3>1
      <4> QED
        BY <1>2, <2>1, <3>1, <4>1 DEF ConnectAdd, Doomed, ToBeClosed
    <3>6. DoomedIsGone'
      <4> SUFFICES ASSUME NEW x \in Devices, Doomed(x)'
                   PROVE  data'[IdOf[x]] # x /\ connect'[x] \notin {"idle", "add"}
        BY DEF DoomedIsGone
      <4>1. x # d
        BY <2>1, <2>4, <3>5
      <4>2. CASE Doomed(x)
        BY <1>y, <2>1, <3>2, <4>1, <4>2 DEF RegistryInv, DoomedIsGone
      <4>3. CASE x = data[IdOf[d]]
        <5>1. IdOf[x] = IdOf[d] /\ Known(x)
          BY <1>y, <4>3, SMTT(20) DEF RegistryInv, DataKnown
        <5> QED
          BY <2>1, <3>2, <4>1, <5>1 DEF Known
      <4> QED
        BY <3>5, <4>2, <4>3
    <3> QED
      BY <1>0, <2>3, <3>3, <3>4, <3>6 DEF RegistryInv
  <2> QED
    BY <2>5, <2>6
<1>3. CASE ConnectLimit(d)
  <2>1. /\ \A x \in Devices :
             connect'[x] = connect[x] \/ (connect[x] = "limit" /\ connect'[x] = "refused")
        /\ \A x \in Devices : connect'[x] = "limit" => connect[x] = "limit"
        /\ \A x \in Devices : closed'[x] => closed[x] \/ x = d
    BY <1>y, <1>3 DEF ConnectLimit, RequestClose
  <2>2. \A x \in Devices : Doomed(x)' => Doomed(x)
    BY <1>3, <2>1, Zenon DEF ConnectLimit, Doomed, ToBeClosed
  <2>3. \A x \in Devices : pump'[x] # "off" => connect'[x] = "done"
    BY <1>3, <2>1, Zenon DEF ConnectLimit, RegistryInv, PumpStarted
  <2> QED
    BY <1>0, <1>3, <2>1, <2>2, <2>3, RemovalStep
       DEF ConnectLimit, RegistryInv, MatchedKnown, NoZombie
<1>4. CASE ConnectAdded(d)
  <2>1. \A x \in Devices :
             connect'[x] = connect[x] \/ (connect[x] = "added" /\ connect'[x] = "event")
    BY <1>y, <1>4 DEF ConnectAdded
  <2>2. \A x \in Devices : closed'[x] => closed[x] \/ x = existing[d]
    BY <1>y, <1>4 DEF ConnectAdded, RequestClose
  <2>3. \A x, y \in Devices : existing'[x] = y => existing[x] = y
    BY <1>y, <1>4 DEF ConnectAdded
  <2>4. \A x \in Devices : Doomed(x)' => Doomed(x)
    BY <1>4, <2>1, <2>2, <2>3 DEF ConnectAdded, Doomed, ToBeClosed
  <2>5. \A x \in Devices : pump'[x] # "off" => connect'[x] = "done"
    BY <1>4, <2>1 DEF ConnectAdded, RegistryInv, PumpStarted
  <2>6. \A x \in Devices : connect'[x] = connect[x] \/ (Known(x) /\ Known(x)')
    BY <2>1 DEF Known
  <2> QED
    BY <1>0, <1>4, <2>4, <2>5, <2>6, RemovalStep, Zenon
       DEF ConnectAdded, RegistryInv, MatchedKnown, NoZombie
<1>5. CASE ConnectEvent(d)
  <2>1. \A x \in Devices :
             connect'[x] = connect[x] \/ (connect[x] = "event" /\ connect'[x] = "done")
    BY <1>y, <1>5, SMTT(20) DEF ConnectEvent
  <2>2. \A x \in Devices : Doomed(x)' => Doomed(x)
    BY <1>5, <2>1 DEF ConnectEvent, Doomed, ToBeClosed
  <2>3. \A x \in Devices : /\ pump'[x] # "off" => connect'[x] = "done"
                           /\ pump'[x] \in {"close", "exit"} => pump[x] \in {"close", "exit"}
    BY <1>y, <1>5, <2>1 DEF ConnectEvent, RegistryInv, PumpStarted
  <2>4. \A x \in Devices : connect'[x] = connect[x] \/ (Known(x) /\ Known(x)')
    BY <2>1 DEF Known
  <2> QED
    BY <1>0, <1>5, <2>2, <2>3, <2>4, RemovalStep, Zenon
       DEF ConnectEvent, RegistryInv, MatchedKnown, NoZombie
<1> QED
  BY <1>1, <1>2, <1>3, <1>4, <1>5 DEF ConnectStep

LEMMA RegistryPump ==
    ASSUME FiniteFacts, RegistryInv, NEW d \in Devices, PumpEnds(d) \/ PumpRemove(d) \/ PumpClose(d)
    PROVE  RegistryInv'
<1> USE ManagerAssumption DEF connectVars, pumpVars, opVars, metrics
<1>0. TypeOK /\ TypeOK'
  BY ManagerTypePump DEF RegistryInv
<1>y. /\ data \in [IDs -> Devices \cup {None}] /\ closed \in [Devices -> BOOLEAN]
      /\ connect \in [Devices -> {"idle", "add", "limit", "added", "event", "done", "refused"}]
      /\ existing \in [Devices -> Devices \cup {None}]
      /\ pump \in [Devices -> {"off", "running", "remove", "close", "exit"}]
      /\ removed \in [Devices -> Devices \cup {None}]
      /\ matched \in [Ops -> SUBSET Devices] /\ original \in [Ops -> SUBSET Devices]
  BY <1>0 DEF TypeOK
<1>1. CASE PumpEnds(d)
  <2>1. \A x \in Devices : /\ pump'[x] # "off" => pump[x] # "off"
                           /\ pump'[x] \in {"close", "exit"} => pump[x] \in {"close", "exit"}
    BY <1>y, <1>1 DEF PumpEnds
  <2>2. \A x \in Devices : Doomed(x)' => Doomed(x)
    BY <1>1, Zenon DEF PumpEnds, Doomed, ToBeClosed
  <2> QED
    BY <1>0, <1>1, <2>1, <2>2, RemovalStep, Zenon
       DEF PumpEnds, RegistryInv, MatchedKnown, NoZombie, PumpStarted
<1>2. CASE PumpRemove(d)
  <2>1. \A i \in IDs : data'[i] = IF i = IdOf[d] THEN None ELSE data[i]
    BY <1>y, <1>2 DEF PumpRemove, Remove
  <2>2. \A x \in Devices : /\ pump'[x] # "off" => pump[x] # "off"
                           /\ pump'[x] \in {"close", "exit"} =>
                                x = d \/ pump[x] \in {"close", "exit"}
                           /\ removed'[x] = removed[x] \/ removed'[x] = data[IdOf[d]]
    BY <1>y, <1>2 DEF PumpRemove
  <2>3. \A x \in Devices : Doomed(x)' => Doomed(x) \/ x = data[IdOf[d]]
    BY <1>2, <2>2 DEF PumpRemove, Doomed, ToBeClosed
  <2>4. \A x \in Devices : x = data[IdOf[d]] => Known(x) /\ data'[IdOf[x]] # x
    BY <1>y, <2>1 DEF RegistryInv, DataKnown
  <2>5. \A x \in Devices : pump'[x] \in {"close", "exit"} => data'[IdOf[x]] # x
    BY <1>y, <2>1, <2>2 DEF RegistryInv, NoZombie
  <2> QED
    BY <1>0, <1>2, <2>1, <2>2, <2>3, <2>4, <2>5, RemovalStep, Zenon
       DEF PumpRemove, RegistryInv, MatchedKnown, PumpStarted
<1>3. CASE PumpClose(d)
  <2>1. \A x \in Devices : /\ pump'[x] # "off" => pump[x] # "off"
                           /\ pump'[x] \in {"close", "exit"} => pump[x] \in {"close", "exit"}
                           /\ removed'[x] = removed[x] \/ removed'[x] = None
                           /\ closed'[x] => closed[x] \/ x = removed[d]
    BY <1>y, <1>3 DEF PumpClose, RequestClose
  <2>2. \A x \in Devices : Doomed(x)' => Doomed(x)
    BY <1>3, <2>1, Zenon DEF PumpClose, Doomed, ToBeClosed
  <2> QED
    BY <1>0, <1>3, <2>1, <2>2, RemovalStep, Zenon
       DEF PumpClose, RegistryInv, MatchedKnown, NoZombie, PumpStarted
<1> QED
  BY <1>1, <1>2, <1>3

LEMMA RegistryOp ==
    ASSUME FiniteFacts, RegistryInv, NEW o \in Ops, OpCall(o) \/ OpStep(o)
    PROVE  RegistryInv'
<1> USE ManagerAssumption DEF connectVars, pumpVars, opVars, metrics
<1>0. TypeOK /\ TypeOK'
  BY ManagerTypeOp DEF RegistryInv
<1>y. /\ data \in [IDs -> Devices \cup {None}] /\ closed \in [Devices -> BOOLEAN]
      /\ connect \in [Devices -> {"idle", "add", "limit", "added", "event", "done", "refused"}]
      /\ existing \in [Devices -> Devices \cup {None}]
      /\ pump \in [Devices -> {"off", "running", "remove", "close", "exit"}]
      /\ removed \in [Devices -> Devices \cup {None}]
      /\ matched \in [Ops -> SUBSET Devices] /\ original \in [Ops -> SUBSET Devices]
  BY <1>0 DEF TypeOK
<1>1. ASSUME NEW id \in IDs, Disconnect(o, id) PROVE RegistryInv'
  <2>1. \A i \in IDs : data'[i] = IF i = id THEN None ELSE data[i]
    BY <1>y, <1>1 DEF Disconnect, Remove
  <2>2. \A x \in Devices : Doomed(x)' => Doomed(x) \/ x = data[id]
    <3>1. \A p \in Ops : original'[p] = original[p] \/ original'[p] = {data[id]} \ {None}
      BY <1>y, <1>1 DEF Disconnect
    <3>2. UNCHANGED <<closed, connect, existing, removed>>
      BY <1>1 DEF Disconnect
    <3> QED
      BY <3>1, <3>2, Zenon DEF Doomed, ToBeClosed
  <2>3. \A x \in Devices : x = data[id] => Known(x) /\ data'[IdOf[x]] # x
    BY <1>y, <2>1 DEF RegistryInv, DataKnown
  <2>4. \A x \in Devices : pump'[x] \in {"close", "exit"} => data'[IdOf[x]] # x
    BY <1>y, <1>1, <2>1 DEF Disconnect, RegistryInv, NoZombie
  <2> QED
    BY <1>0, <1>1, <2>1, <2>2, <2>3, <2>4, RemovalStep, Zenon
       DEF Disconnect, RegistryInv, MatchedKnown, PumpStarted
<1>2. ASSUME NEW ids \in SUBSET IDs, DisconnectIf(o, ids) PROVE RegistryInv'
  <2>1. \A p \in Ops : \A x \in matched'[p] : Known(x)
    <3>1. \A x \in {data[i] : i \in ids} \ {None} : Known(x)
      <4> SUFFICES ASSUME NEW i \in ids, data[i] # None PROVE Known(data[i])
        OBVIOUS
      <4> QED
        BY DEF RegistryInv, DataKnown
    <3>2. \A p \in Ops : matched'[p] = matched[p] \/ matched'[p] = {data[i] : i \in ids} \ {None}
      BY <1>y, <1>2 DEF DisconnectIf
    <3> QED
      BY <3>1, <3>2 DEF RegistryInv, MatchedKnown
  <2>2. \A x \in Devices : Doomed(x)' => Doomed(x)
    BY <1>2, Zenon DEF DisconnectIf, Doomed, ToBeClosed
  <2> QED
    BY <1>0, <1>2, <2>1, <2>2, RemovalStep, Zenon
       DEF DisconnectIf, RegistryInv, NoZombie, PumpStarted
<1>3. CASE DisconnectAll(o)
  <2>1. \A i \in IDs : data'[i] = None
    BY <1>3, Zenon DEF DisconnectAll
  <2>2. \A x \in Devices : Doomed(x)' => Doomed(x) \/ Known(x)
    <3>1. \A p \in Ops : original'[p] = original[p] \/ original'[p] = {data[i] : i \in IDs} \ {None}
      BY <1>y, <1>3 DEF DisconnectAll
    <3>2. \A x \in {data[i] : i \in IDs} \ {None} : Known(x)
      <4> SUFFICES ASSUME NEW i \in IDs, data[i] # None PROVE Known(data[i])
        OBVIOUS
      <4> QED
        BY DEF RegistryInv, DataKnown
    <3>3. UNCHANGED <<closed, connect, existing, removed>>
      BY <1>3, Zenon DEF DisconnectAll
    <3> QED
      BY <3>1, <3>2, <3>3 DEF Doomed, ToBeClosed
  <2>3. \A x \in Devices : data'[IdOf[x]] # x
    BY <2>1, <1>y
  <2> QED
    BY <1>0, <1>3, <2>1, <2>2, <2>3, RemovalStep, Zenon
       DEF DisconnectAll, RegistryInv, MatchedKnown, PumpStarted
<1>4. CASE DisconnectClose(o)
  <2>1. \A x \in Devices : closed'[x] => closed[x] \/ x \in original[o]
    BY <1>y, <1>4 DEF DisconnectClose, RequestClose
  <2>2. \A p \in Ops : original'[p] \subseteq original[p]
    BY <1>y, <1>4 DEF DisconnectClose
  <2>3. \A x \in Devices : Doomed(x)' => Doomed(x)
    BY <1>4, <2>1, <2>2, Zenon DEF DisconnectClose, Doomed, ToBeClosed
  <2> QED
    BY <1>0, <1>4, <2>3, RemovalStep, Zenon
       DEF DisconnectClose, RegistryInv, MatchedKnown, NoZombie, PumpStarted
<1>5. ASSUME NEW d \in Devices, DisconnectIfRemove(o, d) PROVE RegistryInv'
  <2>1. Known(d) /\ \A p \in Ops : matched'[p] \subseteq matched[p]
    BY <1>y, <1>5 DEF DisconnectIfRemove, RegistryInv, MatchedKnown
  <2>2. \A i \in IDs : data'[i] = IF i = IdOf[d] THEN None ELSE data[i]
    BY <1>y, <1>5 DEF DisconnectIfRemove, Remove
  <2>3. \A x \in Devices : Doomed(x)' => Doomed(x) \/ x = d
    <3>1. \A p \in Ops : original'[p] = original[p] \/ original'[p] = {d}
      BY <1>y, <1>5 DEF DisconnectIfRemove
    <3>2. UNCHANGED <<closed, connect, existing, removed>>
      BY <1>5 DEF DisconnectIfRemove
    <3>3. \A x \in Devices : ToBeClosed(x)' => ToBeClosed(x) \/ x = d
      <4> SUFFICES ASSUME NEW x \in Devices, ToBeClosed(x)', x # d PROVE ToBeClosed(x)
        OBVIOUS
      <4>1. CASE \E y \in Devices : existing'[y] = x \/ removed'[y] = x
        BY <3>2, <4>1 DEF ToBeClosed
      <4>2. CASE \E p \in Ops : x \in original'[p]
        <5>1. PICK p \in Ops : x \in original'[p]
          BY <4>2
        <5>2. x \in original[p]
          BY <3>1, <5>1
        <5> QED
          BY <5>2 DEF ToBeClosed
      <4> QED
        BY <4>1, <4>2 DEF ToBeClosed
    <3> QED
      BY <3>2, <3>3 DEF Doomed
  <2>4. data'[IdOf[d]] # d
    BY <1>y, <2>2
  <2>5. \A x \in Devices : pump'[x] \in {"close", "exit"} => data'[IdOf[x]] # x
    BY <1>y, <1>5, <2>2 DEF DisconnectIfRemove, RegistryInv, NoZombie
  <2> QED
    BY <1>0, <1>5, <2>1, <2>2, <2>3, <2>4, <2>5, RemovalStep, Zenon
       DEF DisconnectIfRemove, RegistryInv, MatchedKnown, PumpStarted
<1>6. ASSUME NEW d \in Devices, DisconnectManyClose(o, d) PROVE RegistryInv'
  <2>1. /\ d \in original[o]
        /\ \A x \in Devices : closed'[x] => closed[x] \/ x = d
        /\ \A p \in Ops : original'[p] \subseteq original[p]
    BY <1>y, <1>6 DEF DisconnectManyClose, RequestClose
  <2>2. \A x \in Devices : Doomed(x)' => Doomed(x)
    BY <1>6, <2>1, Zenon DEF DisconnectManyClose, Doomed, ToBeClosed
  <2> QED
    BY <1>0, <1>6, <2>2, RemovalStep, Zenon
       DEF DisconnectManyClose, RegistryInv, MatchedKnown, NoZombie, PumpStarted
<1>7. CASE DisconnectManyDone(o)
  <2>1. \A x \in Devices : Doomed(x)' => Doomed(x)
    BY <1>7, Zenon DEF DisconnectManyDone, Doomed, ToBeClosed
  <2> QED
    BY <1>0, <1>7, <2>1, RemovalStep, Zenon
       DEF DisconnectManyDone, RegistryInv, MatchedKnown, NoZombie, PumpStarted
<1> QED
  BY <1>1, <1>2, <1>3, <1>4, <1>5, <1>6, <1>7 DEF OpCall, OpStep

LEMMA RegistryStep == FiniteFacts /\ RegistryInv /\ [Next]_vars => RegistryInv'
<1> SUFFICES ASSUME FiniteFacts, RegistryInv, [Next]_vars PROVE RegistryInv'
  OBVIOUS
<1>1. CASE UNCHANGED vars
  BY <1>1 DEF vars, connectVars, pumpVars, opVars, metrics, RegistryInv, TypeOK, DataKnown, Known,
     DoomedIsGone, Doomed, ToBeClosed, MatchedKnown, PumpStarted, NoZombie
<1> QED
  BY <1>1, RegistryConnect, RegistryPump, RegistryOp DEF Next

-----------------------------------------------------------------------------
(* The metrics agree with the registry.                                    *)

\* The terms of Accounting: what goroutines hold and have not counted yet.
Replaced == {d \in Added : existing[d] # None}
Taken == {d \in Devices : removed[d] # None}
Dropping == {o \in Ops : op[o] = "remove" /\ original[o] # {}}
Batch(c) == UNION {{o} \X (1..c[o]) : o \in Ops}

\* Each term is finite, because one step adds at most what it removes from the
\* registry; and in and out balance.
Books ==
    /\ IsFiniteSet(Added) /\ IsFiniteSet(Taken) /\ IsFiniteSet(Dropping)
    /\ IsFiniteSet(Batch(counted))
    /\ gauge = Size(data)
    /\ connects + Cardinality(Added)
        = Size(data) + (disconnects - limited) + Cardinality(Replaced) + Cardinality(Taken)
          + Cardinality(Dropping) + Cardinality(Batch(counted))

\* Who takes a device in hand holds none yet.
HandsInv ==
    /\ \A o \in Ops : op[o] # "removeIf" => counted[o] = 0
    /\ \A d \in Devices : pump[d] # "close" => removed[d] = None

\* One element more, one element less.
LEMMA OneMore ==
    ASSUME FiniteFacts, NEW S, IsFiniteSet(S), NEW x, x \notin S, NEW T, T = S \cup {x}
    PROVE  IsFiniteSet(T) /\ Cardinality(T) = Cardinality(S) + 1
BY DEF FiniteFacts

LEMMA OneLess ==
    ASSUME FiniteFacts, NEW S, IsFiniteSet(S), NEW x, x \in S, NEW T, T = S \ {x}
    PROVE  IsFiniteSet(T) /\ Cardinality(T) = Cardinality(S) - 1
BY DEF FiniteFacts

LEMMA RemovedSize ==
    ASSUME FiniteFacts, NEW m \in [IDs -> Devices \cup {None}], NEW i \in IDs
    PROVE  /\ m[i] = None => Size([m EXCEPT ![i] = None]) = Size(m)
           /\ m[i] # None => Size([m EXCEPT ![i] = None]) = Size(m) - 1
<1>1. CASE m[i] = None
  <2>1. [m EXCEPT ![i] = None] = m
    BY <1>1
  <2> QED
    BY <1>1, <2>1, Zenon
<1>2. CASE m[i] # None
  <2>1. /\ Present([m EXCEPT ![i] = None]) = Present(m) \ {i}
        /\ i \in Present(m) /\ IsFiniteSet(Present(m))
    BY <1>2, SizeType DEF Present
  <2> QED
    BY <1>2, <2>1, OneLess, Zenon DEF Size
<1> QED
  BY <1>1, <1>2

LEMMA DisjointUnion ==
    ASSUME FiniteFacts, NEW S, NEW T, IsFiniteSet(S), IsFiniteSet(T), S \cap T = {}
    PROVE  /\ IsFiniteSet(S \cup T)
           /\ Cardinality(S \cup T) = Cardinality(S) + Cardinality(T)
<1>1. /\ IsFiniteSet(S \cup T)
      /\ Cardinality(S \cup T) = Cardinality(S) + Cardinality(T) - Cardinality(S \cap T)
  BY Zenon DEF FiniteFacts
<1>2. Cardinality(S) \in Nat /\ Cardinality(T) \in Nat /\ Cardinality({}) = 0
  BY Zenon DEF FiniteFacts
<1>3. ASSUME NEW E, E = {} PROVE Cardinality(E) = 0
  BY <1>2, <1>3
<1>4. Cardinality(S \cap T) = 0
  BY <1>3, Zenon
<1> QED
  BY <1>1, <1>2, <1>4

LEMMA BatchElements ==
    ASSUME NEW c \in [Ops -> Nat], NEW p
    PROVE  p \in Batch(c) <=> \E o \in Ops : \E i \in 1..c[o] : p = <<o, i>>
BY DEF Batch

\* Giving o another count changes the size of the batches by the difference.
LEMMA BatchChange ==
    ASSUME FiniteFacts, NEW c \in [Ops -> Nat], IsFiniteSet(Batch(c)), NEW o \in Ops, NEW n \in Nat
    PROVE  /\ IsFiniteSet(Batch([c EXCEPT ![o] = n]))
           /\ Cardinality(Batch([c EXCEPT ![o] = n])) = Cardinality(Batch(c)) - c[o] + n
<1> DEFINE e == [c EXCEPT ![o] = n]
           rest == [c EXCEPT ![o] = 0]
           Part(k) == {o} \X (1..k)
<1>0. e \in [Ops -> Nat] /\ rest \in [Ops -> Nat] /\ e[o] = n /\ c[o] \in Nat
  OBVIOUS
<1>1. /\ Batch(c) = Batch(rest) \cup Part(c[o])
      /\ Batch(e) = Batch(rest) \cup Part(n)
  <2>1. ASSUME NEW f \in [Ops -> Nat], \A x \in Ops \ {o} : f[x] = c[x]
        PROVE  Batch(f) = Batch(rest) \cup Part(f[o])
    <3>1. ASSUME NEW p PROVE p \in Batch(f) <=> p \in Batch(rest) \/ p \in Part(f[o])
      <4>1. p \in Part(f[o]) <=> \E i \in 1..f[o] : p = <<o, i>>
        OBVIOUS
      <4>2. p \in Batch(rest) <=> \E x \in Ops \ {o} : \E i \in 1..f[x] : p = <<x, i>>
        <5>1. p \in Batch(rest) <=> \E x \in Ops : \E i \in 1..rest[x] : p = <<x, i>>
          BY <1>0, BatchElements, Zenon
        <5>2. rest[o] = 0 /\ \A x \in Ops \ {o} : rest[x] = f[x]
          BY <2>1
        <5>3. 1..0 = {}
          OBVIOUS
        <5> HIDE DEF rest
        <5> QED
          BY <5>1, <5>2, <5>3
      <4>3. p \in Batch(f) <=> \E x \in Ops : \E i \in 1..f[x] : p = <<x, i>>
        BY <2>1, BatchElements
      <4> HIDE DEF Part, rest
      <4> QED
        BY <4>1, <4>2, <4>3
    <3> QED
      BY <3>1, Zenon
  <2>2. \A x \in Ops \ {o} : e[x] = c[x]
    OBVIOUS
  <2> HIDE DEF e, rest, Part
  <2> QED
    BY <1>0, <2>1, <2>2
<1>2. ASSUME NEW k \in Nat
      PROVE  /\ IsFiniteSet(Part(k)) /\ Cardinality(Part(k)) = k
             /\ Batch(rest) \cap Part(k) = {}
  <2>1. IsFiniteSet(1..k) /\ Cardinality(1..k) = k
    BY DEF FiniteFacts
  <2>2. IsFiniteSet({o}) /\ Cardinality({o}) = 1
    BY Zenon DEF FiniteFacts
  <2>3. IsFiniteSet(Part(k)) /\ Cardinality(Part(k)) = Cardinality({o}) * Cardinality(1..k)
    BY <2>1, <2>2, Zenon DEF FiniteFacts
  <2>4. ASSUME NEW p, p \in Batch(rest), p \in Part(k) PROVE FALSE
    <3>1. PICK x \in Ops : \E i \in 1..rest[x] : p = <<x, i>>
      BY <1>0, <2>4, BatchElements, Zenon
    <3>2. PICK j \in 1..k : p = <<o, j>>
      BY <2>4
    <3>3. x = o
      BY <3>1, <3>2
    <3> QED
      BY <3>1, <3>3
  <2>5. Cardinality(Part(k)) = k
    BY <2>1, <2>2, <2>3
  <2> HIDE DEF Part, rest
  <2> QED
    BY <2>3, <2>4, <2>5
<1>3. IsFiniteSet(Batch(rest)) /\ Batch(rest) \subseteq Batch(c)
  BY <1>1, Zenon DEF FiniteFacts
<1> HIDE DEF rest, e, Part
<1>4. ASSUME NEW k \in Nat
      PROVE  /\ IsFiniteSet(Batch(rest) \cup Part(k))
             /\ Cardinality(Batch(rest) \cup Part(k)) = Cardinality(Batch(rest)) + k
  <2>1. IsFiniteSet(Part(k)) /\ Cardinality(Part(k)) = k /\ Batch(rest) \cap Part(k) = {}
    BY <1>2
  <2>2. /\ IsFiniteSet(Batch(rest) \cup Part(k))
        /\ Cardinality(Batch(rest) \cup Part(k)) = Cardinality(Batch(rest)) + Cardinality(Part(k))
    BY <1>3, <2>1, DisjointUnion, Zenon
  <2> QED
    BY <2>1, <2>2, Zenon
<1>5. Cardinality(Batch(rest)) \in Nat
  BY <1>3 DEF FiniteFacts
<1>6. /\ IsFiniteSet(Batch(e)) /\ Cardinality(Batch(e)) = Cardinality(Batch(rest)) + n
      /\ Cardinality(Batch(c)) = Cardinality(Batch(rest)) + c[o]
  <2>1. c[o] \in Nat
    BY <1>0
  <2> QED
    BY <1>1, <1>4, <2>1
<1>7. Cardinality(Batch(e)) = Cardinality(Batch(c)) - c[o] + n
  BY <1>0, <1>5, <1>6
<1> QED
  BY <1>6, <1>7 DEF e

LEMMA HandsStep == RegistryInv /\ HandsInv /\ [Next]_vars => HandsInv'
<1> SUFFICES ASSUME RegistryInv, HandsInv, [Next]_vars PROVE HandsInv'
  OBVIOUS
<1>y. /\ pump \in [Devices -> {"off", "running", "remove", "close", "exit"}]
      /\ removed \in [Devices -> Devices \cup {None}]
      /\ op \in [Ops -> {"idle", "remove", "removeIf", "done"}]
      /\ counted \in [Ops -> Nat]
  BY SMTT(20) DEF RegistryInv, TypeOK
<1>1. ASSUME NEW d \in Devices, ConnectStep(d) PROVE HandsInv'
  <2>1. UNCHANGED <<op, counted, removed>>
    BY <1>1, Zenon DEF ConnectStep, ConnectBegin, ConnectAdd, ConnectLimit, ConnectAdded,
           ConnectEvent,
       opVars, pumpVars
  <2>2. CASE ConnectEvent(d)
    <3>1. pump' = [pump EXCEPT ![d] = "running"] /\ pump[d] = "off"
      BY <2>2 DEF ConnectEvent, RegistryInv, PumpStarted
    <3> QED
      BY <1>y, <2>1, <3>1 DEF HandsInv
  <2>3. CASE pump' = pump
    BY <2>1, <2>3 DEF HandsInv
  <2> QED
    BY <1>1, <2>2, <2>3 DEF ConnectStep, ConnectBegin, ConnectAdd, ConnectLimit, ConnectAdded,
       pumpVars
<1>2. ASSUME NEW d \in Devices, PumpEnds(d) \/ PumpRemove(d) \/ PumpClose(d) PROVE HandsInv'
  <2>1. UNCHANGED <<op, counted>>
    BY <1>2, SMTT(20) DEF PumpEnds, PumpRemove, PumpClose, opVars
  <2> QED
    BY <1>y, <1>2, <2>1, Zenon DEF HandsInv, PumpEnds, PumpRemove, PumpClose
<1>3. ASSUME NEW o \in Ops, OpCall(o) \/ OpStep(o) PROVE HandsInv'
  <2>1. UNCHANGED <<pump, removed>>
    BY <1>3, SMTT(20) DEF OpCall, OpStep, Disconnect, DisconnectIf, DisconnectAll, DisconnectClose,
       DisconnectIfRemove, DisconnectManyClose, DisconnectManyDone, pumpVars
  <2>2. \/ op' = op /\ op[o] = "removeIf" /\ \A x \in Ops \ {o} : counted'[x] = counted[x]
        \/ /\ op' = [op EXCEPT ![o] = "removeIf"]
           /\ \A x \in Ops \ {o} : counted'[x] = counted[x]
        \/ counted' = counted /\ op[o] # "removeIf" /\ \E x : op' = [op EXCEPT ![o] = x]
        \/ counted' = [counted EXCEPT ![o] = 0] /\ op' = [op EXCEPT ![o] = "done"]
    BY <1>y, <1>3 DEF OpCall, OpStep, Disconnect, DisconnectIf, DisconnectAll, DisconnectClose,
       DisconnectIfRemove, DisconnectManyClose, DisconnectManyDone
  <2> QED
    BY <1>y, <2>1, <2>2 DEF HandsInv
<1>4. CASE UNCHANGED vars
  BY <1>4, Zenon DEF vars, pumpVars, opVars, HandsInv
<1> QED
  BY <1>1, <1>2, <1>3, <1>4 DEF Next

LEMMA BooksType ==
    ASSUME FiniteFacts, TypeOK, Books
    PROVE  /\ IsFiniteSet(Replaced)
           /\ Size(data) \in Nat /\ connects \in Nat /\ disconnects \in Nat /\ limited \in Nat
           /\ Cardinality(Added) \in Nat /\ Cardinality(Replaced) \in Nat
           /\ Cardinality(Taken) \in Nat /\ Cardinality(Dropping) \in Nat
           /\ Cardinality(Batch(counted)) \in Nat
<1>1. IsFiniteSet(Replaced)
  BY Zenon DEF Books, Replaced, FiniteFacts
<1> QED
  BY <1>1, SizeType, Zenon DEF TypeOK, Books, FiniteFacts

\* A step whose changes of the terms balance keeps the books.
LEMMA Balance ==
    ASSUME FiniteFacts, TypeOK, Books, TypeOK',
           IsFiniteSet(Added'), IsFiniteSet(Taken'), IsFiniteSet(Dropping'),
           IsFiniteSet(Batch(counted)'), gauge' = Size(data'),
           (connects' - connects) + (Cardinality(Added') - Cardinality(Added))
             = (Size(data') - Size(data)) + (disconnects' - disconnects) - (limited' - limited)
               + (Cardinality(Replaced') - Cardinality(Replaced))
               + (Cardinality(Taken') - Cardinality(Taken))
               + (Cardinality(Dropping') - Cardinality(Dropping))
               + (Cardinality(Batch(counted)') - Cardinality(Batch(counted)))
    PROVE  Books'
<1>1. /\ Size(data) \in Nat /\ connects \in Nat /\ disconnects \in Nat /\ limited \in Nat
      /\ Cardinality(Added) \in Nat /\ Cardinality(Replaced) \in Nat
      /\ Cardinality(Taken) \in Nat /\ Cardinality(Dropping) \in Nat
      /\ Cardinality(Batch(counted)) \in Nat
  BY BooksType
<1>2. /\ Size(data') \in Nat /\ connects' \in Nat /\ disconnects' \in Nat /\ limited' \in Nat
      /\ Cardinality(Added') \in Nat /\ Cardinality(Replaced') \in Nat
      /\ Cardinality(Taken') \in Nat /\ Cardinality(Dropping') \in Nat
      /\ Cardinality(Batch(counted)') \in Nat
  <2>1. IsFiniteSet(Replaced')
    BY DEF Replaced, FiniteFacts
  <2> QED
    BY <2>1, SizeType, Zenon DEF TypeOK, FiniteFacts
<1>3. connects + Cardinality(Added)
        = Size(data) + (disconnects - limited) + Cardinality(Replaced) + Cardinality(Taken)
          + Cardinality(Dropping) + Cardinality(Batch(counted))
  BY DEF Books
<1>4. connects' + Cardinality(Added')
        = Size(data') + (disconnects' - limited') + Cardinality(Replaced') + Cardinality(Taken')
          + Cardinality(Dropping') + Cardinality(Batch(counted)')
  BY <1>1, <1>2, <1>3
<1> QED
  BY <1>4 DEF Books

LEMMA BooksConnect ==
    ASSUME FiniteFacts, TypeOK, TypeOK', Books, NEW d \in Devices, ConnectStep(d)
    PROVE  Books'
<1>y. /\ data \in [IDs -> Devices \cup {None}]
      /\ connect \in [Devices -> {"idle", "add", "limit", "added", "event", "done", "refused"}]
      /\ existing \in [Devices -> Devices \cup {None}]
  BY DEF TypeOK
<1>t. /\ IsFiniteSet(Added) /\ IsFiniteSet(Replaced) /\ IsFiniteSet(Taken)
      /\ IsFiniteSet(Dropping) /\ IsFiniteSet(Batch(counted)) /\ gauge = Size(data)
  BY BooksType DEF Books
<1>u. Taken' = Taken /\ Dropping' = Dropping /\ Batch(counted)' = Batch(counted)
  <2>1. UNCHANGED <<op, original, counted, removed>>
    BY Zenon DEF ConnectStep, ConnectBegin, ConnectAdd, ConnectLimit, ConnectAdded, ConnectEvent,
       opVars, pumpVars
  <2> QED
    BY <2>1 DEF Taken, Dropping, Batch
<1>1. CASE ConnectAdd(d) /\ ~AtLimit(d)
  <2>1. /\ data' = [data EXCEPT ![IdOf[d]] = d]
        /\ existing' = [existing EXCEPT ![d] = data[IdOf[d]]]
        /\ connect[d] = "add" /\ connect' = [connect EXCEPT ![d] = "added"]
    BY <1>1 DEF ConnectAdd
  <2>m. gauge' = Size(data') /\ UNCHANGED <<connects, disconnects, limited>>
    BY <1>1 DEF ConnectAdd
  <2>2. Added' = Added \cup {d} /\ d \notin Added
    BY <1>y, <2>1 DEF Added
  <2>3. IsFiniteSet(Added') /\ Cardinality(Added') = Cardinality(Added) + 1
    BY <1>t, <2>2, OneMore
  <2>4. IdOf[d] \in IDs /\ d # None
    BY ManagerAssumption
  <2>5. CASE data[IdOf[d]] = None
    <3>1. Size(data') = Size(data) + 1
      BY <1>y, <2>1, <2>4, <2>5, LargerSize, Zenon
    <3>2. Replaced' = Replaced
      BY <1>y, <2>1, <2>2, <2>5 DEF Replaced, Added
    <3> QED
      BY <1>t, <1>u, <2>m, <2>3, <3>1, <3>2, BooksType, Balance
  <2>6. CASE data[IdOf[d]] # None
    <3>1. Present(data') = Present(data)
      BY <1>y, <2>1, <2>4, <2>6 DEF Present
    <3>2. Size(data') = Size(data)
      BY <3>1 DEF Size
    <3>3. Replaced' = Replaced \cup {d} /\ d \notin Replaced
      BY <1>y, <2>1, <2>2, <2>6 DEF Replaced, Added
    <3>4. Cardinality(Replaced') = Cardinality(Replaced) + 1
      BY <1>t, <3>3, OneMore
    <3> QED
      BY <1>t, <1>u, <2>m, <2>3, <3>2, <3>4, BooksType, Balance
  <2> QED
    BY <2>5, <2>6
<1>2. CASE ConnectAdded(d)
  <2>1. /\ connect[d] = "added" /\ connect' = [connect EXCEPT ![d] = "event"]
        /\ existing' = [existing EXCEPT ![d] = None]
    BY <1>2 DEF ConnectAdded
  <2>m. connects' = connects + 1 /\ UNCHANGED <<data, gauge, limited>> /\ Size(data') = Size(data)
    BY <1>2 DEF ConnectAdded
  <2>2. Added' = Added \ {d} /\ d \in Added
    BY <1>y, <2>1 DEF Added
  <2>3. IsFiniteSet(Added') /\ Cardinality(Added') = Cardinality(Added) - 1
    BY <1>t, <2>2, OneLess
  <2>4. CASE existing[d] = None
    <3>1. Replaced' = Replaced
      BY <1>y, <2>1, <2>2, <2>4 DEF Replaced, Added
    <3>2. disconnects' = disconnects
      BY <1>2, <2>4 DEF ConnectAdded
    <3> QED
      BY <1>t, <1>u, <2>m, <2>3, <3>1, <3>2, BooksType, Balance
  <2>5. CASE existing[d] # None
    <3>1. /\ Replaced' = Replaced \ {d} /\ d \in Replaced
      BY <1>y, <2>1, <2>2, <2>5 DEF Replaced, Added
    <3>2. disconnects' = disconnects + 1
      BY <1>2, <2>5 DEF ConnectAdded
    <3>3. Cardinality(Replaced') = Cardinality(Replaced) - 1
      BY <1>t, <3>1, OneLess
    <3> QED
      BY <1>t, <1>u, <2>m, <2>3, <3>2, <3>3, BooksType, Balance
  <2> QED
    BY <2>4, <2>5
<1>3. CASE ConnectBegin(d) \/ (ConnectAdd(d) /\ AtLimit(d)) \/ ConnectLimit(d) \/ ConnectEvent(d)
  <2>1. /\ connect[d] # "added" /\ \E x : x # "added" /\ connect' = [connect EXCEPT ![d] = x]
        /\ existing' = existing
    BY <1>3 DEF ConnectBegin, ConnectAdd, ConnectLimit, ConnectEvent
  <2>m. UNCHANGED <<data, gauge, connects>> /\ Size(data') = Size(data)
    BY <1>3 DEF ConnectBegin, ConnectAdd, ConnectLimit, ConnectEvent, metrics
  <2>2. Added' = Added
    BY <1>y, <2>1 DEF Added
  <2>3. Replaced' = Replaced
    BY <2>1, <2>2 DEF Replaced
  <2>4. \/ UNCHANGED <<disconnects, limited>>
        \/ disconnects' = disconnects + 1 /\ limited' = limited + 1
    BY <1>3 DEF ConnectBegin, ConnectAdd, ConnectLimit, ConnectEvent, metrics
  <2> QED
    BY <1>t, <1>u, <2>m, <2>2, <2>3, <2>4, BooksType, Balance
<1> QED
  BY <1>1, <1>2, <1>3 DEF ConnectStep

LEMMA BooksPump ==
    ASSUME FiniteFacts, TypeOK, TypeOK', HandsInv, Books, NEW d \in Devices,
           PumpEnds(d) \/ PumpRemove(d) \/ PumpClose(d)
    PROVE  Books'
<1>y. /\ data \in [IDs -> Devices \cup {None}]
      /\ removed \in [Devices -> Devices \cup {None}]
  BY DEF TypeOK
<1>t. /\ IsFiniteSet(Added) /\ IsFiniteSet(Replaced) /\ IsFiniteSet(Taken)
      /\ IsFiniteSet(Dropping) /\ IsFiniteSet(Batch(counted)) /\ gauge = Size(data)
  BY BooksType DEF Books
<1>u. /\ Added' = Added /\ Replaced' = Replaced /\ Dropping' = Dropping
      /\ Batch(counted)' = Batch(counted) /\ UNCHANGED <<connects, limited>>
  <2>1. UNCHANGED <<connect, existing, op, original, counted, connects, limited>>
    BY Zenon DEF PumpEnds, PumpRemove, PumpClose, connectVars, opVars, metrics
  <2> QED
    BY <2>1, Zenon DEF Added, Replaced, Dropping, Batch
<1>1. CASE PumpEnds(d)
  <2>m. UNCHANGED <<removed, data, gauge, disconnects>> /\ Size(data') = Size(data)
    BY <1>1 DEF PumpEnds, metrics
  <2>2. Taken' = Taken
    BY <2>m DEF Taken
  <2> QED
    BY <1>t, <1>u, <2>m, <2>2, BooksType, Balance
<1>2. CASE PumpRemove(d)
  <2>1. /\ data' = [data EXCEPT ![IdOf[d]] = None]
        /\ removed' = [removed EXCEPT ![d] = data[IdOf[d]]]
    BY <1>2 DEF PumpRemove, Remove
  <2>m. gauge' = Size(data') /\ disconnects' = disconnects
    BY <1>2 DEF PumpRemove, Remove
  <2>2. removed[d] = None /\ IdOf[d] \in IDs
    BY <1>2, ManagerAssumption, Zenon DEF PumpRemove, HandsInv
  <2>4. CASE data[IdOf[d]] = None
    <3>1. Taken' = Taken
      BY <1>y, <2>1, <2>2, <2>4 DEF Taken
    <3>2. Size(data') = Size(data)
      BY <1>y, <2>1, <2>2, <2>4, RemovedSize, Zenon
    <3> QED
      BY <1>t, <1>u, <2>m, <3>1, <3>2, BooksType, Balance
  <2>5. CASE data[IdOf[d]] # None
    <3>1. Taken' = Taken \cup {d} /\ d \notin Taken
      BY <1>y, <2>1, <2>2, <2>5 DEF Taken
    <3>2. Size(data') = Size(data) - 1
      BY <1>y, <2>1, <2>2, <2>5, RemovedSize, Zenon
    <3>3. IsFiniteSet(Taken') /\ Cardinality(Taken') = Cardinality(Taken) + 1
      BY <1>t, <3>1, OneMore
    <3> QED
      BY <1>t, <1>u, <2>m, <3>2, <3>3, BooksType, Balance
  <2> QED
    BY <2>4, <2>5
<1>3. CASE PumpClose(d)
  <2>1. removed' = [removed EXCEPT ![d] = None]
    BY <1>3 DEF PumpClose
  <2>m. UNCHANGED <<data, gauge>> /\ Size(data') = Size(data)
    BY <1>3 DEF PumpClose
  <2>3. CASE removed[d] = None
    <3>1. Taken' = Taken
      BY <1>y, <2>1, <2>3 DEF Taken
    <3>2. disconnects' = disconnects
      BY <1>3, <2>3 DEF PumpClose
    <3> QED
      BY <1>t, <1>u, <2>m, <3>1, <3>2, BooksType, Balance
  <2>4. CASE removed[d] # None
    <3>1. Taken' = Taken \ {d} /\ d \in Taken
      BY <1>y, <2>1, <2>4 DEF Taken
    <3>2. disconnects' = disconnects + 1
      BY <1>3, <2>4 DEF PumpClose
    <3>3. IsFiniteSet(Taken') /\ Cardinality(Taken') = Cardinality(Taken) - 1
      BY <1>t, <3>1, OneLess
    <3> QED
      BY <1>t, <1>u, <2>m, <3>2, <3>3, BooksType, Balance
  <2> QED
    BY <2>3, <2>4
<1> QED
  BY <1>1, <1>2, <1>3

LEMMA BooksOp ==
    ASSUME FiniteFacts, TypeOK, TypeOK', HandsInv, Books, NEW o \in Ops, OpCall(o) \/ OpStep(o)
    PROVE  Books'
<1>y. /\ data \in [IDs -> Devices \cup {None}]
      /\ op \in [Ops -> {"idle", "remove", "removeIf", "done"}]
      /\ original \in [Ops -> SUBSET Devices] /\ counted \in [Ops -> Nat]
  BY DEF TypeOK
<1>t. /\ IsFiniteSet(Added) /\ IsFiniteSet(Taken) /\ IsFiniteSet(Dropping)
      /\ IsFiniteSet(Batch(counted)) /\ gauge = Size(data)
  BY DEF Books
<1>u. /\ Added' = Added /\ Replaced' = Replaced /\ Taken' = Taken
      /\ UNCHANGED <<connects, limited>>
  <2>1. UNCHANGED <<connect, existing, removed, connects, limited>>
    BY Zenon DEF OpCall, OpStep, Disconnect, DisconnectIf, DisconnectAll, DisconnectClose,
       DisconnectIfRemove, DisconnectManyClose, DisconnectManyDone, connectVars, pumpVars, metrics
  <2> QED
    BY <2>1 DEF Added, Replaced, Taken
<1>b. ASSUME counted' = counted PROVE Batch(counted)' = Batch(counted)
  BY <1>b DEF Batch
<1>1. ASSUME NEW id \in IDs, Disconnect(o, id) PROVE Books'
  <2>1. /\ op[o] = "idle" /\ op' = [op EXCEPT ![o] = "remove"]
        /\ original' = [original EXCEPT ![o] = {data[id]} \ {None}]
        /\ data' = [data EXCEPT ![id] = None]
    BY <1>1 DEF Disconnect, Remove
  <2>m. gauge' = Size(data') /\ UNCHANGED <<counted, disconnects>>
    BY <1>1 DEF Disconnect, Remove
  <2>b. Batch(counted)' = Batch(counted)
    BY <1>b, <2>m
  <2>3. CASE data[id] = None
    <3>1. Dropping' = Dropping
      <4>1. original'[o] = {}
        BY <1>y, <2>1, <2>3
      <4> QED
        BY <1>y, <2>1, <4>1 DEF Dropping
    <3>2. Size(data') = Size(data)
      BY <1>y, <1>1, <2>1, <2>3, RemovedSize, Zenon
    <3> QED
      BY <1>t, <1>u, <2>b, <2>m, <3>1, <3>2, BooksType, Balance
  <2>4. CASE data[id] # None
    <3>1. Dropping' = Dropping \cup {o} /\ o \notin Dropping
      <4>1. original'[o] # {}
        BY <1>y, <2>1, <2>4
      <4> QED
        BY <1>y, <2>1, <4>1 DEF Dropping
    <3>2. Size(data') = Size(data) - 1
      BY <1>y, <1>1, <2>1, <2>4, RemovedSize, Zenon
    <3>3. IsFiniteSet(Dropping') /\ Cardinality(Dropping') = Cardinality(Dropping) + 1
      BY <1>t, <3>1, OneMore
    <3> QED
      BY <1>t, <1>u, <2>b, <2>m, <3>2, <3>3, BooksType, Balance
  <2> QED
    BY <2>3, <2>4
<1>2. CASE DisconnectClose(o)
  <2>1. /\ op[o] = "remove" /\ op' = [op EXCEPT ![o] = "done"]
        /\ original' = [original EXCEPT ![o] = {}]
    BY <1>2 DEF DisconnectClose
  <2>m. UNCHANGED <<data, gauge, counted>> /\ Size(data') = Size(data)
    BY <1>2 DEF DisconnectClose
  <2>b. Batch(counted)' = Batch(counted)
    BY <1>b, <2>m
  <2>3. CASE original[o] = {}
    <3>1. Dropping' = Dropping
      BY <1>y, <2>1, <2>3 DEF Dropping
    <3>2. disconnects' = disconnects
      BY <1>2, <2>3 DEF DisconnectClose
    <3> QED
      BY <1>t, <1>u, <2>b, <2>m, <3>1, <3>2, BooksType, Balance
  <2>4. CASE original[o] # {}
    <3>1. Dropping' = Dropping \ {o} /\ o \in Dropping
      BY <1>y, <2>1, <2>4 DEF Dropping
    <3>2. disconnects' = disconnects + 1
      BY <1>2, <2>4 DEF DisconnectClose
    <3>3. IsFiniteSet(Dropping') /\ Cardinality(Dropping') = Cardinality(Dropping) - 1
      BY <1>t, <3>1, OneLess
    <3> QED
      BY <1>t, <1>u, <2>b, <2>m, <3>2, <3>3, BooksType, Balance
  <2> QED
    BY <2>3, <2>4

\* The batches: what the calls of DisconnectIf and DisconnectAll have removed.
<1>3. ASSUME op[o] \in {"idle", "removeIf"}, op'[o] \in {"removeIf", "done"},
             \A x \in Ops \ {o} : op'[x] = op[x] /\ original'[x] = original[x]
      PROVE  Dropping' = Dropping
  BY <1>3 DEF Dropping
<1>4. ASSUME counted' = [counted EXCEPT ![o] = counted'[o]], counted'[o] \in Nat
      PROVE  /\ IsFiniteSet(Batch(counted)')
             /\ Cardinality(Batch(counted)')
                  = Cardinality(Batch(counted)) - counted[o] + counted'[o]
  <2>1. Batch(counted)' = Batch([counted EXCEPT ![o] = counted'[o]])
    BY <1>4, Zenon DEF Batch
  <2>2. PICK n \in Nat : n = counted'[o]
    BY <1>4
  <2>3. /\ IsFiniteSet(Batch([counted EXCEPT ![o] = n]))
        /\ Cardinality(Batch([counted EXCEPT ![o] = n]))
             = Cardinality(Batch(counted)) - counted[o] + n
    BY <1>t, <1>y, BatchChange, Zenon
  <2> QED
    BY <2>1, <2>2, <2>3
<1>5. ASSUME NEW ids \in SUBSET IDs, DisconnectIf(o, ids) PROVE Books'
  <2>1. op[o] = "idle" /\ op' = [op EXCEPT ![o] = "removeIf"] /\ original' = original
    BY <1>5 DEF DisconnectIf
  <2>m. UNCHANGED <<data, gauge, counted, disconnects>> /\ Size(data') = Size(data)
    BY <1>5, Zenon DEF DisconnectIf, metrics
  <2>b. Batch(counted)' = Batch(counted)
    BY <1>b, <2>m
  <2>3. Dropping' = Dropping
    BY <1>y, <1>3, <2>1
  <2> QED
    BY <1>t, <1>u, <2>b, <2>m, <2>3, BooksType, Balance, SMTT(20)
<1>6. CASE DisconnectAll(o)
  <2>1. /\ op[o] = "idle" /\ op' = [op EXCEPT ![o] = "removeIf"]
        /\ \A x \in Ops \ {o} : original'[x] = original[x]
        /\ counted' = [counted EXCEPT ![o] = Size(data)]
        /\ data' = [i \in IDs |-> None]
    BY <1>6, <1>y DEF DisconnectAll
  <2>m. gauge' = 0 /\ disconnects' = disconnects
    BY <1>6 DEF DisconnectAll
  <2>3. Dropping' = Dropping
    BY <1>y, <1>3, <2>1
  <2>4. Size(data') = 0
    <3>1. Present(data') = {}
      BY <2>1 DEF Present
    <3> QED
      BY <3>1 DEF Size, FiniteFacts
  <2>5. counted[o] = 0
    BY <2>1 DEF HandsInv
  <2>6. /\ IsFiniteSet(Batch(counted)')
        /\ Cardinality(Batch(counted)') = Cardinality(Batch(counted)) + Size(data)
    <3>1. counted' = [counted EXCEPT ![o] = counted'[o]] /\ counted'[o] = Size(data)
      BY <1>y, <2>1
    <3>2. /\ IsFiniteSet(Batch(counted)')
          /\ Cardinality(Batch(counted)')
               = Cardinality(Batch(counted)) - counted[o] + counted'[o]
      BY <1>4, <3>1, BooksType
    <3> QED
      BY <3>1, <3>2, <2>5, BooksType
  <2> QED
    BY <1>t, <1>u, <2>m, <2>3, <2>4, <2>6, BooksType, Balance
<1>7. ASSUME NEW d \in Devices, DisconnectIfRemove(o, d) PROVE Books'
  <2>1. /\ op[o] = "removeIf" /\ op' = op
        /\ \A x \in Ops \ {o} : original'[x] = original[x]
    BY <1>7, <1>y DEF DisconnectIfRemove
  <2>m. disconnects' = disconnects
    BY <1>7 DEF DisconnectIfRemove
  <2>2. Dropping' = Dropping
    BY <1>3, <2>1
  <2>3. CASE data[IdOf[d]] = None
    <3>1. UNCHANGED <<data, gauge, counted>> /\ Size(data') = Size(data)
      BY <1>7, <2>3, Zenon DEF DisconnectIfRemove
    <3>b. Batch(counted)' = Batch(counted)
      BY <1>b, <3>1
    <3> QED
      BY <1>t, <1>u, <3>b, <2>m, <2>2, <3>1, BooksType, Balance
  <2>4. CASE data[IdOf[d]] # None
    <3>1. /\ data' = [data EXCEPT ![IdOf[d]] = None]
          /\ counted' = [counted EXCEPT ![o] = counted[o] + 1]
      BY <1>7, <2>4 DEF DisconnectIfRemove, Remove
    <3>m. gauge' = Size(data')
      BY <1>7, <2>4 DEF DisconnectIfRemove, Remove
    <3>2. Size(data') = Size(data) - 1
      BY <1>y, <2>4, <3>1, RemovedSize, ManagerAssumption, Zenon
    <3>3. /\ IsFiniteSet(Batch(counted)')
          /\ Cardinality(Batch(counted)') = Cardinality(Batch(counted)) + 1
      <4>1. /\ counted' = [counted EXCEPT ![o] = counted'[o]] /\ counted'[o] = counted[o] + 1
            /\ counted[o] \in Nat
        BY <1>y, <3>1
      <4>2. /\ IsFiniteSet(Batch(counted)')
            /\ Cardinality(Batch(counted)')
                 = Cardinality(Batch(counted)) - counted[o] + counted'[o]
        BY <1>4, <4>1
      <4> QED
        BY <4>1, <4>2, BooksType
    <3> QED
      BY <1>t, <1>u, <2>m, <2>2, <3>m, <3>2, <3>3, BooksType, Balance
  <2> QED
    BY <2>3, <2>4
<1>8. ASSUME NEW d \in Devices, DisconnectManyClose(o, d) PROVE Books'
  <2>1. /\ op[o] = "removeIf" /\ op' = op
        /\ \A x \in Ops \ {o} : original'[x] = original[x]
    BY <1>8, <1>y DEF DisconnectManyClose
  <2>m. UNCHANGED <<data, gauge, counted, disconnects>> /\ Size(data') = Size(data)
    BY <1>8 DEF DisconnectManyClose, metrics
  <2>b. Batch(counted)' = Batch(counted)
    BY <1>b, <2>m
  <2>2. Dropping' = Dropping
    BY <1>3, <2>1
  <2> QED
    BY <1>t, <1>u, <2>b, <2>m, <2>2, BooksType, Balance
<1>9. CASE DisconnectManyDone(o)
  <2>1. /\ op[o] = "removeIf" /\ op' = [op EXCEPT ![o] = "done"]
        /\ counted' = [counted EXCEPT ![o] = 0] /\ original' = original
    BY <1>9, Zenon DEF DisconnectManyDone
  <2>m. /\ disconnects' = disconnects + counted[o] /\ UNCHANGED <<data, gauge>>
        /\ Size(data') = Size(data)
    BY <1>9, Zenon DEF DisconnectManyDone
  <2>2. Dropping' = Dropping
    BY <1>y, <1>3, <2>1
  <2>4. /\ IsFiniteSet(Batch(counted)') /\ counted[o] \in Nat
        /\ Cardinality(Batch(counted)') = Cardinality(Batch(counted)) - counted[o]
    <3>1. /\ counted' = [counted EXCEPT ![o] = counted'[o]] /\ counted'[o] = 0
          /\ counted[o] \in Nat
      BY <1>y, <2>1
    <3>2. /\ IsFiniteSet(Batch(counted)')
          /\ Cardinality(Batch(counted)')
               = Cardinality(Batch(counted)) - counted[o] + counted'[o]
      BY <1>4, <3>1
    <3> QED
      BY <3>1, <3>2, BooksType
  <2> QED
    BY <1>t, <1>u, <2>m, <2>2, <2>4, BooksType, Balance
<1> QED
  BY <1>1, <1>2, <1>5, <1>6, <1>7, <1>8, <1>9 DEF OpCall, OpStep

LEMMA BooksStep == FiniteFacts /\ RegistryInv /\ HandsInv /\ Books /\ [Next]_vars => Books'
<1> SUFFICES ASSUME FiniteFacts, RegistryInv, HandsInv, Books, [Next]_vars PROVE Books'
  OBVIOUS
<1>0. TypeOK /\ TypeOK'
  BY ManagerTypeStep DEF RegistryInv
<1>1. CASE UNCHANGED vars
  BY <1>1, Zenon DEF vars, connectVars, pumpVars, opVars, metrics, Books, Added, Replaced, Taken,
     Dropping, Batch, Size, Present
<1> QED
  BY <1>0, <1>1, BooksConnect, BooksPump, BooksOp DEF Next

-----------------------------------------------------------------------------
(* The theorems.                                                           *)

INSTANCE FiniteSetTheorems

LEMMA FiniteHold == FiniteFacts
<1>1. \A S : IsFiniteSet(S) =>
         /\ Cardinality(S) \in Nat
         /\ \A T \in SUBSET S : IsFiniteSet(T) /\ Cardinality(T) <= Cardinality(S)
  BY FS_CardinalityType, FS_Subset
<1>2. \A S : IsFiniteSet(S) => \A x : x \notin S =>
         IsFiniteSet(S \cup {x}) /\ Cardinality(S \cup {x}) = Cardinality(S) + 1
  BY FS_AddElement
<1>3. \A S : IsFiniteSet(S) => \A x \in S :
         IsFiniteSet(S \ {x}) /\ Cardinality(S \ {x}) = Cardinality(S) - 1
  BY FS_RemoveElement
<1>4. \A S, T : IsFiniteSet(S) /\ IsFiniteSet(T) =>
         /\ IsFiniteSet(S \cup T)
         /\ Cardinality(S \cup T) = Cardinality(S) + Cardinality(T) - Cardinality(S \cap T)
         /\ IsFiniteSet(S \X T) /\ Cardinality(S \X T) = Cardinality(S) * Cardinality(T)
  BY FS_Union, FS_Product
<1>5. \A k \in Nat : IsFiniteSet(1..k) /\ Cardinality(1..k) = k
  BY FS_Interval
<1> QED
  BY <1>1, <1>2, <1>3, <1>4, <1>5, FS_EmptySet, FS_Singleton, Zenon DEF FiniteFacts

\* The registry and the goroutines that use it keep their types.
THEOREM ManagerTypeInvariance == Spec => []TypeOK
BY ManagerTypeInit, ManagerTypeStep, FiniteHold, PTL DEF Spec

\* However many devices connect at once, the registry never holds more than
\* the limit: the test and the insertion of add are one critical section.
THEOREM ManagerLimitRespected == Spec => []LimitRespected
<1>1. Init => LimitRespected
  <2> SUFFICES ASSUME Init, Limit > 0 PROVE Size(data) <= Limit
    BY DEF LimitRespected
  <2>1. Present(data) = {}
    BY DEF Init, Present
  <2> QED
    BY <2>1, FS_EmptySet, ManagerAssumption DEF Size
<1> QED
  BY <1>1, LimitStep, ManagerTypeInvariance, FiniteHold, PTL DEF Spec

\* A device that can be looked up is open and is under its own ID, in every
\* interleaving of connects, duplicates, failing pumps and removals: whoever
\* is going to close a device has taken it out of the registry before.
THEOREM ManagerRegisteredIsOpen == Spec => []RegisteredIsOpen
BY RegistryInit, RegistryStep, RegistryInvOpen, FiniteHold, PTL DEF Spec

\* A device whose pumpClose has run is not in the registry again.
THEOREM ManagerNoZombie == Spec => []NoZombie
<1>1. RegistryInv => NoZombie
  BY DEF RegistryInv
<1> QED
  BY <1>1, RegistryInit, RegistryStep, FiniteHold, PTL DEF Spec

\* The gauge is the size of the registry, and every device counted in is
\* registered, counted out, or held by a goroutine that will count it out.
THEOREM ManagerAccounting == Spec => []Accounting
<1>1. Init => Books /\ HandsInv
  <2> SUFFICES ASSUME Init PROVE Books /\ HandsInv
    OBVIOUS
  <2>1. Added = {} /\ Replaced = {} /\ Taken = {} /\ Dropping = {} /\ Present(data) = {}
    BY DEF Init, Added, Replaced, Taken, Dropping, Present
  <2>2. Batch(counted) = {}
    <3>1. counted \in [Ops -> Nat] /\ \A o \in Ops : 1..counted[o] = {}
      BY DEF Init
    <3> QED
      BY <3>1, BatchElements
  <2>3. Size(data) = 0
    BY <2>1, FS_EmptySet DEF Size
  <2>4. Books
    BY <2>1, <2>2, <2>3, FS_EmptySet DEF Init, Books
  <2> QED
    BY <2>4 DEF Init, HandsInv
<1>2. Books => Accounting
  BY Zenon DEF Books, Accounting, Replaced, Taken, Dropping, Batch
<1> QED
  BY <1>1, <1>2, HandsStep, BooksStep, RegistryInit, RegistryStep, FiniteHold, PTL DEF Spec
=============================================================================
