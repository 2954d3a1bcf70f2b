-------------------------- MODULE RoomHistoryProofs --------------------------
(***************************************************************************)
(* Proofs about one room across the gateway, the messaging service and the *)
(* database, for any number of handlers and messages and any history       *)
(* limit: its id, its row, what becomes of what is said in it, and what a  *)
(* handler that joins gets to see of it.                                   *)
(***************************************************************************)
EXTENDS RoomHistory, TLAPS, FiniteSetTheorems, FunctionTheorems

\* A handler has a message in hand from its broadcast to its insert, and an id
\* of its own while it inserts a room; the re-entry of a /leave ends with
\* router.JoinRoom.
InHand ==
    /\ \A h \in returning :
          pc[h] \in {"storeFind", "storeCreate", "routerFind", "routerCreate"}
    /\ \A h \in Handlers : saying[h] \in Messages <=> pc[h] \in {"stamp", "insert"}
    /\ \A h \in Handlers : pc[h] \in {"storeCreate", "routerCreate"} => id[h] \in Ids

\* While nothing has failed the messaging service is ahead of the router: it has
\* the row and an entry for every handler that is past it, and only the holder
\* of its mutex inserts the row.
StoreFirst ==
    ~failed =>
        /\ \A h \in Handlers : pc[h] = "storeCreate" => storeLock = h /\ row = NoId
        /\ \A h \in Handlers : pc[h] \notin {"out", "storeFind", "storeCreate"} =>
              row # NoId /\ (h \in storeMembers \/ pc[h] = "away")
        /\ storeMembers # {} => storeId # NoId
        /\ \A h \in Handlers : pc[h] = "insert" => id[h] # NoId
        /\ \A h \in Handlers : pc[h] # "routerCreate"
        /\ routerLock = NoHandler

IInv == TypeOK /\ InHand /\ IdIsStable /\ StoreFirst /\ SaidIsStored

LEMMA InitInv == Init => IInv
  <1> SUFFICES ASSUME Init PROVE IInv
    OBVIOUS
  <1> USE NoMessageAssumption DEF Init
  <1>1. TypeOK
    <2>1. stamps \in Seq(Messages)
      OBVIOUS
    <2>2. /\ pc \in [Handlers -> InLoop \cup {"out", "away", "storeFind", "storeCreate",
                        "routerFind", "routerCreate", "getId", "list"}]
          /\ id \in [Handlers -> Ids \cup {NoId}]
          /\ saying \in [Handlers -> Messages \cup {NoMessage}]
      OBVIOUS
    <2> QED
      BY <2>1, <2>2 DEF TypeOK
  <1>2. InHand /\ IdIsStable /\ StoreFirst
    BY DEF InHand, IdIsStable, StoreFirst
  <1>3. Said = {}
    <2>1. Len(stamps) = 0
      OBVIOUS
    <2> QED
      BY <2>1 DEF Said, InFlight
  <1> QED
    BY <1>1, <1>2, <1>3 DEF IInv, SaidIsStored

\* What is sent to clients has been said.
LEMMA SetsOfMessages ==
    TypeOK => /\ InFlight \subseteq Messages
              /\ NewestStored(HistoryLimit) \subseteq Messages
  BY DEF TypeOK, InFlight, NewestStored
------------------------------------------------------------------------------
\* Every variable keeps its type.
LEMMA TypeStep ==
    ASSUME IInv, [Next]_vars
    PROVE  TypeOK'
  <1> USE NoIdAssumption, NoMessageAssumption, NoHandlerAssumption
      DEF IInv, TypeOK, InHand, InLoop, Goto, JoinedRouter, directory, log, view
  <1>1. ASSUME NEW h \in Handlers, Join(h) \/ Return(h)
        PROVE  TypeOK'
    BY <1>1 DEF Join, Return
  <1>2. ASSUME NEW h \in Handlers, StoreFind(h)
        PROVE  TypeOK'
    BY <1>2 DEF StoreFind
  <1>3. ASSUME NEW h \in Handlers, StoreCreate(h)
        PROVE  TypeOK'
    BY <1>3 DEF StoreCreate
  <1>4. ASSUME NEW h \in Handlers, RouterFind(h)
        PROVE  TypeOK'
    <2>1. under' \in [Handlers -> SUBSET Messages]
      BY <1>4, SetsOfMessages DEF RouterFind, Routed
    <2>2. routerMembers' \in SUBSET Handlers /\ routerId' \in Ids \cup {NoId}
      BY <1>4 DEF RouterFind, Routed
    <2> QED
      BY <1>4, <2>1, <2>2 DEF RouterFind
  <1>5. ASSUME NEW h \in Handlers, RouterCreate(h)
        PROVE  TypeOK'
    <2>1. under' \in [Handlers -> SUBSET Messages]
      BY <1>5, SetsOfMessages DEF RouterCreate, Routed
    <2>2. routerMembers' \in SUBSET Handlers /\ {row', routerId'} \subseteq Ids \cup {NoId}
      BY <1>5 DEF RouterCreate, Routed
    <2> QED
      BY <1>5, <2>1, <2>2 DEF RouterCreate
  <1>6. ASSUME NEW h \in Handlers, NEW i \in Ids, StoreMisses(h, i) \/ RouterMisses(h, i)
        PROVE  TypeOK'
    BY <1>6 DEF StoreMisses, RouterMisses
  <1>7. ASSUME NEW h \in Handlers, GetId(h)
        PROVE  TypeOK'
    BY <1>7 DEF GetId
  <1>8. ASSUME NEW h \in Handlers, List(h)
        PROVE  TypeOK'
    <2>1. shown' \in [Handlers -> SUBSET Messages]
      BY <1>8, SetsOfMessages DEF List
    <2>2. under' \in [Handlers -> SUBSET Messages]
      BY <1>8, SetsOfMessages DEF List
    <2> QED
      BY <1>8, <2>1, <2>2 DEF List
  <1>9. ASSUME NEW h \in Handlers, NEW m \in Messages, Broadcast(h, m)
        PROVE  TypeOK'
    BY <1>9 DEF Broadcast
  <1>10. ASSUME NEW h \in Handlers, Stamp(h)
        PROVE  TypeOK'
    BY <1>10 DEF Stamp
  <1>11. ASSUME NEW h \in Handlers, Insert(h)
        PROVE  TypeOK'
    BY <1>11 DEF Insert
  <1>12. ASSUME NEW h \in Handlers, Leave(h) \/ Disconnect(h)
        PROVE  TypeOK'
    BY <1>12 DEF Leave, Disconnect
  <1>13. ASSUME NEW h \in Handlers, StoreJoinFails(h) \/ RouterJoinFails(h)
        PROVE  TypeOK'
    <2>1. CASE StoreJoinFails(h)
      BY <2>1 DEF StoreJoinFails
    <2>2. CASE RouterJoinFails(h)
      BY <2>2 DEF RouterJoinFails
    <2> QED
      BY <1>13, <2>1, <2>2
  <1>14. ASSUME NEW h \in Handlers,
               LeaveFails(h) \/ ListFails(h) \/ InsertFails(h)
        PROVE  TypeOK'
    <2>1. CASE LeaveFails(h)
      BY <2>1 DEF LeaveFails
    <2>2. CASE ListFails(h)
      BY <2>2 DEF ListFails
    <2>3. CASE InsertFails(h)
      BY <2>3 DEF InsertFails
    <2> QED
      BY <1>14, <2>1, <2>2, <2>3
  <1>15. ASSUME NEW n \in 1 .. Len(stamps), Cleanup(n)
        PROVE  TypeOK'
    BY <1>15 DEF Cleanup
  <1>16. CASE RestartMessaging
    BY <1>16 DEF RestartMessaging
  <1>17. CASE GatewayStops
    BY <1>17 DEF GatewayStops
  <1>18. CASE UNCHANGED vars
    BY <1>18 DEF vars
  <1> QED
    BY <1>1, <1>2, <1>3, <1>4, <1>5, <1>6, <1>7, <1>8, <1>9, <1>10, <1>11, <1>12,
       <1>13, <1>14, <1>15, <1>16, <1>17, <1>18 DEF Next

\* Nobody else's call gives a handler a message or takes one from it.
LEMMA HandStep ==
    ASSUME IInv, [Next]_vars
    PROVE  InHand'
  <1> USE NoIdAssumption, NoMessageAssumption, NoHandlerAssumption
      DEF IInv, TypeOK, InHand, InLoop, Goto, JoinedRouter, directory, log, view
  <1>1. ASSUME NEW h \in Handlers, Join(h) \/ Return(h)
        PROVE  InHand'
    BY <1>1 DEF Join, Return
  <1>2. ASSUME NEW h \in Handlers, StoreFind(h)
        PROVE  InHand'
    BY <1>2 DEF StoreFind
  <1>3. ASSUME NEW h \in Handlers, StoreCreate(h)
        PROVE  InHand'
    BY <1>3 DEF StoreCreate
  <1>4. ASSUME NEW h \in Handlers, RouterFind(h)
        PROVE  InHand'
    BY <1>4 DEF RouterFind
  <1>5. ASSUME NEW h \in Handlers, RouterCreate(h)
        PROVE  InHand'
    BY <1>5 DEF RouterCreate
  <1>6. ASSUME NEW h \in Handlers, NEW i \in Ids, StoreMisses(h, i) \/ RouterMisses(h, i)
        PROVE  InHand'
    BY <1>6 DEF StoreMisses, RouterMisses
  <1>7. ASSUME NEW h \in Handlers, GetId(h)
        PROVE  InHand'
    BY <1>7 DEF GetId
  <1>8. ASSUME NEW h \in Handlers, List(h)
        PROVE  InHand'
    BY <1>8 DEF List
  <1>9. ASSUME NEW h \in Handlers, NEW m \in Messages, Broadcast(h, m)
        PROVE  InHand'
    BY <1>9 DEF Broadcast
  <1>10. ASSUME NEW h \in Handlers, Stamp(h)
        PROVE  InHand'
    BY <1>10 DEF Stamp
  <1>11. ASSUME NEW h \in Handlers, Insert(h)
        PROVE  InHand'
    BY <1>11 DEF Insert
  <1>12. ASSUME NEW h \in Handlers, Leave(h) \/ Disconnect(h)
        PROVE  InHand'
    BY <1>12 DEF Leave, Disconnect
  <1>13. ASSUME NEW h \in Handlers, StoreJoinFails(h) \/ RouterJoinFails(h)
        PROVE  InHand'
    BY <1>13 DEF StoreJoinFails, RouterJoinFails
  <1>14. ASSUME NEW h \in Handlers,
               LeaveFails(h) \/ ListFails(h) \/ InsertFails(h)
        PROVE  InHand'
    BY <1>14 DEF LeaveFails, ListFails, InsertFails
  <1>15. ASSUME NEW n \in 1 .. Len(stamps), Cleanup(n)
        PROVE  InHand'
    BY <1>15 DEF Cleanup
  <1>16. CASE RestartMessaging
    BY <1>16 DEF RestartMessaging
  <1>17. CASE GatewayStops
    BY <1>17 DEF GatewayStops
  <1>18. CASE UNCHANGED vars
    BY <1>18 DEF vars
  <1> QED
    BY <1>1, <1>2, <1>3, <1>4, <1>5, <1>6, <1>7, <1>8, <1>9, <1>10, <1>11, <1>12,
       <1>13, <1>14, <1>15, <1>16, <1>17, <1>18 DEF Next

\* Whoever inserts the row, it has one id, and entries come from it.
LEMMA IdStep ==
    ASSUME IInv, [Next]_vars
    PROVE  IdIsStable'
  <1> USE NoIdAssumption, NoMessageAssumption, NoHandlerAssumption
      DEF IInv, TypeOK, IdIsStable, Goto, JoinedRouter, directory, log, view
  <1>1. ASSUME NEW h \in Handlers, Join(h) \/ Return(h)
        PROVE  IdIsStable'
    BY <1>1 DEF Join, Return
  <1>2. ASSUME NEW h \in Handlers, StoreFind(h)
        PROVE  IdIsStable'
    BY <1>2 DEF StoreFind
  <1>3. ASSUME NEW h \in Handlers, StoreCreate(h)
        PROVE  IdIsStable'
    BY <1>3 DEF StoreCreate
  <1>4. ASSUME NEW h \in Handlers, RouterFind(h)
        PROVE  IdIsStable'
    BY <1>4 DEF RouterFind
  <1>5. ASSUME NEW h \in Handlers, RouterCreate(h)
        PROVE  IdIsStable'
    BY <1>5 DEF RouterCreate
  <1>6. ASSUME NEW h \in Handlers, NEW i \in Ids, StoreMisses(h, i) \/ RouterMisses(h, i)
        PROVE  IdIsStable'
    BY <1>6 DEF StoreMisses, RouterMisses
  <1>7. ASSUME NEW h \in Handlers, GetId(h)
        PROVE  IdIsStable'
    BY <1>7 DEF GetId
  <1>8. ASSUME NEW h \in Handlers, List(h)
        PROVE  IdIsStable'
    BY <1>8 DEF List
  <1>9. ASSUME NEW h \in Handlers, NEW m \in Messages, Broadcast(h, m)
        PROVE  IdIsStable'
    BY <1>9 DEF Broadcast
  <1>10. ASSUME NEW h \in Handlers, Stamp(h)
        PROVE  IdIsStable'
    BY <1>10 DEF Stamp
  <1>11. ASSUME NEW h \in Handlers, Insert(h)
        PROVE  IdIsStable'
    BY <1>11 DEF Insert
  <1>12. ASSUME NEW h \in Handlers, Leave(h) \/ Disconnect(h)
        PROVE  IdIsStable'
    BY <1>12 DEF Leave, Disconnect
  <1>13. ASSUME NEW h \in Handlers, StoreJoinFails(h) \/ RouterJoinFails(h)
        PROVE  IdIsStable'
    BY <1>13 DEF StoreJoinFails, RouterJoinFails
  <1>14. ASSUME NEW h \in Handlers,
               LeaveFails(h) \/ ListFails(h) \/ InsertFails(h)
        PROVE  IdIsStable'
    BY <1>14 DEF LeaveFails, ListFails, InsertFails
  <1>15. ASSUME NEW n \in 1 .. Len(stamps), Cleanup(n)
        PROVE  IdIsStable'
    BY <1>15 DEF Cleanup
  <1>16. CASE RestartMessaging
    BY <1>16 DEF RestartMessaging
  <1>17. CASE GatewayStops
    BY <1>17 DEF GatewayStops
  <1>18. CASE UNCHANGED vars
    BY <1>18 DEF vars
  <1> QED
    BY <1>1, <1>2, <1>3, <1>4, <1>5, <1>6, <1>7, <1>8, <1>9, <1>10, <1>11, <1>12,
       <1>13, <1>14, <1>15, <1>16, <1>17, <1>18 DEF Next

\* The lock of the room store keeps its insert to one handler, and no handler
\* gets past it without an entry.
LEMMA StoreStep ==
    ASSUME IInv, [Next]_vars
    PROVE  StoreFirst'
  <1> USE NoIdAssumption, NoMessageAssumption, NoHandlerAssumption
      DEF IInv, TypeOK, InHand, StoreFirst, Goto, JoinedRouter, directory, log, view
  <1>1. ASSUME NEW h \in Handlers, Join(h) \/ Return(h)
        PROVE  StoreFirst'
    BY <1>1 DEF Join, Return
  <1>2. ASSUME NEW h \in Handlers, StoreFind(h)
        PROVE  StoreFirst'
    <2>1. /\ storeLock' = storeLock /\ storeLock = NoHandler /\ row' = row
          /\ storeId' # NoId /\ storeMembers' = storeMembers \cup {h}
          /\ UNCHANGED <<id, routerLock, failed>>
      BY <1>2 DEF StoreFind
    <2>2. /\ pc[h] = "storeFind" /\ pc'[h] = "routerFind"
          /\ \A g \in Handlers \ {h} : pc'[g] = pc[g]
      BY <1>2 DEF StoreFind
    <2>3. ~failed => row # NoId
      BY <1>2 DEF StoreFind, IdIsStable
    <2> QED
      BY <2>1, <2>2, <2>3
  <1>3. ASSUME NEW h \in Handlers, StoreCreate(h)
        PROVE  StoreFirst'
    BY <1>3 DEF StoreCreate
  <1>4. ASSUME NEW h \in Handlers, RouterFind(h)
        PROVE  StoreFirst'
    BY <1>4 DEF RouterFind
  <1>5. ASSUME NEW h \in Handlers, RouterCreate(h)
        PROVE  StoreFirst'
    BY <1>5 DEF RouterCreate
  <1>6. ASSUME NEW h \in Handlers, NEW i \in Ids, StoreMisses(h, i) \/ RouterMisses(h, i)
        PROVE  StoreFirst'
    BY <1>6 DEF StoreMisses, RouterMisses
  <1>7. ASSUME NEW h \in Handlers, GetId(h)
        PROVE  StoreFirst'
    BY <1>7 DEF GetId
  <1>8. ASSUME NEW h \in Handlers, List(h)
        PROVE  StoreFirst'
    BY <1>8 DEF List
  <1>9. ASSUME NEW h \in Handlers, NEW m \in Messages, Broadcast(h, m)
        PROVE  StoreFirst'
    BY <1>9 DEF Broadcast
  <1>10. ASSUME NEW h \in Handlers, Stamp(h)
        PROVE  StoreFirst'
    BY <1>10 DEF Stamp
  <1>11. ASSUME NEW h \in Handlers, Insert(h)
        PROVE  StoreFirst'
    BY <1>11 DEF Insert
  <1>12. ASSUME NEW h \in Handlers, Leave(h) \/ Disconnect(h)
        PROVE  StoreFirst'
    BY <1>12 DEF Leave, Disconnect
  <1>13. ASSUME NEW h \in Handlers, StoreJoinFails(h) \/ RouterJoinFails(h)
        PROVE  StoreFirst'
    BY <1>13 DEF StoreJoinFails, RouterJoinFails
  <1>14. ASSUME NEW h \in Handlers,
               LeaveFails(h) \/ ListFails(h) \/ InsertFails(h)
        PROVE  StoreFirst'
    BY <1>14 DEF LeaveFails, ListFails, InsertFails
  <1>15. ASSUME NEW n \in 1 .. Len(stamps), Cleanup(n)
        PROVE  StoreFirst'
    BY <1>15 DEF Cleanup
  <1>16. CASE RestartMessaging
    BY <1>16 DEF RestartMessaging
  <1>17. CASE GatewayStops
    BY <1>17 DEF GatewayStops
  <1>18. CASE UNCHANGED vars
    BY <1>18 DEF vars
  <1> QED
    BY <1>1, <1>2, <1>3, <1>4, <1>5, <1>6, <1>7, <1>8, <1>9, <1>10, <1>11, <1>12,
       <1>13, <1>14, <1>15, <1>16, <1>17, <1>18 DEF Next

\* A message leaves the hands of its sender for the database only.
LEMMA SaidStep ==
    ASSUME IInv, [Next]_vars
    PROVE  SaidIsStored'
  <1> USE NoIdAssumption, NoMessageAssumption, NoHandlerAssumption
      DEF IInv, TypeOK, InHand, StoreFirst, SaidIsStored, Said, InFlight, Goto,
          JoinedRouter, directory, log, view
  <1>1. ASSUME NEW h \in Handlers, Join(h) \/ Return(h)
        PROVE  SaidIsStored'
    BY <1>1 DEF Join, Return
  <1>2. ASSUME NEW h \in Handlers, StoreFind(h)
        PROVE  SaidIsStored'
    BY <1>2 DEF StoreFind
  <1>3. ASSUME NEW h \in Handlers, StoreCreate(h)
        PROVE  SaidIsStored'
    BY <1>3 DEF StoreCreate
  <1>4. ASSUME NEW h \in Handlers, RouterFind(h)
        PROVE  SaidIsStored'
    BY <1>4 DEF RouterFind
  <1>5. ASSUME NEW h \in Handlers, RouterCreate(h)
        PROVE  SaidIsStored'
    BY <1>5 DEF RouterCreate
  <1>6. ASSUME NEW h \in Handlers, NEW i \in Ids, StoreMisses(h, i) \/ RouterMisses(h, i)
        PROVE  SaidIsStored'
    BY <1>6 DEF StoreMisses, RouterMisses
  <1>7. ASSUME NEW h \in Handlers, GetId(h)
        PROVE  SaidIsStored'
    BY <1>7 DEF GetId
  <1>8. ASSUME NEW h \in Handlers, List(h)
        PROVE  SaidIsStored'
    BY <1>8 DEF List
  <1>9. ASSUME NEW h \in Handlers, NEW m \in Messages, Broadcast(h, m)
        PROVE  SaidIsStored'
    BY <1>9 DEF Broadcast
  <1>10. ASSUME NEW h \in Handlers, Stamp(h)
        PROVE  SaidIsStored'
    BY <1>10 DEF Stamp
  <1>11. ASSUME NEW h \in Handlers, Insert(h)
        PROVE  SaidIsStored'
    BY <1>11 DEF Insert
  <1>12. ASSUME NEW h \in Handlers, Leave(h) \/ Disconnect(h)
        PROVE  SaidIsStored'
    BY <1>12 DEF Leave, Disconnect
  <1>13. ASSUME NEW h \in Handlers, StoreJoinFails(h) \/ RouterJoinFails(h)
        PROVE  SaidIsStored'
    BY <1>13 DEF StoreJoinFails, RouterJoinFails
  <1>14. ASSUME NEW h \in Handlers,
               LeaveFails(h) \/ ListFails(h) \/ InsertFails(h)
        PROVE  SaidIsStored'
    BY <1>14 DEF LeaveFails, ListFails, InsertFails
  <1>15. ASSUME NEW n \in 1 .. Len(stamps), Cleanup(n)
        PROVE  SaidIsStored'
    BY <1>15 DEF Cleanup
  <1>16. CASE RestartMessaging
    BY <1>16 DEF RestartMessaging
  <1>17. CASE GatewayStops
    BY <1>17 DEF GatewayStops
  <1>18. CASE UNCHANGED vars
    BY <1>18 DEF vars
  <1> QED
    BY <1>1, <1>2, <1>3, <1>4, <1>5, <1>6, <1>7, <1>8, <1>9, <1>10, <1>11, <1>12,
       <1>13, <1>14, <1>15, <1>16, <1>17, <1>18 DEF Next

LEMMA HistoryInv == Spec => []IInv
  <1>1. IInv /\ [Next]_vars => IInv'
    BY TypeStep, HandStep, IdStep, StoreStep, SaidStep DEF IInv
  <1> QED
    BY <1>1, InitInv, PTL DEF Spec
\* Every message is in one handler's hands and gets one time.
StampedOnce ==
    /\ \A i, j \in 1 .. Len(stamps) : stamps[i] = stamps[j] => i = j
    /\ \A g, h \in Handlers : saying[g] = saying[h] /\ g # h => saying[g] = NoMessage
    /\ \A h \in Handlers :
         /\ pc[h] = "stamp" => \A i \in 1 .. Len(stamps) : stamps[i] # saying[h]
         /\ pc[h] = "insert" => \E i \in 1 .. Len(stamps) : stamps[i] = saying[h]
    /\ \A m \in stored : \E i \in 1 .. Len(stamps) : stamps[i] = m

LEMMA StampedStep ==
    ASSUME IInv, StampedOnce, [Next]_vars
    PROVE  StampedOnce'
  <1> USE NoIdAssumption, NoMessageAssumption, NoHandlerAssumption
      DEF IInv, TypeOK, InHand, InLoop, Goto, JoinedRouter, directory, log, view,
          StampedOnce, Said, InFlight
  <1>1. ASSUME NEW h \in Handlers, Join(h) \/ Return(h)
        PROVE  StampedOnce'
    BY <1>1 DEF Join, Return
  <1>2. ASSUME NEW h \in Handlers, StoreFind(h) \/ StoreCreate(h)
        PROVE  StampedOnce'
    BY <1>2 DEF StoreFind, StoreCreate
  <1>3. ASSUME NEW h \in Handlers, RouterFind(h)
        PROVE  StampedOnce'
    BY <1>3 DEF RouterFind, Routed
  <1>4. ASSUME NEW h \in Handlers, RouterCreate(h)
        PROVE  StampedOnce'
    BY <1>4 DEF RouterCreate, Routed
  <1>5. ASSUME NEW h \in Handlers, NEW i \in Ids, StoreMisses(h, i) \/ RouterMisses(h, i)
        PROVE  StampedOnce'
    BY <1>5 DEF StoreMisses, RouterMisses
  <1>6. ASSUME NEW h \in Handlers, GetId(h)
        PROVE  StampedOnce'
    BY <1>6 DEF GetId
  <1>7. ASSUME NEW h \in Handlers, List(h)
        PROVE  StampedOnce'
    BY <1>7 DEF List
  <1>8. ASSUME NEW h \in Handlers, NEW m \in Messages, Broadcast(h, m)
        PROVE  StampedOnce'
    BY <1>8 DEF Broadcast
  <1>9. ASSUME NEW h \in Handlers, Stamp(h)
        PROVE  StampedOnce'
    BY <1>9 DEF Stamp
  <1>10. ASSUME NEW h \in Handlers, Insert(h)
        PROVE  StampedOnce'
    BY <1>10 DEF Insert
  <1>11. ASSUME NEW h \in Handlers, Leave(h) \/ Disconnect(h)
        PROVE  StampedOnce'
    <2>1. CASE Leave(h)
      BY <2>1 DEF Leave
    <2>2. CASE Disconnect(h)
      BY <2>2 DEF Disconnect
    <2> QED
      BY <1>11, <2>1, <2>2
  <1>12. ASSUME NEW h \in Handlers, StoreJoinFails(h) \/ RouterJoinFails(h)
        PROVE  StampedOnce'
    <2>1. CASE StoreJoinFails(h)
      BY <2>1 DEF StoreJoinFails
    <2>2. CASE RouterJoinFails(h)
      BY <2>2 DEF RouterJoinFails
    <2> QED
      BY <1>12, <2>1, <2>2
  <1>13. ASSUME NEW h \in Handlers,
               LeaveFails(h) \/ ListFails(h) \/ InsertFails(h)
        PROVE  StampedOnce'
    BY <1>13 DEF LeaveFails, ListFails, InsertFails
  <1>14. ASSUME NEW n \in 1 .. Len(stamps), Cleanup(n)
        PROVE  StampedOnce'
    BY <1>14 DEF Cleanup
  <1>15. CASE RestartMessaging
    BY <1>15 DEF RestartMessaging
  <1>16. CASE GatewayStops
    BY <1>16 DEF GatewayStops
  <1>17. CASE UNCHANGED vars
    BY <1>17 DEF vars
  <1> QED
    BY <1>1, <1>2, <1>3, <1>4, <1>5, <1>6, <1>7, <1>8, <1>9, <1>10, <1>11, <1>12,
       <1>13, <1>14, <1>15, <1>16, <1>17 DEF Next

\* A handler that has been shown the room, and adds to that what it is sent: in
\* the room, in another one, or on its way back by /leave.
Following(h) == pc[h] \in InLoop \cup {"away"} \/ h \in returning

\* While nothing fails a handler past the router is in it for good, it lists the
\* history under the room's id, and until then everything that was said has
\* either been broadcast to it, or was in flight when it was routed, or is in the
\* database.
CaughtUp ==
    ~failed =>
        \A h \in Handlers :
            /\ Following(h) \/ pc[h] \in {"getId", "list"} => h \in routerMembers
            /\ pc[h] = "list" => id[h] # NoId
            /\ pc[h] \in {"getId", "list"} =>
                  Said \subseteq live[h] \cup under[h] \cup stored \cup expired

LEMMA CaughtStep ==
    ASSUME IInv, CaughtUp, [Next]_vars
    PROVE  CaughtUp'
  <1> USE NoIdAssumption, NoMessageAssumption, NoHandlerAssumption
      DEF IInv, TypeOK, InHand, InLoop, Goto, JoinedRouter, directory, log, view,
          StoreFirst, SaidIsStored, CaughtUp, Following, Said, InFlight
  <1>1. ASSUME NEW h \in Handlers, Join(h) \/ Return(h)
        PROVE  CaughtUp'
    BY <1>1 DEF Join, Return
  <1>2. ASSUME NEW h \in Handlers, StoreFind(h) \/ StoreCreate(h)
        PROVE  CaughtUp'
    BY <1>2 DEF StoreFind, StoreCreate
  <1>3. ASSUME NEW h \in Handlers, RouterFind(h)
        PROVE  CaughtUp'
    BY <1>3 DEF RouterFind, Routed
  <1>4. ASSUME NEW h \in Handlers, RouterCreate(h)
        PROVE  CaughtUp'
    BY <1>4 DEF RouterCreate, Routed
  <1>5. ASSUME NEW h \in Handlers, NEW i \in Ids, StoreMisses(h, i) \/ RouterMisses(h, i)
        PROVE  CaughtUp'
    BY <1>5 DEF StoreMisses, RouterMisses
  <1>6. ASSUME NEW h \in Handlers, GetId(h)
        PROVE  CaughtUp'
    BY <1>6 DEF GetId
  <1>7. ASSUME NEW h \in Handlers, List(h)
        PROVE  CaughtUp'
    BY <1>7 DEF List
  <1>8. ASSUME NEW h \in Handlers, NEW m \in Messages, Broadcast(h, m)
        PROVE  CaughtUp'
    BY <1>8 DEF Broadcast
  <1>9. ASSUME NEW h \in Handlers, Stamp(h)
        PROVE  CaughtUp'
    BY <1>9 DEF Stamp
  <1>10. ASSUME NEW h \in Handlers, Insert(h)
        PROVE  CaughtUp'
    BY <1>10 DEF Insert
  <1>11. ASSUME NEW h \in Handlers, Leave(h) \/ Disconnect(h)
        PROVE  CaughtUp'
    BY <1>11 DEF Leave, Disconnect
  <1>12. ASSUME NEW h \in Handlers, StoreJoinFails(h) \/ RouterJoinFails(h)
        PROVE  CaughtUp'
    BY <1>12 DEF StoreJoinFails, RouterJoinFails
  <1>13. ASSUME NEW h \in Handlers,
               LeaveFails(h) \/ ListFails(h) \/ InsertFails(h)
        PROVE  CaughtUp'
    BY <1>13 DEF LeaveFails, ListFails, InsertFails
  <1>14. ASSUME NEW n \in 1 .. Len(stamps), Cleanup(n)
        PROVE  CaughtUp'
    BY <1>14 DEF Cleanup
  <1>15. CASE RestartMessaging
    BY <1>15 DEF RestartMessaging
  <1>16. CASE GatewayStops
    BY <1>16 DEF GatewayStops
  <1>17. CASE UNCHANGED vars
    BY <1>17 DEF vars
  <1> QED
    BY <1>1, <1>2, <1>3, <1>4, <1>5, <1>6, <1>7, <1>8, <1>9, <1>10, <1>11, <1>12,
       <1>13, <1>14, <1>15, <1>16, <1>17 DEF Next
------------------------------------------------------------------------------
(***************************************************************************)
(* What ListByRoom's LIMIT leaves out.  Before orders the stored messages, *)
(* so the number of newer ones is a bijection between them and the numbers *)
(* below their count.                                                      *)
(***************************************************************************)
Newer(m) == {k \in stored : Before(m, k)}

Age == [m \in stored |-> Cardinality(Newer(m))]

LEMMA BeforeOrders ==
    ASSUME TypeOK, StampedOnce
    PROVE  /\ \A m \in stored : ~ Before(m, m)
           /\ \A m, n \in stored : m # n => Before(m, n) \/ Before(n, m)
           /\ \A m, n, k \in stored : Before(m, n) /\ Before(n, k) => Before(m, k)
  <1>1. Len(stamps) \in Nat
    BY DEF TypeOK
  <1>2. \A m \in stored : \E i \in 1 .. Len(stamps) : stamps[i] = m
    BY DEF StampedOnce
  <1>3. \A i, j \in 1 .. Len(stamps) : stamps[i] = stamps[j] => i = j
    BY DEF StampedOnce
  <1>4. \A m \in stored : ~ Before(m, m)
    BY <1>1, <1>3 DEF Before
  <1>5. \A m, n \in stored : m # n => Before(m, n) \/ Before(n, m)
    <2> SUFFICES ASSUME NEW m \in stored, NEW n \in stored, m # n
                 PROVE  Before(m, n) \/ Before(n, m)
      OBVIOUS
    <2>1. PICK i \in 1 .. Len(stamps) : stamps[i] = m
      BY <1>2
    <2>2. PICK j \in 1 .. Len(stamps) : stamps[j] = n
      BY <1>2
    <2>3. i < j \/ j < i
      BY <1>1, <2>1, <2>2
    <2> QED
      BY <2>1, <2>2, <2>3 DEF Before
  <1>6. \A m, n, k \in stored : Before(m, n) /\ Before(n, k) => Before(m, k)
    <2> SUFFICES ASSUME NEW m \in stored, NEW n \in stored, NEW k \in stored,
                        Before(m, n), Before(n, k)
                 PROVE  Before(m, k)
      OBVIOUS
    <2>1. PICK i, j \in 1 .. Len(stamps) : i < j /\ stamps[i] = m /\ stamps[j] = n
      BY DEF Before
    <2>2. PICK a, b \in 1 .. Len(stamps) : a < b /\ stamps[a] = n /\ stamps[b] = k
      BY DEF Before
    <2>3. j = a
      BY <1>3, <2>1, <2>2
    <2>4. i < b
      BY <1>1, <2>1, <2>2, <2>3
    <2> QED
      BY <2>1, <2>2, <2>4 DEF Before
  <1> QED
    BY <1>4, <1>5, <1>6

LEMMA StoredFinite ==
    ASSUME TypeOK, StampedOnce
    PROVE  IsFiniteSet(stored)
  <1> DEFINE place == [m \in stored |-> CHOOSE i \in 1 .. Len(stamps) : stamps[i] = m]
  <1>1. \A m \in stored : place[m] \in 1 .. Len(stamps) /\ stamps[place[m]] = m
    BY DEF StampedOnce
  <1>2. place \in [stored -> 1 .. Len(stamps)]
    BY <1>1
  <1>3. place \in Injection(stored, 1 .. Len(stamps))
    <2>1. \A m, n \in stored : place[m] = place[n] => m = n
      BY <1>1
    <2> HIDE DEF place
    <2> QED
      BY <1>2, <2>1, Fun_IsInj
  <1>4. IsFiniteSet(1 .. Len(stamps))
    BY FS_Interval DEF TypeOK
  <1> QED
    BY <1>3, <1>4, FS_Injection

LEMMA NewerFinite ==
    ASSUME TypeOK, StampedOnce, NEW m \in stored
    PROVE  /\ IsFiniteSet(Newer(m))
           /\ Cardinality(Newer(m)) \in Nat
           /\ Newer(m) \in SUBSET stored
  BY StoredFinite, FS_Subset, FS_CardinalityType DEF Newer

\* The older of two messages has more newer ones.
LEMMA OlderIsLarger ==
    ASSUME TypeOK, StampedOnce, NEW m \in stored, NEW n \in stored, Before(m, n)
    PROVE  Cardinality(Newer(n)) < Cardinality(Newer(m))
  <1>1. Newer(n) \in SUBSET Newer(m)
    BY BeforeOrders DEF Newer
  <1>2. n \in Newer(m) /\ n \notin Newer(n)
    BY BeforeOrders DEF Newer
  <1>3. /\ Cardinality(Newer(n)) <= Cardinality(Newer(m))
        /\ Cardinality(Newer(n)) # Cardinality(Newer(m))
    BY <1>1, <1>2, NewerFinite, FS_Subset
  <1> QED
    BY <1>3, NewerFinite

LEMMA AgeIsBijection ==
    ASSUME TypeOK, StampedOnce
    PROVE  /\ Cardinality(stored) \in Nat
           /\ Age \in [stored -> 0 .. Cardinality(stored) - 1]
           /\ \A m, n \in stored : Age[m] = Age[n] => m = n
           /\ \A i \in 0 .. Cardinality(stored) - 1 : \E m \in stored : Age[m] = i
  <1> DEFINE top == Cardinality(stored)
  <1>1. IsFiniteSet(stored) /\ top \in Nat
    BY StoredFinite, FS_CardinalityType
  <1>2. \A m \in stored : Cardinality(Newer(m)) \in 0 .. top - 1
    <2> SUFFICES ASSUME NEW m \in stored
                 PROVE  Cardinality(Newer(m)) \in 0 .. top - 1
      OBVIOUS
    <2>1. m \notin Newer(m)
      BY BeforeOrders DEF Newer
    <2>2. Cardinality(Newer(m)) <= top /\ Cardinality(Newer(m)) # top
      BY <1>1, <2>1, NewerFinite, FS_Subset
    <2> QED
      BY <1>1, <2>2, NewerFinite
  <1>3. Age \in [stored -> 0 .. top - 1]
    BY <1>2 DEF Age
  <1>4. \A m, n \in stored : Age[m] = Age[n] => m = n
    <2> SUFFICES ASSUME NEW m \in stored, NEW n \in stored, m # n
                 PROVE  Age[m] # Age[n]
      OBVIOUS
    <2>1. Before(m, n) \/ Before(n, m)
      BY BeforeOrders
    <2>2. Cardinality(Newer(n)) \in Nat /\ Cardinality(Newer(m)) \in Nat
      BY NewerFinite
    <2> QED
      BY <2>1, <2>2, OlderIsLarger DEF Age
  <1>5. Age \in Injection(stored, 0 .. top - 1)
    BY <1>3, <1>4, Fun_IsInj
  <1>6. IsFiniteSet(0 .. top - 1) /\ Cardinality(0 .. top - 1) = top
    <2>1. 0 \in Int /\ top - 1 \in Int
      BY <1>1
    <2>2. (IF 0 > top - 1 THEN 0 ELSE (top - 1) - 0 + 1) = top
      BY <1>1
    <2> HIDE DEF top
    <2> QED
      BY <2>1, <2>2, FS_Interval
  <1>7. Age \in Surjection(stored, 0 .. top - 1)
    BY <1>5, <1>6, FS_Injection
  <1> QED
    BY <1>1, <1>3, <1>4, <1>7, Fun_SurjectionProperties

\* When ListByRoom leaves a message out, it returns as many as it may, all newer.
LEMMA NewestAreFull ==
    ASSUME TypeOK, StampedOnce, NEW n \in Nat, NEW m \in stored \ NewestStored(n)
    PROVE  /\ Cardinality(NewestStored(n)) = n
           /\ \A k \in NewestStored(n) : Before(m, k)
  <1>1. NewestStored(n) = {k \in stored : Age[k] < n}
    BY DEF NewestStored, Age, Newer
  <1>2. Cardinality(stored) \in Nat /\ Age[m] \in 0 .. Cardinality(stored) - 1
    BY AgeIsBijection
  <1>3. n <= Age[m]
    BY <1>1, <1>2
  <1> DEFINE newest == NewestStored(n)
             rank == [k \in newest |-> Age[k]]
  <1>4. Cardinality(newest) = n
    <2>1. rank \in [newest -> 0 .. n - 1]
      BY <1>1, <1>2, AgeIsBijection
    <2>2. \A j, k \in newest : rank[j] = rank[k] => j = k
      BY <1>1, AgeIsBijection
    <2>3. \A i \in 0 .. n - 1 : \E k \in newest : rank[k] = i
      <3> SUFFICES ASSUME NEW i \in 0 .. n - 1
                   PROVE  \E k \in newest : rank[k] = i
        OBVIOUS
      <3>1. i \in 0 .. Cardinality(stored) - 1 /\ i < n
        BY <1>2, <1>3
      <3>2. PICK k \in stored : Age[k] = i
        BY <3>1, AgeIsBijection
      <3>3. k \in newest
        BY <1>1, <3>1, <3>2
      <3> QED
        BY <3>2, <3>3
    <2>4. IsFiniteSet(newest)
      BY <1>1, StoredFinite, FS_Subset
    <2> HIDE DEF rank, newest
    <2>5. rank \in Bijection(newest, 0 .. n - 1)
      BY <2>1, <2>2, <2>3, Fun_IsBij
    <2>6. Cardinality(0 .. n - 1) = Cardinality(newest)
      BY <2>4, <2>5, FS_Bijection DEF ExistsBijection
    <2>7. Cardinality(0 .. n - 1) = n
      <3>1. 0 \in Int /\ n - 1 \in Int
        OBVIOUS
      <3>2. (IF 0 > n - 1 THEN 0 ELSE (n - 1) - 0 + 1) = n
        OBVIOUS
      <3> QED
        BY <3>1, <3>2, FS_Interval
    <2> QED
      BY <2>6, <2>7
  <1>5. ASSUME NEW k \in newest
        PROVE  Before(m, k)
    <2>1. k \in stored /\ Age[k] < n /\ Age[k] \in Nat
      BY <1>1, <1>2, AgeIsBijection
    <2>2. k # m
      BY <1>2, <1>3, <2>1
    <2>3. ~ Before(k, m)
      <3>1. Before(k, m) => Age[m] < Age[k]
        BY <2>1, OlderIsLarger DEF Age
      <3> QED
        BY <1>2, <1>3, <2>1, <3>1
    <2> QED
      BY <2>1, <2>2, <2>3, BeforeOrders
  <1> QED
    BY <1>4, <1>5
------------------------------------------------------------------------------
(***************************************************************************)
(* What a handler in the room has missed.                                  *)
(***************************************************************************)

\* A step that shows h nothing new and lets it miss nothing new.
Shows(h) ==
    /\ Following(h)
    /\ shown'[h] = shown[h]
    /\ under'[h] = under[h]
    /\ live[h] \subseteq live'[h]
    /\ Said' \subseteq Said \cup live'[h]
    /\ expired \subseteq expired'

\* Times do not change.
Timed == \E m : stamps' = stamps \/ stamps' = Append(stamps, m)

LEMMA BeforeKept ==
    ASSUME TypeOK, Timed, NEW m, NEW n, Before(m, n)
    PROVE  Before(m, n)'
  <1>1. Len(stamps) \in Nat
    BY DEF TypeOK
  <1>2. PICK x : stamps' = stamps \/ stamps' = Append(stamps, x)
    BY DEF Timed
  <1>3. Len(stamps') >= Len(stamps) /\ Len(stamps') \in Nat
    BY <1>1, <1>2 DEF TypeOK
  <1>4. \A i \in 1 .. Len(stamps) : i \in 1 .. Len(stamps') /\ stamps'[i] = stamps[i]
    BY <1>1, <1>2, <1>3 DEF TypeOK
  <1> QED
    BY <1>4 DEF Before

\* The handlers that have been shown the room.
LEMMA ShowsStep ==
    ASSUME IInv, CaughtUp, [Next]_vars, ~failed',
           NEW g \in Handlers, Following(g)', ~List(g)
    PROVE  Shows(g) /\ Timed
  <1> USE NoIdAssumption, NoMessageAssumption, NoHandlerAssumption
      DEF IInv, TypeOK, InHand, InLoop, CaughtUp, Goto, JoinedRouter, directory,
          log, view, Following, Shows, Timed, Said, InFlight
  <1>1. ASSUME NEW h \in Handlers, Join(h) \/ Return(h)
        PROVE  Shows(g) /\ Timed
    BY <1>1 DEF Join, Return
  <1>2. ASSUME NEW h \in Handlers, StoreFind(h) \/ StoreCreate(h)
        PROVE  Shows(g) /\ Timed
    BY <1>2 DEF StoreFind, StoreCreate
  <1>3. ASSUME NEW h \in Handlers, RouterFind(h)
        PROVE  Shows(g) /\ Timed
    BY <1>3 DEF RouterFind, Routed
  <1>4. ASSUME NEW h \in Handlers, RouterCreate(h)
        PROVE  Shows(g) /\ Timed
    BY <1>4 DEF RouterCreate, Routed
  <1>5. ASSUME NEW h \in Handlers, NEW i \in Ids, StoreMisses(h, i) \/ RouterMisses(h, i)
        PROVE  Shows(g) /\ Timed
    BY <1>5 DEF StoreMisses, RouterMisses
  <1>6. ASSUME NEW h \in Handlers, GetId(h)
        PROVE  Shows(g) /\ Timed
    BY <1>6 DEF GetId
  <1>7. ASSUME NEW h \in Handlers, List(h)
        PROVE  Shows(g) /\ Timed
    <2>1. h # g
      BY <1>7
    <2> QED
      BY <1>7, <2>1 DEF List
  <1>8. ASSUME NEW h \in Handlers, NEW m \in Messages, Broadcast(h, m)
        PROVE  Shows(g) /\ Timed
    BY <1>8 DEF Broadcast
  <1>9. ASSUME NEW h \in Handlers, Stamp(h)
        PROVE  Shows(g) /\ Timed
    BY <1>9 DEF Stamp
  <1>10. ASSUME NEW h \in Handlers, Insert(h)
        PROVE  Shows(g) /\ Timed
    BY <1>10 DEF Insert
  <1>11. ASSUME NEW h \in Handlers, Leave(h) \/ Disconnect(h)
        PROVE  Shows(g) /\ Timed
    BY <1>11 DEF Leave, Disconnect
  <1>12. ASSUME NEW h \in Handlers, StoreJoinFails(h) \/ RouterJoinFails(h)
        PROVE  Shows(g) /\ Timed
    BY <1>12 DEF StoreJoinFails, RouterJoinFails
  <1>13. ASSUME NEW h \in Handlers,
               LeaveFails(h) \/ ListFails(h) \/ InsertFails(h)
        PROVE  Shows(g) /\ Timed
    BY <1>13 DEF LeaveFails, ListFails, InsertFails
  <1>14. ASSUME NEW n \in 1 .. Len(stamps), Cleanup(n)
        PROVE  Shows(g) /\ Timed
    BY <1>14 DEF Cleanup
  <1>15. CASE RestartMessaging
    BY <1>15 DEF RestartMessaging
  <1>16. CASE GatewayStops
    BY <1>16 DEF GatewayStops
  <1>17. CASE UNCHANGED vars
    BY <1>17 DEF vars
  <1> QED
    BY <1>1, <1>2, <1>3, <1>4, <1>5, <1>6, <1>7, <1>8, <1>9, <1>10, <1>11, <1>12,
       <1>13, <1>14, <1>15, <1>16, <1>17 DEF Next

\* NothingElseIsMissed also of the handlers that are away or on their way back:
\* the router keeps writing to them, which is why a /leave needs no history.
FollowersMissNothingElse ==
    ~failed =>
        \A h \in Handlers : Following(h) =>
            \A m \in Said \ (live[h] \cup shown[h] \cup under[h] \cup expired) :
                /\ Cardinality(shown[h]) = HistoryLimit
                /\ \A n \in shown[h] : Before(m, n)

LEMMA MissedStep ==
    ASSUME IInv, StampedOnce, CaughtUp, FollowersMissNothingElse, [Next]_vars
    PROVE  FollowersMissNothingElse'
  <1> SUFFICES ASSUME ~failed', NEW g \in Handlers, Following(g)',
                      NEW m \in Said' \ (live'[g] \cup shown'[g] \cup under'[g]
                                         \cup expired')
               PROVE  /\ Cardinality(shown'[g]) = HistoryLimit
                      /\ \A n \in shown'[g] : Before(m, n)'
    BY DEF FollowersMissNothingElse
  <1>1. ~failed
    BY DEF Next, vars, Join, Return, StoreFind, StoreCreate, RouterFind,
       RouterCreate,
       StoreMisses, RouterMisses, GetId, List, Broadcast, Stamp, Insert, Leave,
       Disconnect, StoreJoinFails, RouterJoinFails, LeaveFails, ListFails,
       InsertFails, Cleanup, RestartMessaging, GatewayStops
  <1>2. CASE ~List(g)
    <2>1. Shows(g) /\ Timed
      BY <1>2, ShowsStep
    <2>2. m \in Said \ (live[g] \cup shown[g] \cup under[g] \cup expired)
      BY <2>1 DEF Shows
    <2>3. Cardinality(shown[g]) = HistoryLimit /\ \A n \in shown[g] : Before(m, n)
      BY <1>1, <2>1, <2>2 DEF Shows, FollowersMissNothingElse
    <2> QED
      BY <2>1, <2>3, BeforeKept DEF Shows, IInv
  <1>3. CASE List(g)
    <2>1. /\ pc[g] = "list" /\ g \in Handlers
          /\ shown'[g] = NewestStored(HistoryLimit)
          /\ under'[g] = under[g] \cap InFlight
          /\ UNCHANGED <<stamps, stored, expired, live, saying>>
      BY <1>1, <1>3 DEF List, Goto, CaughtUp, InLoop, IInv, TypeOK, log
    <2>2. m \in Said /\ m \in live[g] \cup under[g] \cup stored \cup expired
      BY <1>1, <2>1 DEF CaughtUp, Said, InFlight
    <2>3. m \in stored
      BY <1>1, <2>1, <2>2 DEF IInv, SaidIsStored
    <2>4. m \in stored \ NewestStored(HistoryLimit)
      BY <2>1, <2>3
    <2>5. /\ Cardinality(NewestStored(HistoryLimit)) = HistoryLimit
          /\ \A n \in NewestStored(HistoryLimit) : Before(m, n)
      BY <2>4, NewestAreFull, HistoryLimitAssumption DEF IInv
    <2> QED
      BY <2>1, <2>5 DEF Before
  <1> QED
    BY <1>2, <1>3

LEMMA MissedInv ==
    Spec => [](StampedOnce /\ CaughtUp /\ FollowersMissNothingElse)
  <1>1. Init => StampedOnce /\ CaughtUp /\ FollowersMissNothingElse
    BY DEF Init, StampedOnce, CaughtUp, FollowersMissNothingElse, Following, InLoop
  <1>2. IInv /\ StampedOnce /\ CaughtUp /\ FollowersMissNothingElse /\ [Next]_vars
          => (StampedOnce /\ CaughtUp /\ FollowersMissNothingElse)'
    BY StampedStep, CaughtStep, MissedStep
  <1> QED
    BY <1>1, <1>2, HistoryInv, PTL DEF Spec
------------------------------------------------------------------------------
\* Tables and handlers keep their types: no insert has anything but a message.
THEOREM TypeCorrect == Spec => []TypeOK
  BY HistoryInv, PTL DEF IInv

\* Both processes have the id of the row and store messages under it, through
\* races, failures, restarts and emptied rooms.
THEOREM StableId == Spec => []IdIsStable
  BY HistoryInv, PTL DEF IInv

\* While nothing fails the router never has to insert the row.
THEOREM RouterFinds == Spec => []RouterFindsRow
  <1>1. IInv => RouterFindsRow
    BY DEF IInv, StoreFirst, RouterFindsRow
  <1> QED
    BY <1>1, HistoryInv, PTL

\* While nothing fails what was said is stored, or still in its sender's hands,
\* or cleaned up.
THEOREM SaidStored == Spec => []SaidIsStored
  BY HistoryInv, PTL DEF IInv

\* While nothing fails a handler that has joined misses only what was in flight
\* when it was routed and stored after it had listed, what a full history leaves
\* out, all of it older than what it shows, and what has been cleaned up, and
\* that stays so through a /leave that brings it back without a history.
THEOREM NothingMissed == Spec => []NothingElseIsMissed
  <1>1. FollowersMissNothingElse => NothingElseIsMissed
    BY DEF FollowersMissNothingElse, NothingElseIsMissed, Following
  <1> QED
    BY <1>1, MissedInv, PTL
------------------------------------------------------------------------------
(***************************************************************************)
(* The row is for life.                                                    *)
(***************************************************************************)

\* "GetRoomID returns the stable ID" (room_store.go:27) over time: no process
\* ever answers with a second id for the room, an entry that was deleted and
\* made again or a restart between the two included.
IdsForLife ==
    [][/\ row # NoId => row' = row
       /\ storeId # NoId => storeId' \in {storeId, NoId}
       /\ routerId # NoId => routerId' \in {routerId, NoId}]_vars

\* The row is inserted once: Create of a name that exists is an error.
THEOREM RowIsForLife == Spec => IdsForLife
  <1>1. ASSUME [Next]_vars
        PROVE  row # NoId => row' = row
    <2>1. ASSUME NEW h \in Handlers, StoreCreate(h) \/ RouterCreate(h)
          PROVE  row # NoId => row' = row
      BY <2>1 DEF StoreCreate, RouterCreate
    <2>2. ASSUME NEW h \in Handlers, NEW i, StoreMisses(h, i) \/ RouterMisses(h, i)
          PROVE  row' = row
      BY <2>2 DEF StoreMisses, RouterMisses
    <2>3. ASSUME NEW h \in Handlers,
                 \/ Join(h) \/ Return(h) \/ StoreFind(h) \/ RouterFind(h)
                 \/ GetId(h) \/ List(h)
                 \/ \E m \in Messages : Broadcast(h, m)
          PROVE  row' = row
      BY <2>3 DEF Join, Return, StoreFind, RouterFind, GetId, List, Broadcast,
         directory
    <2>4. ASSUME NEW h \in Handlers,
                 \/ Stamp(h) \/ Insert(h) \/ Leave(h) \/ Disconnect(h)
                 \/ StoreJoinFails(h) \/ RouterJoinFails(h)
                 \/ LeaveFails(h) \/ ListFails(h) \/ InsertFails(h)
          PROVE  row' = row
      BY <2>4 DEF Stamp, Insert, Leave, Disconnect, StoreJoinFails, RouterJoinFails,
         LeaveFails, ListFails, InsertFails, directory
    <2>5. ASSUME (\E n \in 1 .. Len(stamps) : Cleanup(n)) \/ RestartMessaging
                 \/ GatewayStops \/ UNCHANGED vars
          PROVE  row' = row
      BY <2>5 DEF Cleanup, RestartMessaging, GatewayStops, vars, directory
    <2> QED
      BY <1>1, <2>1, <2>2, <2>3, <2>4, <2>5 DEF Next
  <1>2. IdIsStable /\ IdIsStable' /\ [Next]_vars =>
          [/\ row # NoId => row' = row
           /\ storeId # NoId => storeId' \in {storeId, NoId}
           /\ routerId # NoId => routerId' \in {routerId, NoId}]_vars
    BY <1>1 DEF IdIsStable
  <1> QED
    BY <1>2, StableId, PTL DEF Spec, IdsForLife

(***************************************************************************)
(* The two mutexes.                                                        *)
(***************************************************************************)

\* Whoever is inserting the row holds the mutex of its process, and nobody else
\* holds one.
LocksAreHeld ==
    \A h \in Handlers : /\ storeLock = h <=> pc[h] = "storeCreate"
                        /\ routerLock = h <=> pc[h] = "routerCreate"

LEMMA LocksStep ==
    ASSUME TypeOK, LocksAreHeld, [Next]_vars
    PROVE  LocksAreHeld'
  <1>0. /\ pc \in [Handlers -> InLoop \cup {"out", "away", "storeFind", "storeCreate",
                         "routerFind", "routerCreate", "getId", "list"}]
        /\ storeLock \in Handlers \cup {NoHandler}
        /\ routerLock \in Handlers \cup {NoHandler}
    BY DEF TypeOK
  <1>1. ASSUME NEW h \in Handlers, NEW a, NEW b, Goto(h, a, b),
               a \notin {"storeCreate", "routerCreate"},
               b \notin {"storeCreate", "routerCreate"},
               UNCHANGED <<storeLock, routerLock>>
        PROVE  LocksAreHeld'
    BY <1>0, <1>1 DEF LocksAreHeld, Goto
  <1>2. ASSUME NEW h \in Handlers,
               \/ Join(h) \/ Return(h) \/ StoreFind(h) \/ RouterFind(h)
               \/ GetId(h) \/ List(h)
               \/ \E m \in Messages : Broadcast(h, m)
        PROVE  LocksAreHeld'
    <2> USE DEF directory
    <2>1. CASE Join(h) \/ Return(h)
      BY <1>1, <2>1 DEF Join, Return
    <2>2. CASE StoreFind(h)
      BY <1>1, <2>2 DEF StoreFind
    <2>3. CASE RouterFind(h)
      BY <1>1, <2>3 DEF RouterFind, JoinedRouter
    <2>4. CASE GetId(h)
      BY <1>1, <2>4 DEF GetId
    <2>5. CASE List(h)
      BY <1>1, <2>5 DEF List
    <2>6. ASSUME NEW m \in Messages, Broadcast(h, m)
          PROVE  LocksAreHeld'
      BY <1>1, <2>6 DEF Broadcast
    <2> QED
      BY <1>2, <2>1, <2>2, <2>3, <2>4, <2>5, <2>6
  <1>3. ASSUME NEW h \in Handlers,
               \/ Stamp(h) \/ Insert(h) \/ Leave(h) \/ Disconnect(h)
               \/ LeaveFails(h) \/ ListFails(h) \/ InsertFails(h)
        PROVE  LocksAreHeld'
    <2> USE DEF directory
    <2>1. CASE Stamp(h)
      BY <1>1, <2>1 DEF Stamp
    <2>2. CASE Insert(h)
      BY <1>1, <2>2 DEF Insert
    <2>3. CASE Leave(h)
      BY <1>1, <2>3 DEF Leave
    <2>4. CASE Disconnect(h)
      BY <1>1, <2>4 DEF Disconnect
    <2>5. CASE LeaveFails(h) \/ ListFails(h)
      BY <1>1, <2>5 DEF LeaveFails, ListFails
    <2>6. CASE InsertFails(h)
      BY <1>1, <2>6 DEF InsertFails
    <2> QED
      BY <1>3, <2>1, <2>2, <2>3, <2>4, <2>5, <2>6
  <1> USE NoHandlerAssumption DEF LocksAreHeld, Goto, directory
  <1>4. ASSUME NEW h \in Handlers, NEW i, StoreMisses(h, i)
        PROVE  LocksAreHeld'
    BY <1>0, <1>4 DEF StoreMisses
  <1>5. ASSUME NEW h \in Handlers, NEW i, RouterMisses(h, i)
        PROVE  LocksAreHeld'
    BY <1>0, <1>5 DEF RouterMisses
  <1>6. ASSUME NEW h \in Handlers, StoreCreate(h)
        PROVE  LocksAreHeld'
    BY <1>0, <1>6 DEF StoreCreate
  <1>7. ASSUME NEW h \in Handlers, RouterCreate(h)
        PROVE  LocksAreHeld'
    BY <1>0, <1>7 DEF RouterCreate, JoinedRouter
  <1>8. ASSUME NEW h \in Handlers, StoreJoinFails(h)
        PROVE  LocksAreHeld'
    BY <1>0, <1>8 DEF StoreJoinFails
  <1>9. ASSUME NEW h \in Handlers, RouterJoinFails(h)
        PROVE  LocksAreHeld'
    BY <1>0, <1>9 DEF RouterJoinFails, JoinedRouter
  <1>10. CASE RestartMessaging
    BY <1>0, <1>10 DEF RestartMessaging
  <1>11. CASE GatewayStops
    BY <1>0, <1>11 DEF GatewayStops
  <1>12. CASE (\E n \in 1 .. Len(stamps) : Cleanup(n)) \/ UNCHANGED vars
    BY <1>12 DEF Cleanup, vars
  <1> QED
    BY <1>2, <1>3, <1>4, <1>5, <1>6, <1>7, <1>8, <1>9, <1>10, <1>11, <1>12 DEF Next

\* No failure, restart or stop leaves a mutex locked with nobody to unlock it,
\* and two handlers never insert the row from one process.
THEOREM NoMutexIsLost == Spec => []LocksAreHeld
  <1>1. Init => LocksAreHeld
    BY NoHandlerAssumption DEF Init, LocksAreHeld
  <1>2. IInv => TypeOK
    BY DEF IInv
  <1> QED
    BY <1>1, <1>2, LocksStep, HistoryInv, PTL DEF Spec

(***************************************************************************)
(* The messages table.                                                     *)
(***************************************************************************)

\* A message is inserted at most once: what is stored, or was until the cleanup
\* worker took it, has a time, is in nobody's hands any more, and is not both.
StoredOnce ==
    /\ \A m \in stored \cup expired : \E i \in 1 .. Len(stamps) : stamps[i] = m
    /\ \A h \in Handlers : saying[h] \notin stored \cup expired
    /\ stored \cap expired = {}

\* A step that stores nothing, deletes nothing and hands nobody a message.
LEMMA StoredFrame ==
    ASSUME StoredOnce, UNCHANGED log, \A h \in Handlers : saying'[h] = saying[h]
    PROVE  StoredOnce'
  BY DEF StoredOnce, log

\* A handler has got rid of its message.
LEMMA HandedOn ==
    ASSUME IInv, NEW h \in Handlers, saying' = [saying EXCEPT ![h] = NoMessage]
    PROVE  /\ saying'[h] = NoMessage
           /\ \A g \in Handlers : g # h => saying'[g] = saying[g]
  BY DEF IInv, TypeOK

LEMMA OnceStep ==
    ASSUME IInv, IInv', StampedOnce, StoredOnce, [Next]_vars
    PROVE  StoredOnce'
  <1>0. /\ stored \cup expired \subseteq Messages /\ Len(stamps) \in Nat
        /\ stored' \cup expired' \subseteq Messages
        /\ saying \in [Handlers -> Messages \cup {NoMessage}]
        /\ stamps \in Seq(Messages)
    BY DEF IInv, TypeOK
  <1>1. ASSUME NEW h \in Handlers, UNCHANGED log,
               saying' = [saying EXCEPT ![h] = NoMessage]
        PROVE  StoredOnce'
    BY <1>0, <1>1, HandedOn, NoMessageAssumption DEF StoredOnce, log
  <1>2. ASSUME NEW h \in Handlers,
               \/ Join(h) \/ Return(h) \/ StoreFind(h) \/ StoreCreate(h)
               \/ RouterFind(h) \/ RouterCreate(h) \/ GetId(h) \/ List(h)
               \/ \E i \in Ids : StoreMisses(h, i) \/ RouterMisses(h, i)
        PROVE  StoredOnce'
    <2>1. UNCHANGED <<log, saying>>
      BY <1>2 DEF Join, Return, StoreFind, StoreCreate, RouterFind,
         RouterCreate, GetId, List,
         StoreMisses, RouterMisses
    <2> QED
      BY <2>1, StoredFrame
  <1>3. ASSUME NEW h \in Handlers,
               \/ Leave(h) \/ Disconnect(h) \/ StoreJoinFails(h) \/ RouterJoinFails(h)
               \/ LeaveFails(h) \/ ListFails(h)
        PROVE  StoredOnce'
    <2>1. UNCHANGED <<log, saying>>
      BY <1>3 DEF Leave, Disconnect, StoreJoinFails, RouterJoinFails, LeaveFails,
         ListFails
    <2> QED
      BY <2>1, StoredFrame
  <1>4. ASSUME NEW h \in Handlers, InsertFails(h)
        PROVE  StoredOnce'
    BY <1>1, <1>4 DEF InsertFails
  <1>5. ASSUME NEW h \in Handlers, NEW m \in Messages, Broadcast(h, m)
        PROVE  StoredOnce'
    <2>1. m \notin stored \cup expired
      BY <1>5 DEF Broadcast, Said, StoredOnce
    <2>2. /\ saying'[h] = m /\ \A g \in Handlers : g # h => saying'[g] = saying[g]
          /\ UNCHANGED log
      BY <1>0, <1>5 DEF Broadcast
    <2> QED
      BY <2>1, <2>2 DEF StoredOnce, log
  <1>6. ASSUME NEW h \in Handlers, Stamp(h)
        PROVE  StoredOnce'
    <2>1. stamps' = Append(stamps, saying[h]) /\ UNCHANGED <<stored, expired, saying>>
      BY <1>6 DEF Stamp
    <2>2. saying[h] \in Messages
      BY <1>6 DEF Stamp, Goto, IInv, InHand
    <2>3. /\ Len(stamps') = Len(stamps) + 1
          /\ \A i \in 1 .. Len(stamps) : stamps'[i] = stamps[i]
      BY <1>0, <2>1, <2>2
    <2>4. \A i \in 1 .. Len(stamps) : i \in 1 .. Len(stamps')
      BY <1>0, <2>3
    <2>5. ASSUME NEW m \in stored \cup expired
          PROVE  \E i \in 1 .. Len(stamps') : stamps'[i] = m
      <3>1. PICK i \in 1 .. Len(stamps) : stamps[i] = m
        BY DEF StoredOnce
      <3> QED
        BY <2>3, <2>4, <3>1, Zenon
    <2> QED
      BY <2>1, <2>5 DEF StoredOnce
  <1>7. ASSUME NEW h \in Handlers, Insert(h)
        PROVE  StoredOnce'
    <2>1. /\ stored' \subseteq stored \cup {saying[h]}
          /\ saying' = [saying EXCEPT ![h] = NoMessage]
          /\ UNCHANGED <<stamps, expired>>
      BY <1>7 DEF Insert
    <2>2. \E i \in 1 .. Len(stamps) : stamps[i] = saying[h]
      BY <1>7 DEF Insert, Goto, StampedOnce
    <2>3. \A g \in Handlers : saying'[g] = NoMessage \/ saying'[g] # saying[h]
      <3>1. ASSUME NEW g \in Handlers, g # h, saying[g] = saying[h]
            PROVE  saying[g] = NoMessage
        BY <3>1 DEF StampedOnce
      <3>2. saying'[h] = NoMessage /\ \A g \in Handlers : g # h => saying'[g] = saying[g]
        BY <2>1, HandedOn
      <3> QED
        BY <3>1, <3>2, Zenon
    <2>4. \A g \in Handlers : saying'[g] = NoMessage \/ saying'[g] = saying[g]
      BY <2>1, HandedOn
    <2> QED
      BY <1>0, <2>1, <2>2, <2>3, <2>4, NoMessageAssumption DEF StoredOnce
  <1>8. ASSUME NEW n \in 1 .. Len(stamps), Cleanup(n)
        PROVE  StoredOnce'
    <2>1. \E old : stored' = stored \ old /\ expired' = expired \cup (old \cap stored)
      BY <1>8 DEF Cleanup
    <2>2. UNCHANGED <<stamps, saying>>
      BY <1>8 DEF Cleanup
    <2> QED
      BY <2>1, <2>2 DEF StoredOnce
  <1>9. CASE RestartMessaging \/ UNCHANGED vars
    BY <1>9, StoredFrame DEF RestartMessaging, vars
  <1>10. CASE GatewayStops
    <2>1. UNCHANGED log /\ \A h \in Handlers : saying'[h] = NoMessage
      BY <1>10 DEF GatewayStops
    <2> QED
      BY <1>0, <2>1, NoMessageAssumption DEF StoredOnce, log
  <1> QED
    BY <1>2, <1>3, <1>4, <1>5, <1>6, <1>7, <1>8, <1>9, <1>10 DEF Next

\* Nothing is stored twice, whoever fails between a broadcast and its insert,
\* and what runCleanup has deleted does not come back with a late insert; with
\* one time for each message, created_at lists it once.
THEOREM StoredAtMostOnce == Spec => []StoredOnce /\ []StampedOnce
  <1>1. Init => StoredOnce
    BY DEF Init, StoredOnce
  <1> QED
    BY <1>1, OnceStep, HistoryInv, MissedInv, PTL DEF Spec
------------------------------------------------------------------------------
(***************************************************************************)
(* The tables here are those of RoomStore and MessageRouter, seen at one   *)
(* room: there each JoinRoom is one step, here it is a lookup, an insert   *)
(* of the row and an entry.                                                *)
(***************************************************************************)
theRoom == "room"

StoreRooms == IF storeId = NoId THEN {} ELSE {theRoom}
StoreTable == [r \in {theRoom} |-> storeMembers]

Table == INSTANCE RoomStore WITH
            Users <- Handlers, Rooms <- {theRoom},
            rooms <- StoreRooms, members <- StoreTable

RouterRooms == IF routerId = NoId THEN {} ELSE {theRoom}
RouterUsers == [h \in Handlers |-> IF h \in routerMembers THEN h ELSE NoHandler]
RouterTable == [r \in {theRoom} |-> RouterUsers]

Router == INSTANCE MessageRouterProofs WITH
            Conns <- Handlers, Users <- Handlers, Rooms <- {theRoom},
            NoConn <- NoHandler,
            rooms <- RouterRooms, members <- RouterTable, users <- RouterUsers

\* What may happen to the messaging service's table: a method of the room store
\* at a time, or a restart.
StoreMethods ==
    [][\/ \E h \in Handlers : Table!JoinRoom(theRoom, h) \/ Table!LeaveRoom(theRoom, h)
       \/ Table!Restart]_<<StoreRooms, StoreTable>>

LEMMA StoreMethod ==
    ASSUME IInv, [Next]_vars
    PROVE  \/ \E h \in Handlers : Table!JoinRoom(theRoom, h) \/ Table!LeaveRoom(theRoom, h)
           \/ Table!Restart
           \/ UNCHANGED <<StoreRooms, StoreTable>>
  <1> USE NoIdAssumption DEF IInv, TypeOK, StoreRooms, StoreTable
  <1>1. ASSUME NEW h \in Handlers, StoreFind(h)
        PROVE  Table!JoinRoom(theRoom, h)
    BY <1>1 DEF StoreFind, Table!JoinRoom
  <1>2. ASSUME NEW h \in Handlers, StoreCreate(h)
        PROVE  Table!JoinRoom(theRoom, h) \/ UNCHANGED <<StoreRooms, StoreTable>>
    <2>1. CASE row = NoId
      <3>1. id[h] # NoId
        BY <1>2 DEF StoreCreate, Goto, InHand
      <3>2. storeId' = id[h] /\ storeMembers' = storeMembers \cup {h}
        BY <1>2, <2>1 DEF StoreCreate
      <3> QED
        BY <3>1, <3>2 DEF Table!JoinRoom
    <2>2. CASE row # NoId
      BY <1>2, <2>2 DEF StoreCreate
    <2> QED
      BY <2>1, <2>2
  <1>3. ASSUME NEW h \in Handlers, Leave(h)
        PROVE  Table!LeaveRoom(theRoom, h)
    BY <1>3 DEF Leave, Table!LeaveRoom
  <1>4. CASE RestartMessaging
    BY <1>4 DEF RestartMessaging, Table!Restart
  <1>5. CASE UNCHANGED <<storeId, storeMembers>>
    BY <1>5
  <1>6. ASSUME NEW h \in Handlers,
               \/ Join(h) \/ Return(h) \/ RouterFind(h) \/ RouterCreate(h)
               \/ \E i \in Ids : StoreMisses(h, i) \/ RouterMisses(h, i)
               \/ GetId(h) \/ List(h) \/ (\E m \in Messages : Broadcast(h, m))
               \/ Stamp(h) \/ Insert(h) \/ Disconnect(h)
               \/ StoreJoinFails(h) \/ RouterJoinFails(h)
               \/ LeaveFails(h) \/ ListFails(h) \/ InsertFails(h)
        PROVE  UNCHANGED <<storeId, storeMembers>>
    BY <1>6 DEF Join, Return, RouterFind, RouterCreate, StoreMisses,
       RouterMisses, GetId,
       List, Broadcast, Stamp, Insert, Disconnect, StoreJoinFails, RouterJoinFails,
       LeaveFails, ListFails, InsertFails, directory
  <1>7. ASSUME NEW n \in 1 .. Len(stamps), Cleanup(n)
        PROVE  UNCHANGED <<storeId, storeMembers>>
    BY <1>7 DEF Cleanup, directory
  <1>8. GatewayStops \/ UNCHANGED vars => UNCHANGED <<storeId, storeMembers>>
    BY DEF GatewayStops, vars, directory
  <1> QED
    BY <1>1, <1>2, <1>3, <1>4, <1>5, <1>6, <1>7, <1>8 DEF Next

\* Through lookups and inserts that race, fail and are restarted, the messaging
\* service's entry changes as RoomStore has it change, at once or not at all.
THEOREM StoreIsRoomStore == Spec => StoreMethods
  <1>1. IInv /\ [Next]_vars =>
          [\/ \E h \in Handlers :
                Table!JoinRoom(theRoom, h) \/ Table!LeaveRoom(theRoom, h)
           \/ Table!Restart]_<<StoreRooms, StoreTable>>
    BY StoreMethod
  <1> QED
    BY <1>1, HistoryInv, PTL DEF Spec, StoreMethods

\* The messaging service has an id for the room just as long as somebody is in
\* its entry: LeaveRoom deletes the entry with its last member.
EntryHasMembers == storeId # NoId <=> storeMembers # {}

\* The service never lists an entry nobody is in, nor forgets one that somebody is.
THEOREM EntriesHaveMembers == Spec => []EntryHasMembers
  <1>1. Init => EntryHasMembers
    BY DEF Init, EntryHasMembers
  <1>2. IInv /\ [Next]_vars /\ EntryHasMembers => EntryHasMembers'
    <2> SUFFICES ASSUME IInv, [Next]_vars, EntryHasMembers PROVE EntryHasMembers'
      OBVIOUS
    <2> USE DEF EntryHasMembers, StoreRooms, StoreTable
    <2>1. ASSUME NEW h \in Handlers, Table!JoinRoom(theRoom, h)
          PROVE  EntryHasMembers'
      BY <2>1 DEF Table!JoinRoom
    <2>2. ASSUME NEW h \in Handlers, Table!LeaveRoom(theRoom, h)
          PROVE  EntryHasMembers'
      BY <2>2 DEF Table!LeaveRoom
    <2>3. Table!Restart => EntryHasMembers'
      BY DEF Table!Restart
    <2>4. UNCHANGED <<StoreRooms, StoreTable>> => EntryHasMembers'
      OBVIOUS
    <2> QED
      BY <2>1, <2>2, <2>3, <2>4, StoreMethod
  <1> QED
    BY <1>1, <1>2, HistoryInv, PTL DEF Spec

\* The gateway has ended, and its router with it.
RouterReset == RouterRooms' = {} /\ routerMembers' = {}

LEMMA RouterMethod ==
    ASSUME IInv, [Next]_vars
    PROVE  [Router!Next]_Router!vars \/ RouterReset
  <1> USE NoIdAssumption, NoHandlerAssumption
      DEF IInv, TypeOK, RouterRooms, RouterUsers, RouterTable, Routed
  <1>1. ASSUME NEW h \in Handlers, RouterFind(h)
        PROVE  Router!JoinRoom(theRoom, h, h)
    BY <1>1 DEF RouterFind, Router!JoinRoom
  <1>2. ASSUME NEW h \in Handlers, RouterCreate(h)
        PROVE  Router!JoinRoom(theRoom, h, h) \/ UNCHANGED Router!vars
    <2>1. CASE row = NoId
      <3>1. routerId' # NoId /\ routerMembers' = routerMembers \cup {h}
        BY <1>2, <2>1 DEF RouterCreate, JoinedRouter, Goto, InHand
      <3> QED
        BY <3>1 DEF Router!JoinRoom
    <2>2. CASE row # NoId
      <3>1. UNCHANGED <<routerId, routerMembers>>
        BY <1>2, <2>2 DEF RouterCreate
      <3> QED
        BY <3>1 DEF Router!vars
    <2> QED
      BY <2>1, <2>2
  <1>3. ASSUME NEW h \in Handlers, Disconnect(h)
        PROVE  Router!Disconnect(h)
    <2>1. RouterUsers' = [RouterUsers EXCEPT ![h] = NoHandler]
      BY <1>3 DEF Disconnect
    <2>2. RouterTable' =
            [r \in {theRoom} |-> [RouterTable[r] EXCEPT ![h] = NoHandler]]
      BY <2>1
    <2>3. RouterUsers' = Router!NoMembers <=> routerMembers' = {}
      <3>1. routerMembers' \subseteq Handlers
        BY <1>3 DEF Disconnect
      <3> QED
        BY <3>1 DEF Router!NoMembers
    <2>4. RouterRooms' = {r \in RouterRooms : RouterTable'[r] # Router!NoMembers}
      BY <1>3, <2>3 DEF Disconnect
    <2> HIDE DEF RouterUsers, RouterTable, RouterRooms
    <2> QED
      BY <2>1, <2>2, <2>4 DEF Router!Disconnect
  <1>4. CASE GatewayStops
    BY <1>4 DEF GatewayStops, RouterReset
  <1>5. UNCHANGED <<routerId, routerMembers>> => UNCHANGED Router!vars
    BY DEF Router!vars
  <1>6. ASSUME NEW h \in Handlers,
               \/ Join(h) \/ Return(h) \/ StoreFind(h) \/ StoreCreate(h)
               \/ \E i \in Ids : StoreMisses(h, i) \/ RouterMisses(h, i)
               \/ GetId(h) \/ List(h) \/ (\E m \in Messages : Broadcast(h, m))
               \/ Stamp(h) \/ Insert(h) \/ Leave(h)
               \/ StoreJoinFails(h) \/ RouterJoinFails(h)
               \/ LeaveFails(h) \/ ListFails(h) \/ InsertFails(h)
        PROVE  UNCHANGED <<routerId, routerMembers>>
    BY <1>6 DEF Join, Return, StoreFind, StoreCreate, StoreMisses,
       RouterMisses, GetId,
       List, Broadcast, Stamp, Insert, Leave, StoreJoinFails, RouterJoinFails,
       LeaveFails, ListFails, InsertFails, directory
  <1>7. ASSUME NEW n \in 1 .. Len(stamps), Cleanup(n)
        PROVE  UNCHANGED <<routerId, routerMembers>>
    BY <1>7 DEF Cleanup, directory
  <1>8. RestartMessaging \/ UNCHANGED vars => UNCHANGED <<routerId, routerMembers>>
    BY DEF RestartMessaging, vars, directory
  <1> HIDE DEF RouterRooms, RouterUsers, RouterTable
  <1> QED
    BY <1>1, <1>2, <1>3, <1>4, <1>5, <1>6, <1>7, <1>8 DEF Next, Router!Next, theRoom

\* The gateway's table changes as MessageRouter has it change, through lookups
\* and inserts that race and fail, until the gateway ends.
THEOREM RouterIsMessageRouter == Spec => [][Router!Next \/ RouterReset]_Router!vars
  <1>1. IInv /\ [Next]_vars => [Router!Next \/ RouterReset]_Router!vars
    BY RouterMethod
  <1> QED
    BY <1>1, HistoryInv, PTL DEF Spec

\* The router holds no RoomSession without a member, and no handler is a member
\* of a room it has no RoomSession of, however a gateway ends: the invariants of
\* MessageRouter hold of this table.
THEOREM RouterTidy == Spec => [](Router!NoGhostRooms /\ Router!MembersAreRoutable)
  <1>1. Init => Router!Init
    BY DEF Init, Router!Init, Router!NoMembers, RouterRooms, RouterTable,
           RouterUsers
  <1>2. Init => Router!IInv
    BY <1>1, Router!InitInv, NoHandlerAssumption
  <1>3. IInv /\ [Next]_vars /\ Router!IInv => Router!IInv'
    <2> SUFFICES ASSUME IInv, [Next]_vars, Router!IInv PROVE Router!IInv'
      OBVIOUS
    <2>1. CASE RouterReset
      <3>1. RouterRooms' = {} /\ RouterUsers' = [h \in Handlers |-> NoHandler]
        BY <2>1 DEF RouterReset, RouterUsers
      <3> HIDE DEF RouterRooms, RouterUsers
      <3> QED
        BY <3>1 DEF Router!IInv, Router!TypeOK, Router!NoGhostRooms,
           Router!MembersAreRoutable, Router!ListRoomMembers, RouterTable
    <2>2. CASE [Router!Next]_Router!vars
      BY <2>2, Router!NextInv, NoHandlerAssumption
    <2> QED
      BY <2>1, <2>2, RouterMethod
  <1>4. Router!IInv => Router!NoGhostRooms /\ Router!MembersAreRoutable
    BY DEF Router!IInv
  <1> QED
    BY <1>2, <1>3, <1>4, HistoryInv, PTL DEF Spec
==============================================================================
