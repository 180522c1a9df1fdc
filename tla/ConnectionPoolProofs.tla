------------------------ MODULE ConnectionPoolProofs ------------------------
(***************************************************************************)
(* The items, senders and connections of the pool, for any number of       *)
(* requests and items.                                                     *)
(***************************************************************************)
EXTENDS ConnectionPool, FiniteSetTheorems, TLAPS

\* What a request has at each point: an item once it was pulled, items set
\* aside only while it still looks for one, a connection from sending to the
\* end; and the item of a request that has, or is to have, a connection of its
\* own is empty.
Located ==
    \A r \in Requests :
        /\ pc[r] \in {"get", "connect", "send", "upgraded"} => item[r] # None
        /\ pc[r] \in {"idle", "pull", "select", "done"} => item[r] = None
        /\ held[r] # {} => pc[r] \in {"pull", "select", "get"}
        /\ pc[r] \in {"send", "upgraded", "streaming"} <=> carrier[r] # None
        /\ pc[r] \in {"connect", "send", "upgraded", "streaming"} /\ item[r] # None =>
              inner[item[r]] = None

Early == {"idle", "pull", "select", "get", "connect"}

\* A request that has not connected has not made a connection.
NotMade ==
    \A r \in Requests : pc[r] \in Early =>
        /\ r \notin open
        /\ \A s \in Slots : inner[s] # r
        /\ \A q \in Requests : carrier[q] # r

\* The slot a connection counts for: its sender is stored there, or its exchange
\* keeps it.
CountsFor(c, s) == inner[s] = c \/ \E r \in Requests : carrier[r] = c /\ item[r] = s

Covered ==
    ~cfg.h2 /\ (cfg.keepalive \/ cfg.tracked) =>
        \A c \in open : \E s \in Slots : CountsFor(c, s)

-----------------------------------------------------------------------------
\* The steps of the specification; all that end a request do the same.
LEMMA ActionCases ==
    ASSUME [Next]_vars
    PROVE  \/ UNCHANGED vars
           \/ \E r \in Requests :
                 \/ Arrive(r) \/ Pull(r) \/ StartSelect(r) \/ SelectPull(r)
                 \/ SelectReady(r) \/ SelectClosed(r) \/ GetReady(r)
                 \/ GetBusy(r) \/ GetClosed(r) \/ GetEmpty(r) \/ ConnectOk(r)
                 \/ (Finish(r) /\ pc[r] # "idle") \/ Response(r)
                 \/ ResponseOnly(r) \/ Upgrade(r) \/ BodyDropped(r)
                 \/ BackendCloses(r)
BY DEF Next, Handle, ConnectFailed, SendFailed, UpgradeEnd, BodyEnd, Timeout

\* The variables keep their types.
LEMMA TypeStep ==
    TypeOK /\ Located /\ [Next]_vars => TypeOK'
<1> SUFFICES ASSUME TypeOK, Located, [Next]_vars PROVE TypeOK'
    OBVIOUS
<1> USE DEF TypeOK, Located, Config, Labels, Goto
<1>1. ASSUME NEW r \in Requests, Arrive(r) PROVE TypeOK'
    BY <1>1, PoolAssumption DEF Arrive
<1>2. ASSUME NEW r \in Requests, Pull(r) PROVE TypeOK'
    BY <1>2, PoolAssumption DEF Pull, Free
<1>3. ASSUME NEW r \in Requests, StartSelect(r) PROVE TypeOK'
    BY <1>3, PoolAssumption DEF StartSelect
<1>4. ASSUME NEW r \in Requests, SelectPull(r) PROVE TypeOK'
    BY <1>4, PoolAssumption DEF SelectPull, Free
<1>5. ASSUME NEW r \in Requests, SelectReady(r) PROVE TypeOK'
    BY <1>5, PoolAssumption DEF SelectReady
<1>6. ASSUME NEW r \in Requests, SelectClosed(r) PROVE TypeOK'
    BY <1>6, PoolAssumption DEF SelectClosed, Reap
<1>7. ASSUME NEW r \in Requests, GetReady(r) PROVE TypeOK'
    BY <1>7, PoolAssumption DEF GetReady
<1>8. ASSUME NEW r \in Requests, GetBusy(r) PROVE TypeOK'
    BY <1>8, PoolAssumption DEF GetBusy
<1>9. ASSUME NEW r \in Requests, GetClosed(r) PROVE TypeOK'
    BY <1>9, PoolAssumption DEF GetClosed, Reap
<1>10. ASSUME NEW r \in Requests, GetEmpty(r) PROVE TypeOK'
    BY <1>10, PoolAssumption DEF GetEmpty
<1>11. ASSUME NEW r \in Requests, ConnectOk(r) PROVE TypeOK'
    BY <1>11, PoolAssumption DEF ConnectOk
<1>12. ASSUME NEW r \in Requests, Finish(r), pc[r] # "idle" PROVE TypeOK'
    BY <1>12, PoolAssumption DEF Finish, Reap
<1>13. ASSUME NEW r \in Requests, Response(r) PROVE TypeOK'
    BY <1>13, PoolAssumption DEF Response
<1>14. ASSUME NEW r \in Requests, ResponseOnly(r) PROVE TypeOK'
    BY <1>14, PoolAssumption DEF ResponseOnly, Reap
<1>15. ASSUME NEW r \in Requests, Upgrade(r) PROVE TypeOK'
    BY <1>15, PoolAssumption DEF Upgrade
<1>16. ASSUME NEW r \in Requests, BodyDropped(r) PROVE TypeOK'
    BY <1>16, PoolAssumption DEF BodyDropped, Reap
<1>17. ASSUME NEW r \in Requests, BackendCloses(r) PROVE TypeOK'
    BY <1>17, PoolAssumption DEF BackendCloses
<1>18. CASE UNCHANGED vars
    BY <1>18 DEF vars
<1> QED
    BY ActionCases, <1>1, <1>2, <1>3, <1>4, <1>5, <1>6, <1>7, <1>8, <1>9,
       <1>10, <1>11, <1>12, <1>13, <1>14, <1>15, <1>16, <1>17, <1>18

\* An item that is pulled was free, and one that is set aside is let go.
LEMMA ItemStep ==
    TypeOK /\ Located /\ ItemInOnePlace /\ [Next]_vars => ItemInOnePlace'
<1> SUFFICES ASSUME TypeOK, Located, ItemInOnePlace, [Next]_vars PROVE ItemInOnePlace'
    OBVIOUS
<1> USE DEF TypeOK, Located, ItemInOnePlace, Config, Labels, Goto
<1>1. ASSUME NEW r \in Requests, Arrive(r) PROVE ItemInOnePlace'
    BY <1>1, PoolAssumption DEF Arrive
<1>2. ASSUME NEW r \in Requests, Pull(r) PROVE ItemInOnePlace'
    BY <1>2, PoolAssumption DEF Pull, Free
<1>3. ASSUME NEW r \in Requests, StartSelect(r) PROVE ItemInOnePlace'
    BY <1>3, PoolAssumption DEF StartSelect
<1>4. ASSUME NEW r \in Requests, SelectPull(r) PROVE ItemInOnePlace'
    BY <1>4, PoolAssumption DEF SelectPull, Free
<1>5. ASSUME NEW r \in Requests, SelectReady(r) PROVE ItemInOnePlace'
    BY <1>5, PoolAssumption DEF SelectReady
<1>6. ASSUME NEW r \in Requests, SelectClosed(r) PROVE ItemInOnePlace'
    BY <1>6, PoolAssumption DEF SelectClosed, Reap
<1>7. ASSUME NEW r \in Requests, GetReady(r) PROVE ItemInOnePlace'
    BY <1>7, PoolAssumption DEF GetReady
<1>8. ASSUME NEW r \in Requests, GetBusy(r) PROVE ItemInOnePlace'
    BY <1>8, PoolAssumption DEF GetBusy
<1>9. ASSUME NEW r \in Requests, GetClosed(r) PROVE ItemInOnePlace'
    BY <1>9, PoolAssumption DEF GetClosed, Reap
<1>10. ASSUME NEW r \in Requests, GetEmpty(r) PROVE ItemInOnePlace'
    BY <1>10, PoolAssumption DEF GetEmpty
<1>11. ASSUME NEW r \in Requests, ConnectOk(r) PROVE ItemInOnePlace'
    BY <1>11, PoolAssumption DEF ConnectOk
<1>12. ASSUME NEW r \in Requests, Finish(r), pc[r] # "idle" PROVE ItemInOnePlace'
    BY <1>12, PoolAssumption DEF Finish, Reap
<1>13. ASSUME NEW r \in Requests, Response(r) PROVE ItemInOnePlace'
    BY <1>13, PoolAssumption DEF Response
<1>14. ASSUME NEW r \in Requests, ResponseOnly(r) PROVE ItemInOnePlace'
    BY <1>14, PoolAssumption DEF ResponseOnly, Reap
<1>15. ASSUME NEW r \in Requests, Upgrade(r) PROVE ItemInOnePlace'
    BY <1>15, PoolAssumption DEF Upgrade
<1>16. ASSUME NEW r \in Requests, BodyDropped(r) PROVE ItemInOnePlace'
    BY <1>16, PoolAssumption DEF BodyDropped, Reap
<1>17. ASSUME NEW r \in Requests, BackendCloses(r) PROVE ItemInOnePlace'
    BY <1>17, PoolAssumption DEF BackendCloses
<1>18. CASE UNCHANGED vars
    BY <1>18 DEF vars
<1> QED
    BY ActionCases, <1>1, <1>2, <1>3, <1>4, <1>5, <1>6, <1>7, <1>8, <1>9,
       <1>10, <1>11, <1>12, <1>13, <1>14, <1>15, <1>16, <1>17, <1>18

\* A step changes what the request itself has, and the content of no other
\* request's item.
LEMMA LocatedStep ==
    TypeOK /\ ItemInOnePlace /\ Located /\ [Next]_vars => Located'
<1> SUFFICES ASSUME TypeOK, ItemInOnePlace, Located, [Next]_vars PROVE Located'
    OBVIOUS
<1> USE DEF TypeOK, ItemInOnePlace, Located, Config, Labels, Goto
<1>1. ASSUME NEW r \in Requests, Arrive(r) PROVE Located'
    BY <1>1, PoolAssumption DEF Arrive
<1>2. ASSUME NEW r \in Requests, Pull(r) PROVE Located'
    BY <1>2, PoolAssumption DEF Pull, Free
<1>3. ASSUME NEW r \in Requests, StartSelect(r) PROVE Located'
    BY <1>3, PoolAssumption DEF StartSelect
<1>4. ASSUME NEW r \in Requests, SelectPull(r) PROVE Located'
    BY <1>4, PoolAssumption DEF SelectPull, Free
<1>5. ASSUME NEW r \in Requests, SelectReady(r) PROVE Located'
    BY <1>5, PoolAssumption DEF SelectReady
<1>6. ASSUME NEW r \in Requests, SelectClosed(r) PROVE Located'
    BY <1>6, PoolAssumption DEF SelectClosed, Reap
<1>7. ASSUME NEW r \in Requests, GetReady(r) PROVE Located'
    BY <1>7, PoolAssumption DEF GetReady, Ready
<1>8. ASSUME NEW r \in Requests, GetBusy(r) PROVE Located'
    BY <1>8, PoolAssumption DEF GetBusy
<1>9. ASSUME NEW r \in Requests, GetClosed(r) PROVE Located'
    BY <1>9, PoolAssumption DEF GetClosed, Reap
<1>10. ASSUME NEW r \in Requests, GetEmpty(r) PROVE Located'
    BY <1>10, PoolAssumption DEF GetEmpty
<1>11. ASSUME NEW r \in Requests, ConnectOk(r) PROVE Located'
    BY <1>11, PoolAssumption DEF ConnectOk
<1>12. ASSUME NEW r \in Requests, Finish(r), pc[r] # "idle" PROVE Located'
    BY <1>12, PoolAssumption DEF Finish, Reap
<1>13. ASSUME NEW r \in Requests, Response(r) PROVE Located'
    BY <1>13, PoolAssumption DEF Response, Stores, KeepsItem
<1>14. ASSUME NEW r \in Requests, ResponseOnly(r) PROVE Located'
    BY <1>14, PoolAssumption DEF ResponseOnly, Reap, Stores
<1>15. ASSUME NEW r \in Requests, Upgrade(r) PROVE Located'
    BY <1>15, PoolAssumption DEF Upgrade
<1>16. ASSUME NEW r \in Requests, BodyDropped(r) PROVE Located'
    BY <1>16, PoolAssumption DEF BodyDropped, Reap
<1>17. ASSUME NEW r \in Requests, BackendCloses(r) PROVE Located'
    BY <1>17, PoolAssumption DEF BackendCloses
<1>18. CASE UNCHANGED vars
    BY <1>18 DEF vars
<1> QED
    BY ActionCases, <1>1, <1>2, <1>3, <1>4, <1>5, <1>6, <1>7, <1>8, <1>9,
       <1>10, <1>11, <1>12, <1>13, <1>14, <1>15, <1>16, <1>17, <1>18

\* Only connecting makes a connection.
LEMMA NotMadeStep ==
    TypeOK /\ Located /\ NotMade /\ [Next]_vars => NotMade'
<1> SUFFICES ASSUME TypeOK, Located, NotMade, [Next]_vars PROVE NotMade'
    OBVIOUS
<1> USE DEF TypeOK, Located, NotMade, Early, Config, Labels, Goto
<1>1. ASSUME NEW r \in Requests, Arrive(r) PROVE NotMade'
    BY <1>1, PoolAssumption DEF Arrive
<1>2. ASSUME NEW r \in Requests, Pull(r) PROVE NotMade'
    BY <1>2, PoolAssumption DEF Pull, Free
<1>3. ASSUME NEW r \in Requests, StartSelect(r) PROVE NotMade'
    BY <1>3, PoolAssumption DEF StartSelect
<1>4. ASSUME NEW r \in Requests, SelectPull(r) PROVE NotMade'
    BY <1>4, PoolAssumption DEF SelectPull, Free
<1>5. ASSUME NEW r \in Requests, SelectReady(r) PROVE NotMade'
    BY <1>5, PoolAssumption DEF SelectReady
<1>6. ASSUME NEW r \in Requests, SelectClosed(r) PROVE NotMade'
    BY <1>6, PoolAssumption DEF SelectClosed, Reap
<1>7. ASSUME NEW r \in Requests, GetReady(r) PROVE NotMade'
    BY <1>7, PoolAssumption DEF GetReady
<1>8. ASSUME NEW r \in Requests, GetBusy(r) PROVE NotMade'
    BY <1>8, PoolAssumption DEF GetBusy
<1>9. ASSUME NEW r \in Requests, GetClosed(r) PROVE NotMade'
    BY <1>9, PoolAssumption DEF GetClosed, Reap
<1>10. ASSUME NEW r \in Requests, GetEmpty(r) PROVE NotMade'
    BY <1>10, PoolAssumption DEF GetEmpty
<1>11. ASSUME NEW r \in Requests, ConnectOk(r) PROVE NotMade'
    BY <1>11, PoolAssumption DEF ConnectOk
<1>12. ASSUME NEW r \in Requests, Finish(r), pc[r] # "idle" PROVE NotMade'
    BY <1>12, PoolAssumption DEF Finish, Reap
<1>13. ASSUME NEW r \in Requests, Response(r) PROVE NotMade'
    BY <1>13, PoolAssumption DEF Response, Stores, KeepsItem
<1>14. ASSUME NEW r \in Requests, ResponseOnly(r) PROVE NotMade'
    BY <1>14, PoolAssumption DEF ResponseOnly, Reap, Stores
<1>15. ASSUME NEW r \in Requests, Upgrade(r) PROVE NotMade'
    BY <1>15, PoolAssumption DEF Upgrade
<1>16. ASSUME NEW r \in Requests, BodyDropped(r) PROVE NotMade'
    BY <1>16, PoolAssumption DEF BodyDropped, Reap
<1>17. ASSUME NEW r \in Requests, BackendCloses(r) PROVE NotMade'
    BY <1>17, PoolAssumption DEF BackendCloses
<1>18. CASE UNCHANGED vars
    BY <1>18 DEF vars
<1> QED
    BY ActionCases, <1>1, <1>2, <1>3, <1>4, <1>5, <1>6, <1>7, <1>8, <1>9,
       <1>10, <1>11, <1>12, <1>13, <1>14, <1>15, <1>16, <1>17, <1>18

\* A sender leaves its item when it is used, and goes into an empty one.
LEMMA SenderStep ==
    TypeOK /\ Located /\ ItemInOnePlace /\ NotMade /\ SenderInOnePlace /\ [Next]_vars => SenderInOnePlace'
<1> SUFFICES ASSUME TypeOK, Located, ItemInOnePlace, NotMade, SenderInOnePlace, [Next]_vars
             PROVE  SenderInOnePlace'
    OBVIOUS
<1> USE DEF TypeOK, Located, ItemInOnePlace, NotMade, Early, SenderInOnePlace, Config, Labels, Goto
<1>1. ASSUME NEW r \in Requests, Arrive(r) PROVE SenderInOnePlace'
    BY <1>1, PoolAssumption DEF Arrive
<1>2. ASSUME NEW r \in Requests, Pull(r) PROVE SenderInOnePlace'
    BY <1>2, PoolAssumption DEF Pull, Free
<1>3. ASSUME NEW r \in Requests, StartSelect(r) PROVE SenderInOnePlace'
    BY <1>3, PoolAssumption DEF StartSelect
<1>4. ASSUME NEW r \in Requests, SelectPull(r) PROVE SenderInOnePlace'
    BY <1>4, PoolAssumption DEF SelectPull, Free
<1>5. ASSUME NEW r \in Requests, SelectReady(r) PROVE SenderInOnePlace'
    BY <1>5, PoolAssumption DEF SelectReady
<1>6. ASSUME NEW r \in Requests, SelectClosed(r) PROVE SenderInOnePlace'
    BY <1>6, PoolAssumption DEF SelectClosed, Reap
<1>7. ASSUME NEW r \in Requests, GetReady(r) PROVE SenderInOnePlace'
    BY <1>7, PoolAssumption DEF GetReady, Ready
<1>8. ASSUME NEW r \in Requests, GetBusy(r) PROVE SenderInOnePlace'
    BY <1>8, PoolAssumption DEF GetBusy
<1>9. ASSUME NEW r \in Requests, GetClosed(r) PROVE SenderInOnePlace'
    BY <1>9, PoolAssumption DEF GetClosed, Reap
<1>10. ASSUME NEW r \in Requests, GetEmpty(r) PROVE SenderInOnePlace'
    BY <1>10, PoolAssumption DEF GetEmpty
<1>11. ASSUME NEW r \in Requests, ConnectOk(r) PROVE SenderInOnePlace'
    BY <1>11, PoolAssumption DEF ConnectOk
<1>12. ASSUME NEW r \in Requests, Finish(r), pc[r] # "idle" PROVE SenderInOnePlace'
    BY <1>12, PoolAssumption DEF Finish, Reap
<1>13. ASSUME NEW r \in Requests, Response(r) PROVE SenderInOnePlace'
    BY <1>13, PoolAssumption DEF Response, Stores, KeepsItem
<1>14. ASSUME NEW r \in Requests, ResponseOnly(r) PROVE SenderInOnePlace'
    BY <1>14, PoolAssumption DEF ResponseOnly, Reap, Stores
<1>15. ASSUME NEW r \in Requests, Upgrade(r) PROVE SenderInOnePlace'
    BY <1>15, PoolAssumption DEF Upgrade
<1>16. ASSUME NEW r \in Requests, BodyDropped(r) PROVE SenderInOnePlace'
    BY <1>16, PoolAssumption DEF BodyDropped, Reap
<1>17. ASSUME NEW r \in Requests, BackendCloses(r) PROVE SenderInOnePlace'
    BY <1>17, PoolAssumption DEF BackendCloses
<1>18. CASE UNCHANGED vars
    BY <1>18 DEF vars
<1> QED
    BY ActionCases, <1>1, <1>2, <1>3, <1>4, <1>5, <1>6, <1>7, <1>8, <1>9,
       <1>10, <1>11, <1>12, <1>13, <1>14, <1>15, <1>16, <1>17, <1>18

\* A connection is used when it is new, or ready.
LEMMA ExchangeStep ==
    TypeOK /\ Located /\ NotMade /\ OneExchange /\ [Next]_vars => OneExchange'
<1> SUFFICES ASSUME TypeOK, Located, NotMade, OneExchange, [Next]_vars PROVE OneExchange'
    OBVIOUS
<1> USE DEF TypeOK, Located, NotMade, Early, OneExchange, Config, Labels, Goto
<1>1. ASSUME NEW r \in Requests, Arrive(r) PROVE OneExchange'
    BY <1>1, PoolAssumption DEF Arrive
<1>2. ASSUME NEW r \in Requests, Pull(r) PROVE OneExchange'
    BY <1>2, PoolAssumption DEF Pull, Free
<1>3. ASSUME NEW r \in Requests, StartSelect(r) PROVE OneExchange'
    BY <1>3, PoolAssumption DEF StartSelect
<1>4. ASSUME NEW r \in Requests, SelectPull(r) PROVE OneExchange'
    BY <1>4, PoolAssumption DEF SelectPull, Free
<1>5. ASSUME NEW r \in Requests, SelectReady(r) PROVE OneExchange'
    BY <1>5, PoolAssumption DEF SelectReady
<1>6. ASSUME NEW r \in Requests, SelectClosed(r) PROVE OneExchange'
    BY <1>6, PoolAssumption DEF SelectClosed, Reap
<1>7. ASSUME NEW r \in Requests, GetReady(r) PROVE OneExchange'
    BY <1>7, PoolAssumption DEF GetReady, Ready
<1>8. ASSUME NEW r \in Requests, GetBusy(r) PROVE OneExchange'
    BY <1>8, PoolAssumption DEF GetBusy
<1>9. ASSUME NEW r \in Requests, GetClosed(r) PROVE OneExchange'
    BY <1>9, PoolAssumption DEF GetClosed, Reap
<1>10. ASSUME NEW r \in Requests, GetEmpty(r) PROVE OneExchange'
    BY <1>10, PoolAssumption DEF GetEmpty
<1>11. ASSUME NEW r \in Requests, ConnectOk(r) PROVE OneExchange'
    BY <1>11, PoolAssumption DEF ConnectOk
<1>12. ASSUME NEW r \in Requests, Finish(r), pc[r] # "idle" PROVE OneExchange'
    BY <1>12, PoolAssumption DEF Finish, Reap
<1>13. ASSUME NEW r \in Requests, Response(r) PROVE OneExchange'
    BY <1>13, PoolAssumption DEF Response, Stores, KeepsItem
<1>14. ASSUME NEW r \in Requests, ResponseOnly(r) PROVE OneExchange'
    BY <1>14, PoolAssumption DEF ResponseOnly, Reap, Stores
<1>15. ASSUME NEW r \in Requests, Upgrade(r) PROVE OneExchange'
    BY <1>15, PoolAssumption DEF Upgrade
<1>16. ASSUME NEW r \in Requests, BodyDropped(r) PROVE OneExchange'
    BY <1>16, PoolAssumption DEF BodyDropped, Reap
<1>17. ASSUME NEW r \in Requests, BackendCloses(r) PROVE OneExchange'
    BY <1>17, PoolAssumption DEF BackendCloses
<1>18. CASE UNCHANGED vars
    BY <1>18 DEF vars
<1> QED
    BY ActionCases, <1>1, <1>2, <1>3, <1>4, <1>5, <1>6, <1>7, <1>8, <1>9,
       <1>10, <1>11, <1>12, <1>13, <1>14, <1>15, <1>16, <1>17, <1>18

\* A connection goes from its item to the request that has the item and back,
\* or is closed.
LEMMA CoveredStep ==
    TypeOK /\ Located /\ ItemInOnePlace /\ SenderInOnePlace /\ OneExchange /\ Covered
    /\ [Next]_vars => Covered'
<1> SUFFICES ASSUME TypeOK, Located, ItemInOnePlace, SenderInOnePlace, OneExchange, Covered,
                    [Next]_vars
             PROVE  Covered'
    OBVIOUS
<1> USE DEF TypeOK, Located, ItemInOnePlace, SenderInOnePlace, OneExchange, Covered, CountsFor,
           Config, Labels, Goto
<1>1. ASSUME NEW r \in Requests, Arrive(r) PROVE Covered'
    BY <1>1, PoolAssumption DEF Arrive
<1>2. ASSUME NEW r \in Requests, Pull(r) PROVE Covered'
    BY <1>2, PoolAssumption DEF Pull, Free
<1>3. ASSUME NEW r \in Requests, StartSelect(r) PROVE Covered'
    BY <1>3, PoolAssumption DEF StartSelect
<1>4. ASSUME NEW r \in Requests, SelectPull(r) PROVE Covered'
    BY <1>4, PoolAssumption DEF SelectPull, Free
<1>5. ASSUME NEW r \in Requests, SelectReady(r) PROVE Covered'
    BY <1>5, PoolAssumption DEF SelectReady
<1>6. ASSUME NEW r \in Requests, SelectClosed(r) PROVE Covered'
    BY <1>6, PoolAssumption DEF SelectClosed, IdleOrClosed, Ready, Reap
<1>7. ASSUME NEW r \in Requests, GetReady(r) PROVE Covered'
    BY <1>7, PoolAssumption DEF GetReady, Ready
<1>8. ASSUME NEW r \in Requests, GetBusy(r) PROVE Covered'
    BY <1>8, PoolAssumption DEF GetBusy
<1>9. ASSUME NEW r \in Requests, GetClosed(r) PROVE Covered'
    BY <1>9, PoolAssumption DEF GetClosed, IdleOrClosed, Ready, Reap
<1>10. ASSUME NEW r \in Requests, GetEmpty(r) PROVE Covered'
    BY <1>10, PoolAssumption DEF GetEmpty
<1>11. ASSUME NEW r \in Requests, ConnectOk(r) PROVE Covered'
    BY <1>11, PoolAssumption DEF ConnectOk
<1>12. ASSUME NEW r \in Requests, Finish(r), pc[r] # "idle" PROVE Covered'
    BY <1>12, PoolAssumption DEF Finish, Reap
<1>13. ASSUME NEW r \in Requests, Response(r) PROVE Covered'
    BY <1>13, PoolAssumption DEF Response, Stores, KeepsItem
<1>14. ASSUME NEW r \in Requests, ResponseOnly(r) PROVE Covered'
    BY <1>14, PoolAssumption DEF ResponseOnly, Reap, Stores
<1>15. ASSUME NEW r \in Requests, Upgrade(r) PROVE Covered'
    BY <1>15, PoolAssumption DEF Upgrade
<1>16. ASSUME NEW r \in Requests, BodyDropped(r) PROVE Covered'
    BY <1>16, PoolAssumption DEF BodyDropped, Reap
<1>17. ASSUME NEW r \in Requests, BackendCloses(r) PROVE Covered'
    BY <1>17, PoolAssumption DEF BackendCloses
<1>18. CASE UNCHANGED vars
    BY <1>18 DEF vars
<1> QED
    BY ActionCases, <1>1, <1>2, <1>3, <1>4, <1>5, <1>6, <1>7, <1>8, <1>9,
       <1>10, <1>11, <1>12, <1>13, <1>14, <1>15, <1>16, <1>17, <1>18

-----------------------------------------------------------------------------
\* The inductive invariant: none of the properties is inductive by itself.
IInv ==
    /\ TypeOK /\ Located /\ ItemInOnePlace
    /\ NotMade /\ SenderInOnePlace /\ OneExchange /\ Covered

\* It holds at the beginning, where the pool is empty, and every step keeps it.
LEMMA PoolInvariant == Spec => []IInv
<1>1. Init => IInv
    BY PoolAssumption DEF PoolAssumption, Config, Init, IInv, TypeOK, Labels, Located, ItemInOnePlace,
       NotMade, SenderInOnePlace, OneExchange, Covered
<1>2. IInv /\ [Next]_vars => IInv'
    BY TypeStep, LocatedStep, ItemStep, NotMadeStep, SenderStep, ExchangeStep, CoveredStep DEF IInv
<1> QED
    BY <1>1, <1>2, PTL DEF Spec

\* The pool and its requests keep their types.
THEOREM PoolTypes == Spec => []TypeOK
<1>1. IInv => TypeOK
    BY DEF IInv
<1> QED
    BY <1>1, PoolInvariant, PTL

\* However items move between requests, busy lists and the pool (the loop of
\* request_handler that pulls items), each is in one place.
THEOREM ItemsInOnePlace == Spec => []ItemInOnePlace
<1>1. IInv => ItemInOnePlace
    BY DEF IInv
<1> QED
    BY <1>1, PoolInvariant, PTL

\* A sender that was taken from an item (SendRequestWrapper::get) is nowhere
\* else until it is stored again, in one item.
THEOREM SendersInOnePlace == Spec => []SenderInOnePlace
<1>1. IInv => SenderInOnePlace
    BY DEF IInv
<1> QED
    BY <1>1, PoolInvariant, PTL

\* No two exchanges run on one HTTP/1 connection, although its sender is stored
\* before its response has been streamed.
THEOREM ExchangesApart == Spec => []OneExchange
<1>1. IInv => OneExchange
    BY DEF IInv
<1> QED
    BY <1>1, PoolInvariant, PTL

\* The connection limit: two open connections do not count for one item.
LEMMA CoveredWithinLimit ==
    ASSUME IInv PROVE LimitKept
<1> SUFFICES ASSUME ~cfg.h2, cfg.keepalive \/ cfg.tracked
             PROVE  Cardinality(open) <= Cardinality(Slots)
    BY DEF LimitKept
<1> DEFINE f == [c \in open |-> CHOOSE s \in Slots : CountsFor(c, s)]
<1>1. \A c \in open : f[c] \in Slots /\ CountsFor(c, f[c])
    BY DEF IInv, Covered
<1>2. ASSUME NEW c \in open, NEW d \in open, NEW s \in Slots, CountsFor(c, s), CountsFor(d, s)
      PROVE  c = d
    BY <1>2, PoolAssumption
       DEF PoolAssumption, IInv, CountsFor, TypeOK, Labels, Located, ItemInOnePlace, SenderInOnePlace
<1>3. f \in Injection(open, Slots)
    <2>1. f \in [open -> Slots]
        BY <1>1
    <2>2. \A c, d \in open : f[c] = f[d] => c = d
        BY <1>1, <1>2
    <2> QED
        BY <2>1, <2>2 DEF Injection, IsInjective
<1>4. IsFiniteSet(Slots)
    BY PoolAssumption DEF PoolAssumption
<1> QED
    BY <1>3, <1>4, FS_Injection

\* With HTTP/1, and with keep-alive or a tracked connection (the item then stays
\* with the body), there are never more connections than items.
THEOREM LimitHolds == Spec => []LimitKept
<1>1. IInv => LimitKept
    BY CoveredWithinLimit
<1> QED
    BY <1>1, PoolInvariant, PTL

\* An open connection that is streaming stays in its item: what is thrown out is
\* closed, or ready and so without an exchange.
THEOREM BusyConnectionsStay == Spec => BusyConnectionKept
<1> DEFINE Kept == \A s \in Slots : inner[s] \in open /\ ~Ready(inner[s]) => inner'[s] = inner[s]
<1>1. IInv /\ [Next]_vars => [Kept]_vars
    <2> SUFFICES ASSUME IInv, [Next]_vars PROVE Kept
        OBVIOUS
    <2> USE PoolAssumption DEF PoolAssumption, IInv, TypeOK, Labels, Located
    <2>1. ASSUME NEW r \in Requests,
                 \/ Arrive(r) \/ Pull(r) \/ StartSelect(r) \/ SelectPull(r) \/ SelectReady(r)
                 \/ GetBusy(r) \/ GetEmpty(r) \/ ConnectOk(r) \/ Finish(r) \/ Upgrade(r)
                 \/ BodyDropped(r) \/ BackendCloses(r)
          PROVE  Kept
        BY <2>1 DEF Arrive, Pull, StartSelect, SelectPull, SelectReady, GetBusy, GetEmpty, ConnectOk, Finish,
           Upgrade, BodyDropped, BackendCloses
    <2>2. ASSUME NEW r \in Requests, SelectClosed(r) \/ GetClosed(r) PROVE Kept
        BY <2>2 DEF SelectClosed, GetClosed, IdleOrClosed
    <2>3. ASSUME NEW r \in Requests, GetReady(r) PROVE Kept
        BY <2>3 DEF GetReady
    <2>4. ASSUME NEW r \in Requests, Response(r) \/ ResponseOnly(r) PROVE Kept
        BY <2>4 DEF Response, ResponseOnly
    <2>5. CASE UNCHANGED vars
        BY <2>5 DEF vars
    <2> QED
        BY <2>1, <2>2, <2>3, <2>4, <2>5, ActionCases
<1> QED
    BY <1>1, PoolInvariant, PTL DEF Spec, BusyConnectionKept
=============================================================================
