----------------------- MODULE RequestPipelineProofs -----------------------
(***************************************************************************)
(* The path of a request through any number of modules: what the response  *)
(* goes through, which metrics are closed, what is logged and which error  *)
(* pages are replaced, for every configuration and every behaviour of the  *)
(* modules.                                                                *)
(***************************************************************************)
EXTENDS RequestPipeline, SequenceTheorems, TLAPS

Before == {"host", "sanitize", "enter"}
Handling == {"modules", "handling"}

TypeInv ==
    /\ cfg \in Setting
    /\ pc \in Before \cup Handling \cup {"modifying", "end"}
    /\ conf \in Confs
    /\ parts \in BOOLEAN
    /\ next \in Nat \ {0}
    /\ executed \in Seq(Handlers)
    /\ isError \in BOOLEAN
    /\ opened \subseteq Handlers
    /\ closed \in [Handlers -> Nat]
    /\ modified \in Seq(Handlers)
    /\ logs \in Nat
    /\ result \in {"none", "response", "timeout", "dropped"}
    /\ ran \in [Confs -> Seq(Handlers)]
    /\ stuck \in Handlers \cup {NoHandler}

\* Where a request is: nothing has run before the modules, the configuration is
\* the error one exactly when it was entered, the module in hand exists, and
\* the handlers that ran are the first modules of the configuration.
Progress ==
    /\ pc = "end" <=> result # "none"
    /\ pc = "host" => conf = "global"
    /\ pc # "host" /\ pc # "end" => conf # "global"
    /\ pc \in Before => executed = << >> /\ next = 1 /\ ~isError
    /\ isError <=> conf = "error"
    /\ pc = "handling" => next <= Size(conf)
    /\ \A i \in 1..Len(executed) : executed[i] = <<conf, i>>
    /\ pc \in Handling => Len(executed) + 1 = next
    /\ result \in {"response", "timeout"} => executed = << >>
    /\ pc # "end" => stuck = NoHandler

\* The response has gone through a suffix of the modules that ran, backwards;
\* the others are still to come.
Chain ==
    /\ pc \in Before => \A c \in Confs : ran[c] = << >>
    /\ ~isError => ran["error"] = << >>
    /\ pc \in Before \cup Handling => modified = << >>
    /\ pc \in Handling \cup {"modifying"} =>
          /\ Len(ran[conf]) = Len(executed) + Len(modified)
          /\ \A i \in 1..Len(executed) : ran[conf][i] = executed[i]
          /\ \A i \in 1..Len(modified) : modified[i] = ran[conf][Len(ran[conf]) + 1 - i]

\* Metrics are closed once, and only after they were opened.
ClosedOnce ==
    \A h \in Handlers : closed[h] <= 1 /\ (closed[h] = 1 => h \in opened)

\* The modules in hand: those that were executed and have not seen the response,
\* and the one that is running.
Reached == IF pc = "handling" THEN next ELSE Len(executed)
InHand(h) == h[1] = conf /\ h[2] <= Reached

\* Metrics that are open belong to a module in hand or to the one that did not
\* hand the response on.
OpenInHand ==
    \A h \in opened : closed[h] = 0 => h = stuck \/ result = "dropped" \/ InHand(h)

\* The other way round, the metrics of the modules in hand are open.
InHandOpen ==
    /\ pc # "end" => \A h \in Handlers : InHand(h) =>
          closed[h] = 0 /\ (h \in opened <=> MetricsEnabled)
    /\ stuck # NoHandler => closed[stuck] = 0

\* The metrics of modules to come have not been opened.
NotYetOpened ==
    /\ pc \in Before => opened = {}
    /\ \A h \in opened : h[1] = "error" => isError
    /\ pc \in Handling => \A h \in opened : h[1] = conf => InHand(h)

\* The request parts are kept for the log by the configuration found first, and
\* nothing is logged before the end.
Logging ==
    /\ pc \notin {"host", "end"} => (parts <=> {"global", "raw"} \cap cfg.log # {})
    /\ result # "response" => logs = 0

\* No response so far is the default page of a status with an error
\* configuration.
NotHandled == response \notin cfg.handled

IInv ==
    /\ TypeInv
    /\ Progress
    /\ Chain /\ ResponseChain
    /\ ClosedOnce /\ OpenInHand /\ InHandOpen /\ NotYetOpened
    /\ Logging /\ LoggedOnce
    /\ NotHandled

-----------------------------------------------------------------------------
\* The responses a module's request_handler can lead to.
Replies == Statuses \cup {"module", "failure", "not found", "error page"}

\* The steps of the specification; all that answer differ in the response only.
LEMMA ActionCases ==
    ASSUME [Next]_vars
    PROVE  \/ UNCHANGED vars
           \/ RejectHost \/ NoConfiguration \/ FindConfiguration
           \/ AnswerEarly \/ Sanitize \/ EnterModules \/ StartHandler
           \/ NoModuleLeft \/ HandlerPasses \/ EnterError \/ HandlerTimeout
           \/ Modify \/ ModifyFails \/ ModifyTimeout \/ Answer
           \/ ClientGone \/ Tick
           \/ \E r \in Replies :
                 \/ Answers(r)
BY DEF Next, ServerStep, ModuleStep, HandlerResponds, HandlerFails, HandlerDrops,
       HandlerStatus, Replies

LEMMA Sizes == SiteModules \in Nat /\ ErrorModules \in Nat
BY PipelineAssumption

\* A module that runs is a handler of the configuration's modules.
LEMMA CurrentHandler ==
    ASSUME TypeInv, Progress, pc \in Handling, next <= Size(conf)
    PROVE  Current \in Handlers
<1>1. conf \in {"raw", "site", "error"}
    BY DEF TypeInv, Progress, Confs, Handling
<1>2. next \in Nat \ {0} /\ next <= Size(conf)
    BY DEF TypeInv
<1>3. next \in 1..(SiteModules + ErrorModules)
    BY <1>2, Sizes DEF Size
<1>4. QED
    BY <1>1, <1>3 DEF Current, Handlers

\* The first elements of a sequence.
LEMMA PrefixFacts ==
    ASSUME NEW S, NEW s \in Seq(S), NEW n \in Nat, n <= Len(s)
    PROVE  /\ SubSeq(s, 1, n) \in Seq(S)
           /\ Len(SubSeq(s, 1, n)) = n
           /\ \A i \in 1..n : SubSeq(s, 1, n)[i] = s[i]
<1>1. \A i \in 1..n : s[i] \in S
    OBVIOUS
<1>2. QED
    BY <1>1, SubSeqProperties

\* Taking the last handler off the executed ones.
LEMMA RestFacts ==
    ASSUME TypeInv, executed # << >>
    PROVE  /\ Rest \in Seq(Handlers)
           /\ Len(executed) \in Nat \ {0}
           /\ Len(Rest) = Len(executed) - 1
           /\ \A i \in 1..(Len(executed) - 1) : Rest[i] = executed[i]
           /\ Top = executed[Len(executed)]
           /\ Top \in Handlers
           /\ Elems(Rest) = {executed[i] : i \in 1..(Len(executed) - 1)}
<1>1. executed \in Seq(Handlers)
    BY DEF TypeInv
<1>2. Len(executed) \in Nat \ {0}
    BY <1>1, EmptySeq, LenProperties
<1>3. Len(executed) - 1 \in Nat /\ Len(executed) - 1 <= Len(executed)
    BY <1>2
<1>4. /\ Rest \in Seq(Handlers)
      /\ Len(Rest) = Len(executed) - 1
      /\ \A i \in 1..(Len(executed) - 1) : Rest[i] = executed[i]
    BY <1>1, <1>3, PrefixFacts DEF Rest
<1>5. Top = executed[Len(executed)] /\ Top \in Handlers
    BY <1>1, <1>2 DEF Top
<1>6. QED
    BY <1>2, <1>4, <1>5 DEF Elems

\* The placeholder is not a handler, and a handler is a pair.
LEMMA HandlerPairs ==
    /\ NoHandler \notin Handlers
    /\ \A h \in Handlers : /\ h = <<h[1], h[2]>>
                           /\ h[1] \in {"raw", "site", "error"}
                           /\ h[2] \in Nat \ {0}
BY Sizes DEF NoHandler, Handlers

\* Len(executed) is a number, and the modules in hand are counted by Reached.
LEMMA ReachedFacts ==
    ASSUME TypeInv, Progress
    PROVE  /\ Len(executed) \in Nat
           /\ Reached \in Nat
           /\ next \in Nat \ {0}
           /\ pc \in Before => Reached = 0
           /\ pc = "modules" => Reached + 1 = next
           /\ pc = "handling" => Reached = next
           /\ pc = "modifying" => Reached = Len(executed)
<1>1. Len(executed) \in Nat /\ next \in Nat \ {0}
    BY LenProperties DEF TypeInv
<1>2. QED
    BY <1>1 DEF Reached, Progress, Before, Handling

\* What a module that returns adds to the executed handlers ...
LEMMA JoinFacts ==
    ASSUME TypeInv, Progress, pc = "handling"
    PROVE  /\ Append(executed, Current) \in Seq(Handlers)
           /\ Len(Append(executed, Current)) = next
           /\ \A i \in 1..next : Append(executed, Current)[i] = <<conf, i>>
<1>1. Current \in Handlers
    BY CurrentHandler DEF Progress, Handling
<1>2. executed \in Seq(Handlers) /\ Len(executed) \in Nat /\ Len(executed) + 1 = next
    BY <1>1, ReachedFacts DEF TypeInv, Progress, Handling
<1>3. /\ Append(executed, Current) \in Seq(Handlers)
      /\ Len(Append(executed, Current)) = Len(executed) + 1
      /\ \A i \in 1..Len(executed) : Append(executed, Current)[i] = executed[i]
      /\ Append(executed, Current)[Len(executed) + 1] = Current
    BY <1>1, <1>2, AppendProperties
<1>4. ASSUME NEW i \in 1..next PROVE Append(executed, Current)[i] = <<conf, i>>
  <2>1. CASE i = next
    BY <1>2, <1>3, <2>1 DEF Current
  <2>2. CASE i # next
    <3>1. i \in 1..Len(executed)
        BY <1>2, <2>2
    <3>2. QED
        BY <1>3, <3>1 DEF Progress
  <2>3. QED
    BY <2>1, <2>2
<1>5. QED
    BY <1>2, <1>3, <1>4

\* ... and to those that ran.
LEMMA RanFacts ==
    ASSUME TypeInv, Progress, Returns
    PROVE  /\ ran' \in [Confs -> Seq(Handlers)]
           /\ ran[conf] \in Seq(Handlers) /\ Len(ran[conf]) \in Nat
           /\ Len(ran'[conf]) = Len(ran[conf]) + 1
           /\ \A i \in 1..Len(ran[conf]) : ran'[conf][i] = ran[conf][i]
           /\ ran'[conf][Len(ran[conf]) + 1] = <<conf, next>>
           /\ \A c \in Confs \ {conf} : ran'[c] = ran[c]
<1>1. Current \in Handlers
    BY CurrentHandler DEF Returns, Progress, Handling
<1>2. conf \in Confs /\ ran \in [Confs -> Seq(Handlers)]
    BY DEF TypeInv
<1>3. ran[conf] \in Seq(Handlers) /\ Len(ran[conf]) \in Nat
    BY <1>2, LenProperties
<1>4. /\ Append(ran[conf], Current) \in Seq(Handlers)
      /\ Len(Append(ran[conf], Current)) = Len(ran[conf]) + 1
      /\ \A i \in 1..Len(ran[conf]) : Append(ran[conf], Current)[i] = ran[conf][i]
      /\ Append(ran[conf], Current)[Len(ran[conf]) + 1] = Current
    BY <1>1, <1>3, AppendProperties
<1>5. ran' = [ran EXCEPT ![conf] = Append(ran[conf], Current)]
    BY DEF Returns
<1>6. ran'[conf] = Append(ran[conf], Current) /\ \A c \in Confs \ {conf} : ran'[c] = ran[c]
    BY <1>2, <1>5
<1>7. ran' \in [Confs -> Seq(Handlers)]
    BY <1>2, <1>4, <1>5
<1>8. QED
    BY <1>3, <1>4, <1>6, <1>7 DEF Current

\* The metrics of all modules in hand are closed.
LEMMA CloseAllFacts ==
    ASSUME TypeInv, Progress, pc = "handling", Close(Elems(Append(executed, Current)))
    PROVE  /\ closed' \in [Handlers -> Nat]
           /\ \A h \in Handlers :
                 closed'[h] = IF MetricsEnabled /\ InHand(h) THEN closed[h] + 1 ELSE closed[h]
<1>1. Reached = next /\ next \in Nat
    BY ReachedFacts
<1>2. Elems(Append(executed, Current)) = {<<conf, i>> : i \in 1..next}
  <2>1. /\ Len(Append(executed, Current)) = next
        /\ \A i \in 1..next : Append(executed, Current)[i] = <<conf, i>>
    BY JoinFacts
  <2>2. QED
    BY <2>1 DEF Elems
<1>3. \A h \in Handlers : InHand(h) <=> h \in Elems(Append(executed, Current))
    BY <1>1, <1>2, HandlerPairs DEF InHand
<1>4. closed \in [Handlers -> Nat]
    BY DEF TypeInv
<1>5. QED
    BY <1>3, <1>4 DEF Close

\* The module the response is with, and the ones before it.
LEMMA LastFacts ==
    ASSUME TypeInv, Progress, pc = "modifying", executed # << >>
    PROVE  /\ Reached \in Nat \ {0}
           /\ Top \in Handlers /\ Top = <<conf, Reached>>
           /\ \A h \in Handlers : h \in Elems(Rest) <=> InHand(h) /\ h # Top
<1>1. /\ Rest \in Seq(Handlers) /\ Top \in Handlers
      /\ Len(executed) \in Nat \ {0}
      /\ Len(Rest) = Len(executed) - 1
      /\ \A i \in 1..(Len(executed) - 1) : Rest[i] = executed[i]
      /\ Top = executed[Len(executed)]
    BY RestFacts
<1>2. Reached = Len(executed)
    BY ReachedFacts
<1>3. \A i \in 1..Len(executed) : executed[i] = <<conf, i>>
    BY DEF Progress
<1>4. Elems(Rest) = {<<conf, i>> : i \in 1..(Len(executed) - 1)}
  <2>1. \A i \in 1..(Len(executed) - 1) : Rest[i] = <<conf, i>>
    BY <1>1, <1>3
  <2>2. QED
    BY <1>1, <2>1 DEF Elems
<1>5. Top = <<conf, Reached>>
    BY <1>1, <1>2, <1>3
<1>6. ASSUME NEW h \in Handlers PROVE h \in Elems(Rest) <=> InHand(h) /\ h # Top
    BY <1>1, <1>2, <1>4, <1>5, HandlerPairs DEF InHand
<1>7. QED
    BY <1>1, <1>2, <1>5, <1>6


\* The variables keep their types.
LEMMA TypeStep ==
    TypeInv /\ Progress /\ [Next]_vars => TypeInv'
<1> SUFFICES ASSUME TypeInv, Progress, [Next]_vars PROVE TypeInv'
    OBVIOUS
<1>1. ASSUME \/ UNCHANGED vars
             \/ Tick
      PROVE  UNCHANGED <<cfg, pc, conf, parts, next, executed, isError, opened, closed, modified, logs, result, ran, stuck>>
    BY <1>1 DEF vars, metrics, history, Tick
<1>2. ASSUME UNCHANGED <<cfg, pc, conf, parts, next, executed, isError, opened, closed, modified, logs, result, ran, stuck>> PROVE TypeInv'
    BY <1>2 DEF TypeInv, Before, Handling, Confs
<1>3. ASSUME RejectHost PROVE TypeInv'
    BY <1>3 DEF TypeInv, Before, Handling, Confs, RejectHost, LogGlobal,
       End, metrics, history
<1>4. ASSUME NoConfiguration PROVE TypeInv'
    BY <1>4 DEF TypeInv, Before, Handling, Confs, NoConfiguration,
       LogGlobal, End, metrics, history
<1>5. ASSUME FindConfiguration PROVE TypeInv'
    BY <1>5 DEF TypeInv, Before, Handling, Confs, FindConfiguration,
       metrics, history
<1>6. ASSUME AnswerEarly PROVE TypeInv'
    BY <1>6 DEF TypeInv, Before, Handling, Confs, AnswerEarly, LogAccess,
       End, metrics, history
<1>7. ASSUME Sanitize PROVE TypeInv'
    BY <1>7 DEF TypeInv, Before, Handling, Confs, Sanitize, metrics,
       history
<1>8. ASSUME EnterModules PROVE TypeInv'
    BY <1>8 DEF TypeInv, Before, Handling, Confs, EnterModules, metrics,
       history
<1>9. ASSUME StartHandler PROVE TypeInv'
    BY <1>9, CurrentHandler DEF StartHandler, TypeInv, Before, Handling, Confs, history
<1>10. ASSUME NoModuleLeft PROVE TypeInv'
    BY <1>10 DEF TypeInv, Before, Handling, Confs, NoModuleLeft, metrics,
       history
<1>11. ASSUME NEW r \in Replies, Answers(r) PROVE TypeInv'
  <2>1. executed' \in Seq(Handlers)
    BY <1>11, JoinFacts DEF Answers, Returns
  <2>2. ran' \in [Confs -> Seq(Handlers)]
    BY <1>11, RanFacts DEF Answers
  <2>3. QED
    BY <1>11, <2>1, <2>2 DEF TypeInv, Before, Handling, Confs, Answers, metrics
<1>12. ASSUME HandlerPasses PROVE TypeInv'
  <2>1. executed' \in Seq(Handlers)
    BY <1>12, JoinFacts DEF HandlerPasses, Returns
  <2>2. ran' \in [Confs -> Seq(Handlers)]
    BY <1>12, RanFacts DEF HandlerPasses
  <2>3. QED
    BY <1>12, <2>1, <2>2 DEF TypeInv, Before, Handling, Confs, HandlerPasses, metrics
<1>13. ASSUME EnterError PROVE TypeInv'
  <2>1. closed' \in [Handlers -> Nat]
    BY <1>13, CloseAllFacts DEF EnterError, Returns
  <2>2. executed' \in Seq(Handlers)
    BY <1>13, EmptySeq DEF EnterError
  <2>3. ran' \in [Confs -> Seq(Handlers)]
    BY <1>13, RanFacts DEF EnterError
  <2>4. QED
    BY <1>13, <2>1, <2>2, <2>3 DEF TypeInv, Before, Handling, Confs, EnterError
<1>14. ASSUME HandlerTimeout PROVE TypeInv'
  <2>1. closed' \in [Handlers -> Nat]
    BY <1>14, CloseAllFacts DEF HandlerTimeout
  <2>2. executed' \in Seq(Handlers)
    BY <1>14, EmptySeq DEF HandlerTimeout
  <2>3. QED
    BY <1>14, <2>1, <2>2 DEF TypeInv, Before, Handling, Confs, HandlerTimeout, End, history
<1>15. ASSUME Modify PROVE TypeInv'
  <2>1. closed' \in [Handlers -> Nat]
    BY <1>15 DEF Modify, Close, TypeInv
  <2>2. executed' \in Seq(Handlers)
    BY <1>15, RestFacts DEF Modify
  <2>3. modified' \in Seq(Handlers)
    BY <1>15, LastFacts, AppendProperties DEF Modify, TypeInv
  <2>4. QED
    BY <1>15, <2>1, <2>2, <2>3 DEF TypeInv, Before, Handling, Confs, Modify, history
<1>16. ASSUME ModifyFails PROVE TypeInv'
  <2>1. closed' \in [Handlers -> Nat]
    BY <1>16 DEF ModifyFails, Close, TypeInv
  <2>2. executed' \in Seq(Handlers)
    BY <1>16, EmptySeq DEF ModifyFails
  <2>3. stuck' \in Handlers
    BY <1>16, LastFacts DEF ModifyFails
  <2>4. logs' \in Nat
    BY <1>16 DEF ModifyFails, LogAccess, TypeInv
  <2>5. QED
    BY <1>16, <2>1, <2>2, <2>3, <2>4 DEF TypeInv, Before, Handling, Confs, ModifyFails, End
<1>17. ASSUME ModifyTimeout PROVE TypeInv'
  <2>1. closed' \in [Handlers -> Nat]
    BY <1>17 DEF ModifyTimeout, Close, TypeInv
  <2>2. executed' \in Seq(Handlers)
    BY <1>17, EmptySeq DEF ModifyTimeout
  <2>3. stuck' \in Handlers
    BY <1>17, LastFacts DEF ModifyTimeout
  <2>4. QED
    BY <1>17, <2>1, <2>2, <2>3 DEF TypeInv, Before, Handling, Confs, ModifyTimeout, End
<1>18. ASSUME Answer PROVE TypeInv'
    BY <1>18 DEF TypeInv, Before, Handling, Confs, Answer, LogAccess, End,
       metrics, history
<1>19. ASSUME ClientGone PROVE TypeInv'
    BY <1>19 DEF TypeInv, Before, Handling, Confs, ClientGone, End,
       metrics, history
<1>20. QED
    BY <1>1, <1>2, <1>3, <1>4, <1>5, <1>6, <1>7, <1>8, <1>9, <1>10, <1>11,
       <1>12, <1>13, <1>14, <1>15, <1>16, <1>17, <1>18, <1>19, ActionCases,
       Zenon

\* The executed handlers are the first of the configuration.
LEMMA ProgressStep ==
    TypeInv /\ Progress /\ [Next]_vars => Progress'
<1> SUFFICES ASSUME TypeInv, Progress, [Next]_vars PROVE Progress'
    OBVIOUS
<1>1. ASSUME \/ UNCHANGED vars
             \/ Tick
      PROVE  UNCHANGED <<pc, conf, next, executed, isError, result, stuck>>
    BY <1>1 DEF vars, metrics, history, Tick
<1>2. ASSUME UNCHANGED <<pc, conf, next, executed, isError, result, stuck>> PROVE Progress'
    BY <1>2 DEF TypeInv, Progress, Before, Handling, Confs
<1>3. ASSUME RejectHost PROVE Progress'
    BY <1>3 DEF TypeInv, Progress, Before, Handling, Confs, RejectHost,
       LogGlobal, End, metrics, history
<1>4. ASSUME NoConfiguration PROVE Progress'
    BY <1>4 DEF TypeInv, Progress, Before, Handling, Confs,
       NoConfiguration, LogGlobal, End, metrics, history
<1>5. ASSUME FindConfiguration PROVE Progress'
    BY <1>5 DEF TypeInv, Progress, Before, Handling, Confs,
       FindConfiguration, metrics, history
<1>6. ASSUME AnswerEarly PROVE Progress'
    BY <1>6 DEF TypeInv, Progress, Before, Handling, Confs, AnswerEarly,
       LogAccess, End, metrics, history
<1>7. ASSUME Sanitize PROVE Progress'
    BY <1>7 DEF TypeInv, Progress, Before, Handling, Confs, Sanitize,
       metrics, history
<1>8. ASSUME EnterModules PROVE Progress'
    BY <1>8 DEF TypeInv, Progress, Before, Handling, Confs, EnterModules,
       metrics, history
<1>9. ASSUME StartHandler PROVE Progress'
    BY <1>9 DEF TypeInv, Progress, Before, Handling, Confs, StartHandler,
       metrics, history
<1>10. ASSUME NoModuleLeft PROVE Progress'
    BY <1>10 DEF TypeInv, Progress, Before, Handling, Confs, NoModuleLeft,
       metrics, history
<1>11. ASSUME NEW r \in Replies, Answers(r) PROVE Progress'
  <2>1. /\ pc = "handling" /\ pc' = "modifying" /\ next' = next
        /\ UNCHANGED <<conf, isError, result, stuck>>
    BY <1>11 DEF Answers, Returns
  <2>2. /\ Len(executed') = next
        /\ \A i \in 1..next : executed'[i] = <<conf, i>>
    BY <1>11, JoinFacts DEF Answers, Returns
  <2>3. QED
    BY <2>1, <2>2 DEF Progress, TypeInv, Before, Handling
<1>12. ASSUME HandlerPasses PROVE Progress'
  <2>1. /\ pc = "handling" /\ pc' = "modules" /\ next' = next + 1
        /\ UNCHANGED <<conf, isError, result, stuck>>
    BY <1>12 DEF HandlerPasses, Returns
  <2>2. /\ Len(executed') = next
        /\ \A i \in 1..next : executed'[i] = <<conf, i>>
    BY <1>12, JoinFacts DEF HandlerPasses, Returns
  <2>3. QED
    BY <2>1, <2>2 DEF Progress, TypeInv, Before, Handling
<1>13. ASSUME EnterError PROVE Progress'
    BY <1>13 DEF TypeInv, Progress, Before, Handling, Confs, EnterError, Returns
<1>14. ASSUME HandlerTimeout PROVE Progress'
    BY <1>14 DEF TypeInv, Progress, Before, Handling, Confs,
       HandlerTimeout, End, history
<1>15. ASSUME Modify PROVE Progress'
  <2>1. /\ pc = "modifying" /\ executed' = Rest
        /\ UNCHANGED <<pc, conf, next, isError, result, stuck>>
    BY <1>15 DEF Modify, history
  <2>2. /\ Len(executed) \in Nat \ {0} /\ Len(executed') = Len(executed) - 1
        /\ \A i \in 1..(Len(executed) - 1) : executed'[i] = executed[i]
    BY <1>15, <2>1, RestFacts DEF Modify
  <2>3. \A i \in 1..Len(executed') : executed'[i] = <<conf', i>>
    BY <2>1, <2>2 DEF Progress
  <2>4. QED
    BY <2>1, <2>3 DEF Progress, Before, Handling
<1>16. ASSUME ModifyFails PROVE Progress'
    BY <1>16 DEF TypeInv, Progress, Before, Handling, Confs, ModifyFails,
       LogAccess, End
<1>17. ASSUME ModifyTimeout PROVE Progress'
    BY <1>17 DEF TypeInv, Progress, Before, Handling, Confs, ModifyTimeout,
       End
<1>18. ASSUME Answer PROVE Progress'
    BY <1>18 DEF TypeInv, Progress, Before, Handling, Confs, Answer,
       LogAccess, End, metrics, history
<1>19. ASSUME ClientGone PROVE Progress'
    BY <1>19 DEF TypeInv, Progress, Before, Handling, Confs, ClientGone,
       End, metrics, history
<1>20. QED
    BY <1>1, <1>2, <1>3, <1>4, <1>5, <1>6, <1>7, <1>8, <1>9, <1>10, <1>11,
       <1>12, <1>13, <1>14, <1>15, <1>16, <1>17, <1>18, <1>19, ActionCases,
       Zenon

\* The response goes back the way the request came.
LEMMA ChainStep ==
    TypeInv /\ Progress /\ Chain /\ [Next]_vars => Chain'
<1> SUFFICES ASSUME TypeInv, Progress, Chain, [Next]_vars PROVE Chain'
    OBVIOUS
<1>1. ASSUME \/ UNCHANGED vars
             \/ Tick
      PROVE  UNCHANGED <<pc, conf, executed, isError, modified, ran>>
    BY <1>1 DEF vars, metrics, history, Tick
<1>2. ASSUME UNCHANGED <<pc, conf, executed, isError, modified, ran>> PROVE Chain'
    BY <1>2 DEF TypeInv, Progress, Chain, Before, Handling, Confs
<1>3. ASSUME RejectHost PROVE Chain'
    BY <1>3 DEF TypeInv, Progress, Chain, Before, Handling, Confs,
       RejectHost, LogGlobal, End, metrics, history
<1>4. ASSUME NoConfiguration PROVE Chain'
    BY <1>4 DEF TypeInv, Progress, Chain, Before, Handling, Confs,
       NoConfiguration, LogGlobal, End, metrics, history
<1>5. ASSUME FindConfiguration PROVE Chain'
    BY <1>5 DEF TypeInv, Progress, Chain, Before, Handling, Confs,
       FindConfiguration, metrics, history
<1>6. ASSUME AnswerEarly PROVE Chain'
    BY <1>6 DEF TypeInv, Progress, Chain, Before, Handling, Confs,
       AnswerEarly, LogAccess, End, metrics, history
<1>7. ASSUME Sanitize PROVE Chain'
    BY <1>7 DEF TypeInv, Progress, Chain, Before, Handling, Confs,
       Sanitize, metrics, history
<1>8. ASSUME EnterModules PROVE Chain'
    BY <1>8 DEF TypeInv, Progress, Chain, Before, Handling, Confs,
       EnterModules, metrics, history
<1>9. ASSUME StartHandler PROVE Chain'
    BY <1>9 DEF TypeInv, Progress, Chain, Before, Handling, Confs,
       StartHandler, metrics, history
<1>10. ASSUME NoModuleLeft PROVE Chain'
    BY <1>10 DEF TypeInv, Progress, Chain, Before, Handling, Confs,
       NoModuleLeft, metrics, history
<1>11. ASSUME NEW r \in Replies, Answers(r) PROVE Chain'
  <2>1. /\ pc = "handling" /\ pc' = "modifying"
        /\ UNCHANGED <<conf, isError, modified>>
    BY <1>11 DEF Answers, Returns
  <2>2. /\ Len(executed') = next
        /\ \A i \in 1..next : executed'[i] = <<conf, i>>
    BY <1>11, JoinFacts DEF Answers, Returns
  <2>3. /\ Len(ran[conf]) \in Nat
        /\ Len(ran'[conf]) = Len(ran[conf]) + 1
        /\ \A i \in 1..Len(ran[conf]) : ran'[conf][i] = ran[conf][i]
        /\ ran'[conf][Len(ran[conf]) + 1] = <<conf, next>>
        /\ \A c \in Confs \ {conf} : ran'[c] = ran[c]
    BY <1>11, RanFacts DEF Answers
  <2>4. /\ modified = << >> /\ Len(modified) = 0
        /\ Len(ran[conf]) + 1 = next
        /\ \A i \in 1..Len(ran[conf]) : ran[conf][i] = <<conf, i>>
    BY <2>1, <2>3, ReachedFacts DEF Chain, Progress, Handling
  <2>5. ~isError => ran'["error"] = << >>
    BY <2>1, <2>3 DEF Chain, Progress, Confs
  <2>6. Len(ran'[conf]) = Len(executed') + Len(modified')
    BY <2>1, <2>2, <2>3, <2>4
  <2>7. \A i \in 1..Len(executed') : ran'[conf][i] = executed'[i]
    BY <2>2, <2>3, <2>4
  <2>8. QED
    BY <2>1, <2>4, <2>5, <2>6, <2>7 DEF Chain, Before, Handling
<1>12. ASSUME HandlerPasses PROVE Chain'
  <2>1. /\ pc = "handling" /\ pc' = "modules"
        /\ UNCHANGED <<conf, isError, modified>>
    BY <1>12 DEF HandlerPasses, Returns
  <2>2. /\ Len(executed') = next
        /\ \A i \in 1..next : executed'[i] = <<conf, i>>
    BY <1>12, JoinFacts DEF HandlerPasses, Returns
  <2>3. /\ Len(ran[conf]) \in Nat
        /\ Len(ran'[conf]) = Len(ran[conf]) + 1
        /\ \A i \in 1..Len(ran[conf]) : ran'[conf][i] = ran[conf][i]
        /\ ran'[conf][Len(ran[conf]) + 1] = <<conf, next>>
        /\ \A c \in Confs \ {conf} : ran'[c] = ran[c]
    BY <1>12, RanFacts DEF HandlerPasses
  <2>4. /\ modified = << >> /\ Len(modified) = 0
        /\ Len(ran[conf]) + 1 = next
        /\ \A i \in 1..Len(ran[conf]) : ran[conf][i] = <<conf, i>>
    BY <2>1, <2>3, ReachedFacts DEF Chain, Progress, Handling
  <2>5. ~isError => ran'["error"] = << >>
    BY <2>1, <2>3 DEF Chain, Progress, Confs
  <2>6. Len(ran'[conf]) = Len(executed') + Len(modified')
    BY <2>1, <2>2, <2>3, <2>4
  <2>7. \A i \in 1..Len(executed') : ran'[conf][i] = executed'[i]
    BY <2>2, <2>3, <2>4
  <2>8. QED
    BY <2>1, <2>4, <2>5, <2>6, <2>7 DEF Chain, Before, Handling
<1>13. ASSUME EnterError PROVE Chain'
  <2>1. /\ pc = "handling" /\ pc' = "modules" /\ conf' = "error" /\ ~isError /\ isError'
        /\ executed' = << >> /\ modified' = modified
    BY <1>13 DEF EnterError, Returns
  <2>2. ran'["error"] = << >> /\ modified' = << >>
    BY <1>13, <2>1, RanFacts DEF EnterError, Chain, Progress, Handling, Confs
  <2>3. QED
    BY <2>1, <2>2 DEF Chain, Before, Handling
<1>14. ASSUME HandlerTimeout PROVE Chain'
    BY <1>14 DEF TypeInv, Progress, Chain, Before, Handling, Confs,
       HandlerTimeout, End, history
<1>15. ASSUME Modify PROVE Chain'
  <2>1. /\ pc = "modifying" /\ executed' = Rest /\ modified' = Append(modified, Top)
        /\ UNCHANGED <<pc, conf, isError, ran>>
    BY <1>15 DEF Modify, history
  <2>2. /\ Len(executed) \in Nat \ {0} /\ Len(executed') = Len(executed) - 1
        /\ \A i \in 1..(Len(executed) - 1) : executed'[i] = executed[i]
        /\ Top = executed[Len(executed)] /\ Top \in Handlers
    BY <1>15, <2>1, RestFacts DEF Modify
  <2>3. /\ Len(modified) \in Nat /\ Len(modified') = Len(modified) + 1
        /\ \A i \in 1..Len(modified) : modified'[i] = modified[i]
        /\ modified'[Len(modified) + 1] = Top
    BY <2>1, <2>2, AppendProperties, LenProperties DEF TypeInv
  <2>4. /\ Len(ran[conf]) = Len(executed) + Len(modified)
        /\ \A i \in 1..Len(executed) : ran[conf][i] = executed[i]
        /\ \A i \in 1..Len(modified) : modified[i] = ran[conf][Len(ran[conf]) + 1 - i]
    BY <2>1 DEF Chain
  <2>5. ASSUME NEW i \in 1..Len(modified')
        PROVE  modified'[i] = ran[conf][Len(ran[conf]) + 1 - i]
    <3>1. CASE i = Len(modified) + 1
        BY <2>2, <2>3, <2>4, <3>1
    <3>2. CASE i # Len(modified) + 1
      <4>1. i \in 1..Len(modified)
        BY <2>3, <3>2
      <4>2. QED
        BY <2>3, <2>4, <4>1
    <3>3. QED
        BY <3>1, <3>2
  <2>6. QED
    BY <2>1, <2>2, <2>3, <2>4, <2>5 DEF Chain, Before, Handling
<1>16. ASSUME ModifyFails PROVE Chain'
    BY <1>16 DEF TypeInv, Progress, Chain, Before, Handling, Confs,
       ModifyFails, LogAccess, End
<1>17. ASSUME ModifyTimeout PROVE Chain'
    BY <1>17 DEF TypeInv, Progress, Chain, Before, Handling, Confs,
       ModifyTimeout, End
<1>18. ASSUME Answer PROVE Chain'
    BY <1>18 DEF TypeInv, Progress, Chain, Before, Handling, Confs, Answer,
       LogAccess, End, metrics, history
<1>19. ASSUME ClientGone PROVE Chain'
    BY <1>19 DEF TypeInv, Progress, Chain, Before, Handling, Confs,
       ClientGone, End, metrics, history
<1>20. QED
    BY <1>1, <1>2, <1>3, <1>4, <1>5, <1>6, <1>7, <1>8, <1>9, <1>10, <1>11,
       <1>12, <1>13, <1>14, <1>15, <1>16, <1>17, <1>18, <1>19, ActionCases,
       Zenon

\* Closing the metrics of some of the modules in hand.
LEMMA CloseInHand ==
    ASSUME TypeInv, ClosedOnce, InHandOpen, pc # "end",
           NEW hs, \A h \in Handlers : h \in hs => InHand(h),
           Close(hs), UNCHANGED opened
    PROVE  ClosedOnce'
BY DEF TypeInv, ClosedOnce, InHandOpen, Close

\* Metrics are not closed twice.
LEMMA ClosedOnceStep ==
    TypeInv /\ Progress /\ ClosedOnce /\ InHandOpen /\ [Next]_vars => ClosedOnce'
<1> SUFFICES ASSUME TypeInv, Progress, ClosedOnce, InHandOpen, [Next]_vars PROVE ClosedOnce'
    OBVIOUS
<1>1. ASSUME \/ UNCHANGED vars
             \/ RejectHost \/ NoConfiguration \/ FindConfiguration
             \/ AnswerEarly \/ Sanitize \/ EnterModules \/ NoModuleLeft
             \/ HandlerPasses \/ Answer \/ ClientGone \/ Tick
             \/ \E r \in Replies :
                   \/ Answers(r)
      PROVE  UNCHANGED <<opened, closed>>
    BY <1>1 DEF vars, metrics, history, RejectHost, LogGlobal, End,
       NoConfiguration, FindConfiguration, AnswerEarly, LogAccess,
       Sanitize, EnterModules, NoModuleLeft, Answers, Returns,
       HandlerPasses, Answer, ClientGone, Tick
<1>2. ASSUME UNCHANGED <<opened, closed>> PROVE ClosedOnce'
    BY <1>2 DEF TypeInv, ClosedOnce
<1>3. ASSUME StartHandler PROVE ClosedOnce'
    BY <1>3 DEF TypeInv, ClosedOnce, StartHandler, metrics, history
<1>4. ASSUME EnterError PROVE ClosedOnce'
  <2>1. pc = "handling" /\ Close(Elems(Append(executed, Current))) /\ UNCHANGED opened
    BY <1>4 DEF EnterError, Returns
  <2>2. \A h \in Handlers :
           closed'[h] = IF MetricsEnabled /\ InHand(h) THEN closed[h] + 1 ELSE closed[h]
    BY <2>1, CloseAllFacts
  <2>3. QED
    BY <2>1, <2>2 DEF TypeInv, ClosedOnce, InHandOpen
<1>5. ASSUME HandlerTimeout PROVE ClosedOnce'
  <2>1. pc = "handling" /\ Close(Elems(Append(executed, Current))) /\ UNCHANGED opened
    BY <1>5 DEF HandlerTimeout
  <2>2. \A h \in Handlers :
           closed'[h] = IF MetricsEnabled /\ InHand(h) THEN closed[h] + 1 ELSE closed[h]
    BY <2>1, CloseAllFacts
  <2>3. QED
    BY <2>1, <2>2 DEF TypeInv, ClosedOnce, InHandOpen
<1>6. ASSUME Modify PROVE ClosedOnce'
  <2>1. pc = "modifying" /\ executed # << >> /\ Close({Top}) /\ UNCHANGED opened
    BY <1>6 DEF Modify
  <2>2. Top \in Handlers /\ InHand(Top) /\ \A h \in Handlers : h \in Elems(Rest) => InHand(h)
    BY <2>1, LastFacts DEF InHand
  <2>3. QED
    BY <2>1, <2>2, CloseInHand
<1>7. ASSUME ModifyFails PROVE ClosedOnce'
  <2>1. pc = "modifying" /\ executed # << >> /\ Close(Elems(Rest)) /\ UNCHANGED opened
    BY <1>7 DEF ModifyFails
  <2>2. Top \in Handlers /\ InHand(Top) /\ \A h \in Handlers : h \in Elems(Rest) => InHand(h)
    BY <2>1, LastFacts DEF InHand
  <2>3. QED
    BY <2>1, <2>2, CloseInHand
<1>8. ASSUME ModifyTimeout PROVE ClosedOnce'
  <2>1. pc = "modifying" /\ executed # << >> /\ Close(Elems(Rest)) /\ UNCHANGED opened
    BY <1>8 DEF ModifyTimeout
  <2>2. Top \in Handlers /\ InHand(Top) /\ \A h \in Handlers : h \in Elems(Rest) => InHand(h)
    BY <2>1, LastFacts DEF InHand
  <2>3. QED
    BY <2>1, <2>2, CloseInHand
<1>9. QED
    BY <1>1, <1>2, <1>3, <1>4, <1>5, <1>6, <1>7, <1>8, ActionCases, Zenon

\* Open metrics are those of the modules in hand.
LEMMA OpenInHandStep ==
    TypeInv /\ Progress /\ ClosedOnce /\ OpenInHand /\ InHandOpen /\ NotYetOpened /\ [Next]_vars => OpenInHand'
<1> SUFFICES ASSUME TypeInv, Progress, ClosedOnce, OpenInHand, InHandOpen, NotYetOpened, [Next]_vars PROVE OpenInHand'
    OBVIOUS
<1>1. ASSUME \/ UNCHANGED vars
             \/ Tick
      PROVE  UNCHANGED <<pc, conf, next, executed, opened, closed, result, stuck>>
    BY <1>1 DEF vars, metrics, history, Tick
<1>2. ASSUME UNCHANGED <<pc, conf, next, executed, opened, closed, result, stuck>> PROVE OpenInHand'
    BY <1>2 DEF TypeInv, OpenInHand, InHand, Reached
<1>3. ASSUME RejectHost PROVE OpenInHand'
    BY <1>3, HandlerPairs, ReachedFacts DEF TypeInv, OpenInHand, NotYetOpened, Progress, InHand, Reached, MetricsEnabled, Before, Handling, RejectHost, End, metrics, history
<1>4. ASSUME NoConfiguration PROVE OpenInHand'
    BY <1>4, HandlerPairs, ReachedFacts DEF TypeInv, OpenInHand, NotYetOpened, Progress, InHand, Reached, MetricsEnabled, Before, Handling, NoConfiguration, End, metrics, history
<1>5. ASSUME FindConfiguration PROVE OpenInHand'
    BY <1>5, HandlerPairs, ReachedFacts DEF TypeInv, OpenInHand, NotYetOpened, Progress, InHand, Reached, MetricsEnabled, Before, Handling, FindConfiguration, metrics, history
<1>6. ASSUME AnswerEarly PROVE OpenInHand'
    BY <1>6, HandlerPairs, ReachedFacts DEF TypeInv, OpenInHand, NotYetOpened, Progress, InHand, Reached, MetricsEnabled, Before, Handling, AnswerEarly, End, metrics, history
<1>7. ASSUME Sanitize PROVE OpenInHand'
    BY <1>7, HandlerPairs, ReachedFacts DEF TypeInv, OpenInHand, NotYetOpened, Progress, InHand, Reached, MetricsEnabled, Before, Handling, Sanitize, metrics, history
<1>8. ASSUME EnterModules PROVE OpenInHand'
    BY <1>8, HandlerPairs, ReachedFacts DEF TypeInv, OpenInHand, NotYetOpened, Progress, InHand, Reached, MetricsEnabled, Before, Handling, EnterModules, metrics, history
<1>9. ASSUME StartHandler PROVE OpenInHand'
  <2>1. /\ pc = "modules" /\ pc' = "handling" /\ Current \in Handlers
        /\ opened' = IF MetricsEnabled THEN opened \cup {Current} ELSE opened
        /\ UNCHANGED <<cfg, conf, next, isError, closed, result, stuck>>
    BY <1>9, CurrentHandler DEF StartHandler, Handling, history
  <2>2. Reached' = next /\ Reached + 1 = next /\ Reached \in Nat
    BY <2>1, ReachedFacts DEF Reached
  <2>3. \A h \in Handlers : InHand(h) => InHand(h)'
    BY <2>1, <2>2, HandlerPairs DEF InHand
  <2>4. \A h : h = Current => InHand(h)'
    BY <2>1, <2>2 DEF InHand, Current
  <2>5. \A h \in opened : h \in Handlers
    BY DEF TypeInv
  <2>6. QED
    BY <2>1, <2>3, <2>4, <2>5 DEF OpenInHand
<1>10. ASSUME NoModuleLeft PROVE OpenInHand'
    BY <1>10, HandlerPairs, ReachedFacts DEF TypeInv, OpenInHand, NotYetOpened, Progress, InHand, Reached, MetricsEnabled, Before, Handling, NoModuleLeft, metrics, history
<1>11. ASSUME NEW r \in Replies, Answers(r) PROVE OpenInHand'
  <2>1. /\ pc = "handling" /\ pc' = "modifying"
        /\ UNCHANGED <<cfg, conf, isError, opened, closed, result, stuck>>
    BY <1>11 DEF Answers, Returns, metrics
  <2>2. Len(executed') = next
    BY <1>11, JoinFacts DEF Answers, Returns
  <2>3. Reached' = Reached
    BY <2>1, <2>2 DEF Reached
  <2>4. QED
    BY <2>1, <2>3 DEF OpenInHand, InHand, MetricsEnabled, Before, Handling
<1>12. ASSUME HandlerPasses PROVE OpenInHand'
  <2>1. /\ pc = "handling" /\ pc' = "modules"
        /\ UNCHANGED <<cfg, conf, isError, opened, closed, result, stuck>>
    BY <1>12 DEF HandlerPasses, Returns, metrics
  <2>2. Len(executed') = next
    BY <1>12, JoinFacts DEF HandlerPasses, Returns
  <2>3. Reached' = Reached
    BY <2>1, <2>2 DEF Reached
  <2>4. QED
    BY <2>1, <2>3 DEF OpenInHand, InHand, MetricsEnabled, Before, Handling
<1>13. ASSUME EnterError PROVE OpenInHand'
  <2>1. pc = "handling" /\ Close(Elems(Append(executed, Current))) /\ UNCHANGED <<opened, stuck>>
    BY <1>13 DEF EnterError, Returns
  <2>2. \A h \in Handlers :
           closed'[h] = IF MetricsEnabled /\ InHand(h) THEN closed[h] + 1 ELSE closed[h]
    BY <2>1, CloseAllFacts
  <2>3. stuck = NoHandler /\ result = "none"
    BY <2>1 DEF Progress
  <2>4. ASSUME NEW h \in opened PROVE closed'[h] # 0
    <3>1. h \in Handlers /\ closed[h] \in Nat /\ h # NoHandler
        BY HandlerPairs DEF TypeInv
    <3>2. closed[h] = 0 => MetricsEnabled /\ InHand(h)
        BY <2>1, <2>3, <3>1 DEF OpenInHand, InHandOpen
    <3>3. QED
        BY <2>2, <3>1, <3>2
  <2>5. QED
    BY <2>1, <2>4 DEF OpenInHand
<1>14. ASSUME HandlerTimeout PROVE OpenInHand'
  <2>1. pc = "handling" /\ Close(Elems(Append(executed, Current))) /\ UNCHANGED <<opened, stuck>>
    BY <1>14 DEF HandlerTimeout, End, history
  <2>2. \A h \in Handlers :
           closed'[h] = IF MetricsEnabled /\ InHand(h) THEN closed[h] + 1 ELSE closed[h]
    BY <2>1, CloseAllFacts
  <2>3. stuck = NoHandler /\ result = "none"
    BY <2>1 DEF Progress
  <2>4. ASSUME NEW h \in opened PROVE closed'[h] # 0
    <3>1. h \in Handlers /\ closed[h] \in Nat /\ h # NoHandler
        BY HandlerPairs DEF TypeInv
    <3>2. closed[h] = 0 => MetricsEnabled /\ InHand(h)
        BY <2>1, <2>3, <3>1 DEF OpenInHand, InHandOpen
    <3>3. QED
        BY <2>2, <3>1, <3>2
  <2>5. QED
    BY <2>1, <2>4 DEF OpenInHand
<1>15. ASSUME Modify PROVE OpenInHand'
  <2>1. /\ pc = "modifying" /\ executed # << >> /\ Close({Top}) /\ executed' = Rest
        /\ UNCHANGED <<cfg, pc, conf, isError, opened, result, stuck>>
    BY <1>15 DEF Modify, history
  <2>2. Top \in Handlers /\ Top = <<conf, Reached>> /\ Reached \in Nat \ {0}
    BY <2>1, LastFacts
  <2>3. Reached' = Reached - 1
    BY <2>1, RestFacts DEF Reached
  <2>4. \A h \in Handlers :
           closed'[h] = IF MetricsEnabled /\ h = Top THEN closed[h] + 1 ELSE closed[h]
    BY <2>1 DEF Close
  <2>5. \A h \in Handlers : InHand(h)' <=> InHand(h) /\ h # Top
    BY <2>1, <2>2, <2>3, HandlerPairs DEF InHand
  <2>6. stuck = NoHandler /\ result = "none"
    BY <2>1 DEF Progress
  <2>7. ASSUME NEW h \in opened, closed'[h] = 0 PROVE InHand(h) /\ h # Top
    <3>1. h \in Handlers /\ closed[h] \in Nat /\ h # NoHandler
        BY HandlerPairs DEF TypeInv
    <3>2. closed[h] = 0
        BY <2>4, <2>7, <3>1
    <3>3. MetricsEnabled /\ InHand(h)
        BY <2>1, <2>6, <3>1, <3>2 DEF OpenInHand, InHandOpen
    <3>4. QED
        BY <2>4, <2>7, <3>1, <3>2, <3>3
  <2>8. QED
    BY <2>1, <2>5, <2>7 DEF OpenInHand, TypeInv
<1>16. ASSUME ModifyFails PROVE OpenInHand'
  <2>1. /\ pc = "modifying" /\ executed # << >> /\ pc' = "end"
        /\ Close(Elems(Rest)) /\ stuck' = Top /\ UNCHANGED opened
    BY <1>16 DEF ModifyFails, End
  <2>2. /\ Top \in Handlers /\ InHand(Top)
        /\ \A h \in Handlers : h \in Elems(Rest) <=> InHand(h) /\ h # Top
    BY <2>1, LastFacts DEF InHand
  <2>3. \A h \in Handlers : closed'[h] =
           IF MetricsEnabled /\ InHand(h) /\ h # Top THEN closed[h] + 1 ELSE closed[h]
    BY <2>1, <2>2 DEF Close
  <2>4. stuck = NoHandler /\ result = "none"
    BY <2>1 DEF Progress
  <2>5. \A h \in opened : closed'[h] = 0 => h = Top
    BY <2>1, <2>2, <2>3, <2>4, HandlerPairs DEF TypeInv, OpenInHand, InHandOpen
  <2>6. QED
    BY <2>1, <2>5 DEF OpenInHand
<1>17. ASSUME ModifyTimeout PROVE OpenInHand'
  <2>1. /\ pc = "modifying" /\ executed # << >> /\ pc' = "end"
        /\ Close(Elems(Rest)) /\ stuck' = Top /\ UNCHANGED opened
    BY <1>17 DEF ModifyTimeout, End
  <2>2. /\ Top \in Handlers /\ InHand(Top)
        /\ \A h \in Handlers : h \in Elems(Rest) <=> InHand(h) /\ h # Top
    BY <2>1, LastFacts DEF InHand
  <2>3. \A h \in Handlers : closed'[h] =
           IF MetricsEnabled /\ InHand(h) /\ h # Top THEN closed[h] + 1 ELSE closed[h]
    BY <2>1, <2>2 DEF Close
  <2>4. stuck = NoHandler /\ result = "none"
    BY <2>1 DEF Progress
  <2>5. \A h \in opened : closed'[h] = 0 => h = Top
    BY <2>1, <2>2, <2>3, <2>4, HandlerPairs DEF TypeInv, OpenInHand, InHandOpen
  <2>6. QED
    BY <2>1, <2>5 DEF OpenInHand
<1>18. ASSUME Answer PROVE OpenInHand'
    BY <1>18, HandlerPairs, ReachedFacts DEF TypeInv, OpenInHand, NotYetOpened, Progress, InHand, Reached, MetricsEnabled, Before, Handling, Answer, End, metrics, history
<1>19. ASSUME ClientGone PROVE OpenInHand'
    BY <1>19, HandlerPairs, ReachedFacts DEF TypeInv, OpenInHand, NotYetOpened, Progress, InHand, Reached, MetricsEnabled, Before, Handling, ClientGone, End, metrics, history
<1>20. QED
    BY <1>1, <1>2, <1>3, <1>4, <1>5, <1>6, <1>7, <1>8, <1>9, <1>10, <1>11,
       <1>12, <1>13, <1>14, <1>15, <1>16, <1>17, <1>18, <1>19, ActionCases,
       Zenon

\* The metrics of the modules in hand are open.
LEMMA InHandOpenStep ==
    TypeInv /\ Progress /\ ClosedOnce /\ OpenInHand /\ InHandOpen /\ NotYetOpened /\ [Next]_vars => InHandOpen'
<1> SUFFICES ASSUME TypeInv, Progress, ClosedOnce, OpenInHand, InHandOpen, NotYetOpened, [Next]_vars PROVE InHandOpen'
    OBVIOUS
<1>1. ASSUME \/ UNCHANGED vars
             \/ Tick
      PROVE  UNCHANGED <<cfg, pc, conf, next, executed, opened, closed, stuck>>
    BY <1>1 DEF vars, metrics, history, Tick
<1>2. ASSUME UNCHANGED <<cfg, pc, conf, next, executed, opened, closed, stuck>> PROVE InHandOpen'
    BY <1>2 DEF TypeInv, InHandOpen, InHand, Reached, MetricsEnabled
<1>3. ASSUME RejectHost PROVE InHandOpen'
    BY <1>3, HandlerPairs, ReachedFacts DEF TypeInv, InHandOpen, Progress, InHand, Reached, MetricsEnabled, Before, Handling, RejectHost, End, metrics, history
<1>4. ASSUME NoConfiguration PROVE InHandOpen'
    BY <1>4, HandlerPairs, ReachedFacts DEF TypeInv, InHandOpen, Progress, InHand, Reached, MetricsEnabled, Before, Handling, NoConfiguration, End, metrics, history
<1>5. ASSUME FindConfiguration PROVE InHandOpen'
    BY <1>5, HandlerPairs, ReachedFacts DEF TypeInv, InHandOpen, Progress, InHand, Reached, MetricsEnabled, Before, Handling, FindConfiguration, metrics, history
<1>6. ASSUME AnswerEarly PROVE InHandOpen'
    BY <1>6, HandlerPairs, ReachedFacts DEF TypeInv, InHandOpen, Progress, InHand, Reached, MetricsEnabled, Before, Handling, AnswerEarly, End, metrics, history
<1>7. ASSUME Sanitize PROVE InHandOpen'
    BY <1>7, HandlerPairs, ReachedFacts DEF TypeInv, InHandOpen, Progress, InHand, Reached, MetricsEnabled, Before, Handling, Sanitize, metrics, history
<1>8. ASSUME EnterModules PROVE InHandOpen'
    BY <1>8, HandlerPairs, ReachedFacts DEF TypeInv, InHandOpen, Progress, InHand, Reached, MetricsEnabled, Before, Handling, EnterModules, metrics, history
<1>9. ASSUME StartHandler PROVE InHandOpen'
  <2>1. /\ pc = "modules" /\ pc' = "handling" /\ Current \in Handlers
        /\ opened' = IF MetricsEnabled THEN opened \cup {Current} ELSE opened
        /\ UNCHANGED <<cfg, conf, next, isError, closed, result, stuck>>
    BY <1>9, CurrentHandler DEF StartHandler, Handling, history
  <2>2. Reached' = next /\ Reached + 1 = next /\ Reached \in Nat
    BY <2>1, ReachedFacts DEF Reached
  <2>3. \A h \in Handlers : InHand(h)' <=> InHand(h) \/ h = Current
    BY <2>1, <2>2, HandlerPairs DEF InHand, Current
  <2>4. ~InHand(Current) /\ Current \notin opened
    BY <2>1, <2>2, HandlerPairs DEF InHand, Current, NotYetOpened, Handling
  <2>5. closed[Current] = 0
    BY <2>1, <2>4 DEF ClosedOnce, TypeInv
  <2>6. QED
    BY <2>1, <2>3, <2>4, <2>5 DEF InHandOpen, MetricsEnabled
<1>10. ASSUME NoModuleLeft PROVE InHandOpen'
    BY <1>10, HandlerPairs, ReachedFacts DEF TypeInv, InHandOpen, Progress, InHand, Reached, MetricsEnabled, Before, Handling, NoModuleLeft, metrics, history
<1>11. ASSUME NEW r \in Replies, Answers(r) PROVE InHandOpen'
  <2>1. /\ pc = "handling" /\ pc' = "modifying"
        /\ UNCHANGED <<cfg, conf, isError, opened, closed, result, stuck>>
    BY <1>11 DEF Answers, Returns, metrics
  <2>2. Len(executed') = next
    BY <1>11, JoinFacts DEF Answers, Returns
  <2>3. Reached' = Reached
    BY <2>1, <2>2 DEF Reached
  <2>4. QED
    BY <2>1, <2>3 DEF InHandOpen, InHand, MetricsEnabled, Before, Handling
<1>12. ASSUME HandlerPasses PROVE InHandOpen'
  <2>1. /\ pc = "handling" /\ pc' = "modules"
        /\ UNCHANGED <<cfg, conf, isError, opened, closed, result, stuck>>
    BY <1>12 DEF HandlerPasses, Returns, metrics
  <2>2. Len(executed') = next
    BY <1>12, JoinFacts DEF HandlerPasses, Returns
  <2>3. Reached' = Reached
    BY <2>1, <2>2 DEF Reached
  <2>4. QED
    BY <2>1, <2>3 DEF InHandOpen, InHand, MetricsEnabled, Before, Handling
<1>13. ASSUME EnterError PROVE InHandOpen'
  <2>1. /\ pc' = "modules" /\ executed' = << >> /\ stuck' = stuck /\ pc # "end"
    BY <1>13 DEF EnterError, Returns
  <2>2. Reached' = 0
    BY <2>1 DEF Reached
  <2>3. \A h \in Handlers : ~InHand(h)'
    BY <2>2, HandlerPairs DEF InHand
  <2>4. QED
    BY <2>1, <2>3 DEF InHandOpen, Progress
<1>14. ASSUME HandlerTimeout PROVE InHandOpen'
    BY <1>14 DEF InHandOpen, Progress, HandlerTimeout, End, history
<1>15. ASSUME Modify PROVE InHandOpen'
  <2>1. /\ pc = "modifying" /\ executed # << >> /\ Close({Top}) /\ executed' = Rest
        /\ UNCHANGED <<cfg, pc, conf, isError, opened, result, stuck>>
    BY <1>15 DEF Modify, history
  <2>2. Top \in Handlers /\ Top = <<conf, Reached>> /\ Reached \in Nat \ {0}
    BY <2>1, LastFacts
  <2>3. Reached' = Reached - 1
    BY <2>1, RestFacts DEF Reached
  <2>4. \A h \in Handlers :
           closed'[h] = IF MetricsEnabled /\ h = Top THEN closed[h] + 1 ELSE closed[h]
    BY <2>1 DEF Close
  <2>5. \A h \in Handlers : InHand(h)' <=> InHand(h) /\ h # Top
    BY <2>1, <2>2, <2>3, HandlerPairs DEF InHand
  <2>6. stuck = NoHandler
    BY <2>1 DEF Progress
  <2>7. QED
    BY <2>1, <2>4, <2>5, <2>6 DEF InHandOpen, MetricsEnabled
<1>16. ASSUME ModifyFails PROVE InHandOpen'
  <2>1. /\ pc = "modifying" /\ executed # << >> /\ pc' = "end"
        /\ Close(Elems(Rest)) /\ stuck' = Top /\ UNCHANGED opened
    BY <1>16 DEF ModifyFails, End
  <2>2. /\ Top \in Handlers /\ InHand(Top)
        /\ \A h \in Handlers : h \in Elems(Rest) <=> InHand(h) /\ h # Top
    BY <2>1, LastFacts DEF InHand
  <2>3. \A h \in Handlers : closed'[h] =
           IF MetricsEnabled /\ InHand(h) /\ h # Top THEN closed[h] + 1 ELSE closed[h]
    BY <2>1, <2>2 DEF Close
  <2>4. closed'[Top] = 0
    BY <2>1, <2>2, <2>3 DEF InHandOpen
  <2>5. QED
    BY <2>1, <2>4 DEF InHandOpen
<1>17. ASSUME ModifyTimeout PROVE InHandOpen'
  <2>1. /\ pc = "modifying" /\ executed # << >> /\ pc' = "end"
        /\ Close(Elems(Rest)) /\ stuck' = Top /\ UNCHANGED opened
    BY <1>17 DEF ModifyTimeout, End
  <2>2. /\ Top \in Handlers /\ InHand(Top)
        /\ \A h \in Handlers : h \in Elems(Rest) <=> InHand(h) /\ h # Top
    BY <2>1, LastFacts DEF InHand
  <2>3. \A h \in Handlers : closed'[h] =
           IF MetricsEnabled /\ InHand(h) /\ h # Top THEN closed[h] + 1 ELSE closed[h]
    BY <2>1, <2>2 DEF Close
  <2>4. closed'[Top] = 0
    BY <2>1, <2>2, <2>3 DEF InHandOpen
  <2>5. QED
    BY <2>1, <2>4 DEF InHandOpen
<1>18. ASSUME Answer PROVE InHandOpen'
    BY <1>18, HandlerPairs, ReachedFacts DEF TypeInv, InHandOpen, Progress, InHand, Reached, MetricsEnabled, Before, Handling, Answer, End, metrics, history
<1>19. ASSUME ClientGone PROVE InHandOpen'
    BY <1>19, HandlerPairs, ReachedFacts DEF TypeInv, InHandOpen, Progress, InHand, Reached, MetricsEnabled, Before, Handling, ClientGone, End, metrics, history
<1>20. QED
    BY <1>1, <1>2, <1>3, <1>4, <1>5, <1>6, <1>7, <1>8, <1>9, <1>10, <1>11,
       <1>12, <1>13, <1>14, <1>15, <1>16, <1>17, <1>18, <1>19, ActionCases,
       Zenon

\* Metrics are opened one module after the other.
LEMMA NotYetOpenedStep ==
    TypeInv /\ Progress /\ NotYetOpened /\ [Next]_vars => NotYetOpened'
<1> SUFFICES ASSUME TypeInv, Progress, NotYetOpened, [Next]_vars PROVE NotYetOpened'
    OBVIOUS
<1>1. ASSUME \/ UNCHANGED vars
             \/ Tick
      PROVE  UNCHANGED <<pc, conf, next, executed, isError, opened>>
    BY <1>1 DEF vars, metrics, history, Tick
<1>2. ASSUME UNCHANGED <<pc, conf, next, executed, isError, opened>> PROVE NotYetOpened'
    BY <1>2 DEF NotYetOpened, InHand, Reached
<1>3. ASSUME RejectHost PROVE NotYetOpened'
    BY <1>3, HandlerPairs, ReachedFacts DEF TypeInv, NotYetOpened, Progress, InHand, Reached, MetricsEnabled, Before, Handling, RejectHost, End, metrics, history
<1>4. ASSUME NoConfiguration PROVE NotYetOpened'
    BY <1>4, HandlerPairs, ReachedFacts DEF TypeInv, NotYetOpened, Progress, InHand, Reached, MetricsEnabled, Before, Handling, NoConfiguration, End, metrics, history
<1>5. ASSUME FindConfiguration PROVE NotYetOpened'
    BY <1>5, HandlerPairs, ReachedFacts DEF TypeInv, NotYetOpened, Progress, InHand, Reached, MetricsEnabled, Before, Handling, FindConfiguration, metrics, history
<1>6. ASSUME AnswerEarly PROVE NotYetOpened'
    BY <1>6, HandlerPairs, ReachedFacts DEF TypeInv, NotYetOpened, Progress, InHand, Reached, MetricsEnabled, Before, Handling, AnswerEarly, End, metrics, history
<1>7. ASSUME Sanitize PROVE NotYetOpened'
    BY <1>7, HandlerPairs, ReachedFacts DEF TypeInv, NotYetOpened, Progress, InHand, Reached, MetricsEnabled, Before, Handling, Sanitize, metrics, history
<1>8. ASSUME EnterModules PROVE NotYetOpened'
    BY <1>8, HandlerPairs, ReachedFacts DEF TypeInv, NotYetOpened, Progress, InHand, Reached, MetricsEnabled, Before, Handling, EnterModules, metrics, history
<1>9. ASSUME StartHandler PROVE NotYetOpened'
  <2>1. /\ pc = "modules" /\ pc' = "handling" /\ Current \in Handlers
        /\ opened' = IF MetricsEnabled THEN opened \cup {Current} ELSE opened
        /\ UNCHANGED <<cfg, conf, next, isError, closed, result, stuck>>
    BY <1>9, CurrentHandler DEF StartHandler, Handling, history
  <2>2. Reached' = next /\ Reached + 1 = next /\ Reached \in Nat
    BY <2>1, ReachedFacts DEF Reached
  <2>3. \A h \in Handlers : InHand(h) => InHand(h)'
    BY <2>1, <2>2, HandlerPairs DEF InHand
  <2>4. \A h : h = Current => InHand(h)' /\ h[1] = conf
    BY <2>1, <2>2 DEF InHand, Current
  <2>5. \A h \in opened : h \in Handlers
    BY DEF TypeInv
  <2>6. \A h \in opened' : h[1] = "error" => isError'
    BY <2>1, <2>4 DEF NotYetOpened, Progress
  <2>7. \A h \in opened' : h[1] = conf' => InHand(h)'
    BY <2>1, <2>3, <2>4, <2>5 DEF NotYetOpened, Handling
  <2>8. QED
    BY <2>1, <2>6, <2>7 DEF NotYetOpened, Before
<1>10. ASSUME NoModuleLeft PROVE NotYetOpened'
    BY <1>10, HandlerPairs, ReachedFacts DEF TypeInv, NotYetOpened, Progress, InHand, Reached, MetricsEnabled, Before, Handling, NoModuleLeft, metrics, history
<1>11. ASSUME NEW r \in Replies, Answers(r) PROVE NotYetOpened'
  <2>1. /\ pc = "handling" /\ pc' = "modifying"
        /\ UNCHANGED <<cfg, conf, isError, opened, closed, result, stuck>>
    BY <1>11 DEF Answers, Returns, metrics
  <2>2. Len(executed') = next
    BY <1>11, JoinFacts DEF Answers, Returns
  <2>3. Reached' = Reached
    BY <2>1, <2>2 DEF Reached
  <2>4. QED
    BY <2>1, <2>3 DEF NotYetOpened, InHand, MetricsEnabled, Before, Handling
<1>12. ASSUME HandlerPasses PROVE NotYetOpened'
  <2>1. /\ pc = "handling" /\ pc' = "modules"
        /\ UNCHANGED <<cfg, conf, isError, opened, closed, result, stuck>>
    BY <1>12 DEF HandlerPasses, Returns, metrics
  <2>2. Len(executed') = next
    BY <1>12, JoinFacts DEF HandlerPasses, Returns
  <2>3. Reached' = Reached
    BY <2>1, <2>2 DEF Reached
  <2>4. QED
    BY <2>1, <2>3 DEF NotYetOpened, InHand, MetricsEnabled, Before, Handling
<1>13. ASSUME EnterError PROVE NotYetOpened'
  <2>1. /\ pc' = "modules" /\ conf' = "error" /\ opened' = opened /\ ~isError /\ isError'
    BY <1>13 DEF EnterError, Returns
  <2>2. QED
    BY <2>1 DEF NotYetOpened, Before
<1>14. ASSUME HandlerTimeout PROVE NotYetOpened'
    BY <1>14 DEF NotYetOpened, HandlerTimeout, End, Before, Handling
<1>15. ASSUME Modify PROVE NotYetOpened'
    BY <1>15 DEF NotYetOpened, Modify, Before, Handling
<1>16. ASSUME ModifyFails PROVE NotYetOpened'
    BY <1>16 DEF NotYetOpened, ModifyFails, End, Before, Handling
<1>17. ASSUME ModifyTimeout PROVE NotYetOpened'
    BY <1>17 DEF NotYetOpened, ModifyTimeout, End, Before, Handling
<1>18. ASSUME Answer PROVE NotYetOpened'
    BY <1>18, HandlerPairs, ReachedFacts DEF TypeInv, NotYetOpened, Progress, InHand, Reached, MetricsEnabled, Before, Handling, Answer, End, metrics, history
<1>19. ASSUME ClientGone PROVE NotYetOpened'
    BY <1>19, HandlerPairs, ReachedFacts DEF TypeInv, NotYetOpened, Progress, InHand, Reached, MetricsEnabled, Before, Handling, ClientGone, End, metrics, history
<1>20. QED
    BY <1>1, <1>2, <1>3, <1>4, <1>5, <1>6, <1>7, <1>8, <1>9, <1>10, <1>11,
       <1>12, <1>13, <1>14, <1>15, <1>16, <1>17, <1>18, <1>19, ActionCases,
       Zenon

\* The log is written at the end.
LEMMA LoggingStep ==
    TypeInv /\ Progress /\ Logging /\ [Next]_vars => Logging'
<1> SUFFICES ASSUME TypeInv, Progress, Logging, [Next]_vars PROVE Logging'
    OBVIOUS
<1>1. ASSUME \/ UNCHANGED vars
             \/ Tick
      PROVE  UNCHANGED <<cfg, pc, parts, logs, result>>
    BY <1>1 DEF vars, metrics, history, Tick
<1>2. ASSUME UNCHANGED <<cfg, pc, parts, logs, result>> PROVE Logging'
    BY <1>2 DEF TypeInv, Progress, Logging, Confs
<1>3. ASSUME RejectHost PROVE Logging'
    BY <1>3 DEF TypeInv, Progress, Logging, Confs, RejectHost, LogGlobal,
       End, metrics, history
<1>4. ASSUME NoConfiguration PROVE Logging'
    BY <1>4 DEF TypeInv, Progress, Logging, Confs, NoConfiguration,
       LogGlobal, End, metrics, history
<1>5. ASSUME FindConfiguration PROVE Logging'
    BY <1>5 DEF TypeInv, Progress, Logging, Confs, FindConfiguration,
       metrics, history
<1>6. ASSUME AnswerEarly PROVE Logging'
    BY <1>6 DEF TypeInv, Progress, Logging, Confs, AnswerEarly, LogAccess,
       End, metrics, history
<1>7. ASSUME Sanitize PROVE Logging'
    BY <1>7 DEF TypeInv, Progress, Logging, Confs, Sanitize, metrics,
       history
<1>8. ASSUME EnterModules PROVE Logging'
    BY <1>8 DEF TypeInv, Progress, Logging, Confs, EnterModules, metrics,
       history
<1>9. ASSUME StartHandler PROVE Logging'
    BY <1>9 DEF TypeInv, Progress, Logging, Confs, StartHandler, metrics,
       history
<1>10. ASSUME NoModuleLeft PROVE Logging'
    BY <1>10 DEF TypeInv, Progress, Logging, Confs, NoModuleLeft, metrics,
       history
<1>11. ASSUME NEW r \in Replies, Answers(r) PROVE Logging'
    BY <1>11 DEF Progress, Logging, Answers, Returns
<1>12. ASSUME HandlerPasses PROVE Logging'
    BY <1>12 DEF Progress, Logging, HandlerPasses, Returns
<1>13. ASSUME EnterError PROVE Logging'
    BY <1>13 DEF Progress, Logging, EnterError, Returns
<1>14. ASSUME HandlerTimeout PROVE Logging'
    BY <1>14 DEF TypeInv, Progress, Logging, Confs, HandlerTimeout, End,
       history
<1>15. ASSUME Modify PROVE Logging'
    BY <1>15 DEF TypeInv, Progress, Logging, Confs, Modify, history
<1>16. ASSUME ModifyFails PROVE Logging'
    BY <1>16 DEF TypeInv, Progress, Logging, Confs, ModifyFails, LogAccess,
       End
<1>17. ASSUME ModifyTimeout PROVE Logging'
    BY <1>17 DEF TypeInv, Progress, Logging, Confs, ModifyTimeout, End
<1>18. ASSUME Answer PROVE Logging'
    BY <1>18 DEF TypeInv, Progress, Logging, Confs, Answer, LogAccess, End,
       metrics, history
<1>19. ASSUME ClientGone PROVE Logging'
    BY <1>19 DEF TypeInv, Progress, Logging, Confs, ClientGone, End,
       metrics, history
<1>20. QED
    BY <1>1, <1>2, <1>3, <1>4, <1>5, <1>6, <1>7, <1>8, <1>9, <1>10, <1>11,
       <1>12, <1>13, <1>14, <1>15, <1>16, <1>17, <1>18, <1>19, ActionCases,
       Zenon

\* A response that is sent has gone through the modules.
LEMMA ResponseChainStep ==
    TypeInv /\ Progress /\ Chain /\ ResponseChain /\ [Next]_vars => ResponseChain'
<1> SUFFICES ASSUME TypeInv, Progress, Chain, ResponseChain, [Next]_vars PROVE ResponseChain'
    OBVIOUS
<1>1. ASSUME \/ UNCHANGED vars
             \/ Tick
      PROVE  UNCHANGED <<conf, modified, result, ran, stuck>>
    BY <1>1 DEF vars, metrics, history, Tick
<1>2. ASSUME UNCHANGED <<conf, modified, result, ran, stuck>> PROVE ResponseChain'
    BY <1>2 DEF ResponseChain, Progress
<1>3. ASSUME RejectHost PROVE ResponseChain'
  <2>1. modified = << >> /\ ran[conf] = << >>
    BY <1>3 DEF RejectHost, Chain, Before, TypeInv
  <2>2. QED
    BY <1>3, <2>1 DEF RejectHost, ResponseChain, history
<1>4. ASSUME NoConfiguration PROVE ResponseChain'
  <2>1. modified = << >> /\ ran[conf] = << >>
    BY <1>4 DEF NoConfiguration, Chain, Before, TypeInv
  <2>2. QED
    BY <1>4, <2>1 DEF NoConfiguration, ResponseChain, history
<1>5. ASSUME FindConfiguration PROVE ResponseChain'
    BY <1>5 DEF ResponseChain, Progress, FindConfiguration, metrics,
       history
<1>6. ASSUME AnswerEarly PROVE ResponseChain'
  <2>1. modified = << >> /\ ran[conf] = << >>
    BY <1>6 DEF AnswerEarly, Chain, Before, TypeInv
  <2>2. QED
    BY <1>6, <2>1 DEF AnswerEarly, ResponseChain, history
<1>7. ASSUME Sanitize PROVE ResponseChain'
    BY <1>7 DEF ResponseChain, Progress, Sanitize, metrics, history
<1>8. ASSUME EnterModules PROVE ResponseChain'
    BY <1>8 DEF ResponseChain, Progress, EnterModules, metrics, history
<1>9. ASSUME StartHandler PROVE ResponseChain'
    BY <1>9 DEF ResponseChain, Progress, StartHandler, metrics, history
<1>10. ASSUME NoModuleLeft PROVE ResponseChain'
    BY <1>10 DEF ResponseChain, Progress, NoModuleLeft, metrics, history
<1>11. ASSUME NEW r \in Replies, Answers(r) PROVE ResponseChain'
    BY <1>11 DEF ResponseChain, Progress, Answers, Returns
<1>12. ASSUME HandlerPasses PROVE ResponseChain'
    BY <1>12 DEF ResponseChain, Progress, HandlerPasses, Returns
<1>13. ASSUME EnterError PROVE ResponseChain'
    BY <1>13 DEF ResponseChain, Progress, EnterError, Returns
<1>14. ASSUME HandlerTimeout PROVE ResponseChain'
    BY <1>14 DEF ResponseChain, HandlerTimeout, End
<1>15. ASSUME Modify PROVE ResponseChain'
    BY <1>15 DEF ResponseChain, Progress, Modify
<1>16. ASSUME ModifyFails PROVE ResponseChain'
  <2>1. stuck' # NoHandler
    BY <1>16, LastFacts, HandlerPairs DEF ModifyFails
  <2>2. QED
    BY <2>1 DEF ResponseChain
<1>17. ASSUME ModifyTimeout PROVE ResponseChain'
    BY <1>17 DEF ResponseChain, ModifyTimeout, End
<1>18. ASSUME Answer PROVE ResponseChain'
  <2>1. pc = "modifying" /\ Len(executed) = 0 /\ UNCHANGED <<conf, modified, ran>>
    BY <1>18 DEF Answer, history
  <2>2. Len(modified) \in Nat
    BY LenProperties DEF TypeInv
  <2>3. QED
    BY <2>1, <2>2 DEF Chain, ResponseChain
<1>19. ASSUME ClientGone PROVE ResponseChain'
    BY <1>19 DEF ResponseChain, Progress, ClientGone, End, metrics, history
<1>20. QED
    BY <1>1, <1>2, <1>3, <1>4, <1>5, <1>6, <1>7, <1>8, <1>9, <1>10, <1>11,
       <1>12, <1>13, <1>14, <1>15, <1>16, <1>17, <1>18, <1>19, ActionCases,
       Zenon

\* The entry in the log is the one of the final configuration.
LEMMA LoggedOnceStep ==
    TypeInv /\ Progress /\ Logging /\ LoggedOnce /\ [Next]_vars => LoggedOnce'
<1> SUFFICES ASSUME TypeInv, Progress, Logging, LoggedOnce, [Next]_vars PROVE LoggedOnce'
    OBVIOUS
<1>1. ASSUME \/ UNCHANGED vars
             \/ Tick
      PROVE  UNCHANGED <<cfg, conf, logs, result>>
    BY <1>1 DEF vars, metrics, history, Tick
<1>2. ASSUME UNCHANGED <<cfg, conf, logs, result>> PROVE LoggedOnce'
    BY <1>2 DEF TypeInv, LoggedOnce, Progress, Logging, Confs
<1>3. ASSUME RejectHost PROVE LoggedOnce'
    BY <1>3 DEF TypeInv, LoggedOnce, Progress, Logging, Confs, RejectHost,
       LogGlobal, End, metrics, history
<1>4. ASSUME NoConfiguration PROVE LoggedOnce'
    BY <1>4 DEF TypeInv, LoggedOnce, Progress, Logging, Confs,
       NoConfiguration, LogGlobal, End, metrics, history
<1>5. ASSUME FindConfiguration PROVE LoggedOnce'
    BY <1>5 DEF TypeInv, LoggedOnce, Progress, Logging, Confs,
       FindConfiguration, metrics, history
<1>6. ASSUME AnswerEarly PROVE LoggedOnce'
    BY <1>6 DEF TypeInv, LoggedOnce, Progress, Logging, Confs, AnswerEarly,
       LogAccess, End, metrics, history
<1>7. ASSUME Sanitize PROVE LoggedOnce'
    BY <1>7 DEF TypeInv, LoggedOnce, Progress, Logging, Confs, Sanitize,
       metrics, history
<1>8. ASSUME EnterModules PROVE LoggedOnce'
    BY <1>8 DEF TypeInv, LoggedOnce, Progress, Logging, Confs,
       EnterModules, metrics, history
<1>9. ASSUME StartHandler PROVE LoggedOnce'
    BY <1>9 DEF TypeInv, LoggedOnce, Progress, Logging, Confs,
       StartHandler, metrics, history
<1>10. ASSUME NoModuleLeft PROVE LoggedOnce'
    BY <1>10 DEF TypeInv, LoggedOnce, Progress, Logging, Confs,
       NoModuleLeft, metrics, history
<1>11. ASSUME NEW r \in Replies, Answers(r) PROVE LoggedOnce'
    BY <1>11 DEF LoggedOnce, Progress, Logging, TypeInv, Answers, Returns
<1>12. ASSUME HandlerPasses PROVE LoggedOnce'
    BY <1>12 DEF LoggedOnce, Progress, Logging, TypeInv, HandlerPasses, Returns
<1>13. ASSUME EnterError PROVE LoggedOnce'
    BY <1>13 DEF LoggedOnce, Progress, Logging, TypeInv, EnterError, Returns
<1>14. ASSUME HandlerTimeout PROVE LoggedOnce'
    BY <1>14 DEF TypeInv, LoggedOnce, Progress, Logging, Confs,
       HandlerTimeout, End, history
<1>15. ASSUME Modify PROVE LoggedOnce'
    BY <1>15 DEF TypeInv, LoggedOnce, Progress, Logging, Confs, Modify,
       history
<1>16. ASSUME ModifyFails PROVE LoggedOnce'
    BY <1>16 DEF TypeInv, LoggedOnce, Progress, Logging, Confs,
       ModifyFails, LogAccess, End
<1>17. ASSUME ModifyTimeout PROVE LoggedOnce'
    BY <1>17 DEF TypeInv, LoggedOnce, Progress, Logging, Confs,
       ModifyTimeout, End
<1>18. ASSUME Answer PROVE LoggedOnce'
    BY <1>18 DEF TypeInv, LoggedOnce, Progress, Logging, Confs, Answer,
       LogAccess, End, metrics, history
<1>19. ASSUME ClientGone PROVE LoggedOnce'
    BY <1>19 DEF TypeInv, LoggedOnce, Progress, Logging, Confs, ClientGone,
       End, metrics, history
<1>20. QED
    BY <1>1, <1>2, <1>3, <1>4, <1>5, <1>6, <1>7, <1>8, <1>9, <1>10, <1>11,
       <1>12, <1>13, <1>14, <1>15, <1>16, <1>17, <1>18, <1>19, ActionCases,
       Zenon

\* What a step makes of the response: another kind of response, or the page of
\* a status without an error configuration.
LEMMA NotHandledStep ==
    TypeInv /\ NotHandled /\ [Next]_vars => NotHandled'
<1> SUFFICES ASSUME TypeInv, NotHandled, [Next]_vars PROVE NotHandled'
    OBVIOUS
<1> DEFINE Others == {"none", "not found", "module", "failure", "error page"}
<1>1. cfg.handled \subseteq Statuses /\ Others \cap cfg.handled = {}
    BY PipelineAssumption DEF TypeInv, Setting
<1>2. CASE HandlerStatus
  <2>1. PICK s \in Statuses, back \in BOOLEAN :
           /\ ~(~isError /\ s \in cfg.handled /\ (back \/ RequestCloned))
           /\ Answers(IF isError THEN "error page" ELSE s)
    BY <1>2 DEF HandlerStatus
  <2>2. s \in cfg.handled => isError
    BY <2>1 DEF RequestCloned
  <2>3. cfg' = cfg /\ response' = IF isError THEN "error page" ELSE s
    BY <2>1 DEF Answers
  <2>4. QED
    BY <1>1, <2>2, <2>3 DEF NotHandled
<1>3. CASE HandlerResponds \/ HandlerFails \/ HandlerDrops
    BY <1>1, <1>3 DEF HandlerResponds, HandlerFails, HandlerDrops, Answers, NotHandled
<1>4. CASE NoModuleLeft \/ ModifyFails
    BY <1>1, <1>4 DEF NoModuleLeft, ModifyFails, NotHandled
<1>5. CASE \/ UNCHANGED vars \/ RejectHost \/ NoConfiguration \/ FindConfiguration
           \/ AnswerEarly \/ Sanitize \/ EnterModules \/ StartHandler \/ HandlerPasses
           \/ EnterError \/ HandlerTimeout \/ Modify \/ ModifyTimeout \/ Answer
           \/ ClientGone \/ Tick
  <2>1. UNCHANGED <<cfg, response>>
    BY <1>5 DEF vars, RejectHost, NoConfiguration, FindConfiguration, AnswerEarly,
       Sanitize, EnterModules, StartHandler, HandlerPasses, EnterError,
       HandlerTimeout, Modify, ModifyTimeout, Answer, ClientGone, Tick
  <2>2. QED
    BY <2>1 DEF NotHandled
<1>6. QED
    BY <1>2, <1>3, <1>4, <1>5 DEF Next, ServerStep, ModuleStep

-----------------------------------------------------------------------------
\* The inductive invariant holds in every reachable state.
LEMMA PipelineInvariant == Spec => []IInv
<1>1. Init => IInv
  <2> SUFFICES ASSUME Init PROVE IInv
    OBVIOUS
  <2>1. TypeInv
    <3>1. cfg \in Setting
        BY PipelineAssumption DEF Init
    <3>2. executed \in Seq(Handlers) /\ modified \in Seq(Handlers)
        BY EmptySeq DEF Init
    <3>3. ran \in [Confs -> Seq(Handlers)] /\ closed \in [Handlers -> Nat]
        BY EmptySeq DEF Init
    <3>4. next \in Nat \ {0} /\ logs \in Nat
        BY DEF Init
    <3>5. /\ pc \in Before \cup Handling \cup {"modifying", "end"} /\ conf \in Confs
          /\ result \in {"none", "response", "timeout", "dropped"} /\ opened \subseteq Handlers
          /\ stuck \in Handlers \cup {NoHandler} /\ parts \in BOOLEAN /\ isError \in BOOLEAN
        BY DEF Init, Before, Handling, Confs
    <3>6. QED
        BY <3>1, <3>2, <3>3, <3>4, <3>5 DEF TypeInv
  <2>2. Progress
    BY DEF Init, Progress, Before, Handling
  <2>3. Chain
    BY DEF Init, Chain, Before, Handling, Confs
  <2>4. ResponseChain
    BY DEF Init, ResponseChain
  <2>5. ClosedOnce /\ OpenInHand /\ InHandOpen /\ NotYetOpened
    BY HandlerPairs DEF Init, ClosedOnce, OpenInHand, InHandOpen, NotYetOpened, InHand,
       Reached, Before, Handling
  <2>6. Logging /\ LoggedOnce
    BY DEF Init, Logging, LoggedOnce
  <2>7. NotHandled
    BY <2>1, PipelineAssumption DEF Init, TypeInv, Setting, NotHandled
  <2>8. QED
    BY <2>1, <2>2, <2>3, <2>4, <2>5, <2>6, <2>7 DEF IInv
<1>2. IInv /\ [Next]_vars => IInv'
    BY TypeStep, ProgressStep, ChainStep, ClosedOnceStep, OpenInHandStep, InHandOpenStep,
       NotYetOpenedStep, LoggingStep, ResponseChainStep, LoggedOnceStep, NotHandledStep
       DEF IInv
<1>3. QED
    BY <1>1, <1>2, PTL DEF Spec

\* A response that request_handler.rs sends has gone through every module of
\* its configuration that saw the request, each once, in the opposite order,
\* however many modules there are and whatever they do.
THEOREM ResponseChainAlways == Spec => []ResponseChain
<1>1. IInv => ResponseChain
    BY DEF IInv
<1>2. QED
    BY <1>1, PipelineInvariant, PTL

\* Metrics that a module opens are closed exactly once when the request is
\* answered or times out, except those of the module whose
\* response_modifying_handler did not return a response.
THEOREM MetricsClosedAlways == Spec => []MetricsClosed
<1>1. ASSUME IInv PROVE MetricsClosed
  <2>1. \A h \in Handlers : closed[h] \in Nat /\ closed[h] <= 1 /\ (closed[h] = 1 => h \in opened)
    BY <1>1 DEF IInv, TypeInv, ClosedOnce
  <2>2. ASSUME result \in {"response", "timeout"}, NEW h \in opened
        PROVE  closed[h] = IF h = stuck THEN 0 ELSE 1
    <3>1. h \in Handlers /\ h[2] \in Nat \ {0} /\ h # NoHandler
        BY <1>1, HandlerPairs DEF IInv, TypeInv
    <3>2. executed = << >> /\ pc = "end"
        BY <1>1, <2>2 DEF IInv, Progress
    <3>3. ~InHand(h)
        BY <3>1, <3>2 DEF InHand, Reached
    <3>4. closed[h] = 0 => h = stuck
        BY <1>1, <2>2, <3>3 DEF IInv, OpenInHand
    <3>5. h = stuck => closed[h] = 0
        BY <1>1, <3>1 DEF IInv, InHandOpen
    <3>6. QED
        BY <2>1, <3>1, <3>4, <3>5
  <2>3. QED
    BY <2>1, <2>2 DEF MetricsClosed
<1>2. QED
    BY <1>1, PipelineInvariant, PTL

\* An answered request is logged once if the final configuration logs and the
\* request was kept for it; one that times out or is dropped is not logged.
THEOREM LoggedOnceAlways == Spec => []LoggedOnce
<1>1. IInv => LoggedOnce
    BY DEF IInv
<1>2. QED
    BY <1>1, PipelineInvariant, PTL

\* A status with an error configuration is never answered with the default
\* page, whether the module hands the request back or the clone is used.
THEOREM ErrorConfigurationUsedAlways == Spec => []ErrorConfigurationUsed
<1>1. IInv => ErrorConfigurationUsed
    BY DEF IInv, NotHandled, ErrorConfigurationUsed
<1>2. QED
    BY <1>1, PipelineInvariant, PTL
=============================================================================
