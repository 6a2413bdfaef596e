---------------------------- MODULE MinerProofs ----------------------------
(* Type correctness of Miner, that EXIT is final, and its safety           *)
(* properties, each from an inductive invariant, for every set of          *)
(* channels, every ranking and every choice of events.                     *)
EXTENDS Miner, TLAPS

USE DEF vars, control, locals, clock, schedule, channels, user

-----------------------------------------------------------------------------
(* The initial state has the types.                                        *)
LEMMA InitType == Init => TypeOK
  BY DEF Init, TypeOK, ControlType, RunType, WorldType, States, MainPlaces,
         Sockets, SchedPlaces, MaybeChannel, MaybeId

(* Requests keep the types of what they set.                               *)
LEMMA StepControlType ==
    ASSUME TypeOK, [Next]_vars
    PROVE  ControlType'
<1> USE DEF TypeOK, ControlType, RunType, States
<1>1. ASSUME \/ RunBegins \/ RunRaises \/ LoopWakes \/ StepChannelsFetch
              \/ StepExit \/ Shutdown \/ WatchLoopStops
      PROVE  ControlType'
  <2>1. UNCHANGED <<state, change, refresh, update, clearCache, loaded>>
    BY <1>1 DEF RunBegins, RunRaises, LoopWakes, StepChannelsFetch, StepExit,
       Shutdown, WatchLoopStops
  <2> QED
    BY <2>1, TypeOK
<1>2. ASSUME \/ SetPaused \/ WindowBoundary \/ AuthBegins
      PROVE  ControlType'
  <2>1. UNCHANGED <<state, change, refresh, update, clearCache, loaded>>
    BY <1>2 DEF SetPaused, WindowBoundary, AuthBegins
  <2> QED
    BY <2>1, TypeOK
<1>3. ASSUME NEW c \in Channel, StreamChanges(c) \/ CheckFindsStream(c)
      PROVE  ControlType'
  <2>1. UNCHANGED <<state, change, refresh, update, clearCache, loaded>>
    BY <1>3 DEF StreamChanges, CheckFindsStream
  <2> QED
    BY <2>1, TypeOK
<1>4. ASSUME RunStarted PROVE ControlType'
  BY <1>4, TypeOK DEF RunStarted, RequestInventoryRefresh, Open
<1>5. ASSUME LoopHead PROVE ControlType'
  BY <1>5, TypeOK DEF LoopHead, ActivatedState, Activated, ActivatedRefresh,
     ActivatedUpdate, Open
<1>6. ASSUME LoopTail PROVE ControlType'
  BY <1>6, TypeOK DEF LoopTail, ActivatedState, Activated, ActivatedRefresh,
     ActivatedUpdate
<1>7. ASSUME StepIdle PROVE ControlType'
  BY <1>7, TypeOK DEF StepIdle
<1>8. ASSUME StepInventoryFetch PROVE ControlType'
  BY <1>8, TypeOK DEF StepInventoryFetch
<1>9. ASSUME StepGamesUpdate PROVE ControlType'
  BY <1>9, TypeOK DEF StepGamesUpdate
<1>10. ASSUME StepChannelsCleanup PROVE ControlType'
  BY <1>10, TypeOK DEF StepChannelsCleanup, ChangeState
<1>11. ASSUME StepChannelSwitch PROVE ControlType'
  BY <1>11, TypeOK DEF StepChannelSwitch, SwitchToSelected, SwitchInManualMode,
     ManualModeEnds, SwitchByPriority, KeepOrIdle, SwitchTo, Watch, ChangeState
<1>12. ASSUME InventoryFetched PROVE ControlType'
  BY <1>12, TypeOK DEF InventoryFetched, ChangeState
<1>13. ASSUME GamesUpdated PROVE ControlType'
  BY <1>13, TypeOK DEF GamesUpdated, ChangeState
<1>14. ASSUME ChannelsFetched PROVE ControlType'
  BY <1>14, TypeOK DEF ChannelsFetched, ChangeState
<1>15. ASSUME DelayElapsed PROVE ControlType'
  BY <1>15, TypeOK DEF DelayElapsed, Watch
<1>16. ASSUME ScheduleStarts PROVE ControlType'
  BY <1>16, TypeOK DEF ScheduleStarts, Iterate, ChangeState, Reopened,
     RequestInventoryRefresh
<1>17. ASSUME ScheduleIterates PROVE ControlType'
  BY <1>17, TypeOK DEF ScheduleIterates, Iterate, ChangeState, Reopened,
     RequestInventoryRefresh
<1>18. ASSUME ScheduleDrained PROVE ControlType'
  BY <1>18, TypeOK DEF ScheduleDrained, ChangeState
<1>19. ASSUME AuthEnds PROVE ControlType'
  BY <1>19, TypeOK DEF AuthEnds
<1>20. ASSUME NEW c \in Channel, ChannelLost(c) PROVE ControlType'
  BY <1>20, TypeOK DEF ChannelLost, ChangeState
<1>21. ASSUME NEW c \in Channel, SelectChannel(c) PROVE ControlType'
  BY <1>21, TypeOK DEF SelectChannel, ChangeState
<1>22. ASSUME DropClaimed PROVE ControlType'
  BY <1>22, TypeOK DEF DropClaimed, RequestGamesUpdate
<1>23. ASSUME EstimateSpent PROVE ControlType'
  BY <1>23, TypeOK DEF EstimateSpent, ChangeState
<1>24. ASSUME ExitManualMode PROVE ControlType'
  BY <1>24, TypeOK DEF ExitManualMode, ChangeState
<1>25. ASSUME SettingsChanged PROVE ControlType'
  BY <1>25, TypeOK DEF SettingsChanged, RequestGamesUpdate
<1>26. ASSUME NEW clear \in BOOLEAN, Reload(clear) PROVE ControlType'
  BY <1>26, TypeOK DEF Reload, RequestInventoryRefresh
<1>27. ASSUME MaintenanceCleanup PROVE ControlType'
  BY <1>27, TypeOK DEF MaintenanceCleanup, ChangeState
<1>28. ASSUME MaintenanceReload PROVE ControlType'
  BY <1>28, TypeOK DEF MaintenanceReload, RequestInventoryRefresh
<1>29. ASSUME Close PROVE ControlType'
  BY <1>29, TypeOK DEF Close, ChangeState
<1>30. ASSUME RunAuthorized PROVE ControlType'
  BY <1>30, TypeOK DEF RunAuthorized
<1>31. ASSUME SocketsReady PROVE ControlType'
  BY <1>31, TypeOK DEF SocketsReady
<1>32. ASSUME UNCHANGED vars PROVE ControlType'
  BY <1>32, TypeOK
<1> QED
  BY <1>1, <1>2, <1>3, <1>4, <1>5, <1>6, <1>7, <1>8, <1>9, <1>10, <1>11, <1>12,
     <1>13, <1>14, <1>15, <1>16, <1>17, <1>18, <1>19, <1>20, <1>21, <1>22,
     <1>23, <1>24, <1>25, <1>26, <1>27, <1>28, <1>29, <1>30, <1>31, <1>32
  DEF Next, MainStep, MainResumes, ScheduleStep, Environment

(* So do the steps of _run and of the clock.                               *)
LEMMA StepRunType ==
    ASSUME TypeOK, [Next]_vars
    PROVE  RunType'
<1> USE DEF TypeOK, RunType, WorldType, MainPlaces, Sockets, Awaits, MaybeChannel
<1>1. ASSUME \/ ScheduleDrained \/ WatchLoopStops
      PROVE  RunType'
  <2>1. UNCHANGED <<main, target, kept, fullCleanup, wanted, mnt, paused,
                    inWindow>>
    BY <1>1 DEF ScheduleDrained, WatchLoopStops
  <2> QED
    BY <2>1, TypeOK
<1>2. ASSUME \/ DropClaimed \/ EstimateSpent \/ ExitManualMode \/ SettingsChanged
              \/ MaintenanceCleanup \/ Close
      PROVE  RunType'
  <2>1. UNCHANGED <<main, target, kept, fullCleanup, wanted, mnt, paused,
                    inWindow>>
    BY <1>2 DEF DropClaimed, EstimateSpent, ExitManualMode, SettingsChanged,
       MaintenanceCleanup, Close
  <2> QED
    BY <2>1, TypeOK
<1>3. ASSUME NEW c \in Channel, StreamChanges(c) \/ CheckFindsStream(c) \/ ChannelLost(c) \/ SelectChannel(c)
      PROVE  RunType'
  <2>1. UNCHANGED <<main, target, kept, fullCleanup, wanted, mnt, paused,
                    inWindow>>
    BY <1>3 DEF StreamChanges, CheckFindsStream, ChannelLost, SelectChannel
  <2> QED
    BY <2>1, TypeOK
<1>4. ASSUME NEW clear \in BOOLEAN, Reload(clear)
      PROVE  RunType'
  <2>1. UNCHANGED <<main, target, kept, fullCleanup, wanted, mnt, paused,
                    inWindow>>
    BY <1>4 DEF Reload
  <2> QED
    BY <2>1, TypeOK
<1>5. ASSUME RunBegins PROVE RunType'
  BY <1>5, TypeOK DEF RunBegins
<1>6. ASSUME RunStarted PROVE RunType'
  BY <1>6, TypeOK DEF RunStarted, RequestInventoryRefresh, Open
<1>7. ASSUME RunRaises PROVE RunType'
  BY <1>7, TypeOK DEF RunRaises
<1>8. ASSUME LoopHead PROVE RunType'
  BY <1>8, TypeOK DEF LoopHead, ActivatedState, Activated, ActivatedRefresh,
     ActivatedUpdate, Open
<1>9. ASSUME LoopTail PROVE RunType'
  BY <1>9, TypeOK DEF LoopTail, ActivatedState, Activated, ActivatedRefresh,
     ActivatedUpdate
<1>10. ASSUME LoopWakes PROVE RunType'
  BY <1>10, TypeOK DEF LoopWakes
<1>11. ASSUME StepIdle PROVE RunType'
  BY <1>11, TypeOK DEF StepIdle
<1>12. ASSUME StepInventoryFetch PROVE RunType'
  BY <1>12, TypeOK DEF StepInventoryFetch
<1>13. ASSUME StepGamesUpdate PROVE RunType'
  BY <1>13, TypeOK DEF StepGamesUpdate
<1>14. ASSUME StepChannelsCleanup PROVE RunType'
  BY <1>14, TypeOK DEF StepChannelsCleanup, ChangeState
<1>15. ASSUME StepChannelsFetch PROVE RunType'
  BY <1>15, TypeOK DEF StepChannelsFetch
<1>16. ASSUME StepChannelSwitch PROVE RunType'
  BY <1>16, TypeOK DEF StepChannelSwitch, SwitchToSelected, Selected,
     SwitchInManualMode, ManualModeEnds, SwitchByPriority, KeepOrIdle, SwitchTo, Watch, ChangeState
<1>17. ASSUME StepExit PROVE RunType'
  BY <1>17, TypeOK DEF StepExit
<1>18. ASSUME InventoryFetched PROVE RunType'
  BY <1>18, TypeOK DEF InventoryFetched, ChangeState
<1>19. ASSUME GamesUpdated PROVE RunType'
  BY <1>19, TypeOK DEF GamesUpdated, ChangeState
<1>20. ASSUME ChannelsFetched PROVE RunType'
  BY <1>20, TypeOK DEF ChannelsFetched, ChangeState
<1>21. ASSUME DelayElapsed PROVE RunType'
  BY <1>21, TypeOK DEF DelayElapsed, Watch
<1>22. ASSUME Shutdown PROVE RunType'
  BY <1>22, TypeOK DEF Shutdown
<1>23. ASSUME ScheduleStarts PROVE RunType'
  BY <1>23, TypeOK DEF ScheduleStarts, Iterate, ChangeState, Reopened,
     RequestInventoryRefresh
<1>24. ASSUME ScheduleIterates PROVE RunType'
  BY <1>24, TypeOK DEF ScheduleIterates, Iterate, ChangeState, Reopened,
     RequestInventoryRefresh
<1>25. ASSUME AuthEnds PROVE RunType'
  BY <1>25, TypeOK DEF AuthEnds
<1>26. ASSUME SetPaused PROVE RunType'
  BY <1>26, TypeOK DEF SetPaused
<1>27. ASSUME WindowBoundary PROVE RunType'
  BY <1>27, TypeOK DEF WindowBoundary
<1>28. ASSUME MaintenanceReload PROVE RunType'
  BY <1>28, TypeOK DEF MaintenanceReload, RequestInventoryRefresh
<1>29. ASSUME AuthBegins PROVE RunType'
  BY <1>29, TypeOK DEF AuthBegins
<1>30. ASSUME RunAuthorized PROVE RunType'
  BY <1>30, TypeOK DEF RunAuthorized
<1>31. ASSUME SocketsReady PROVE RunType'
  BY <1>31, TypeOK DEF SocketsReady
<1>32. ASSUME UNCHANGED vars PROVE RunType'
  BY <1>32, TypeOK
<1> QED
  BY <1>1, <1>2, <1>3, <1>4, <1>5, <1>6, <1>7, <1>8, <1>9, <1>10, <1>11, <1>12,
     <1>13, <1>14, <1>15, <1>16, <1>17, <1>18, <1>19, <1>20, <1>21, <1>22,
     <1>23, <1>24, <1>25, <1>26, <1>27, <1>28, <1>29, <1>30, <1>31, <1>32
  DEF Next, MainStep, MainResumes, ScheduleStep, Environment

(* So do the other tasks, the channels and the user.                       *)
LEMMA StepWorldType ==
    ASSUME TypeOK, [Next]_vars
    PROVE  WorldType'
<1> USE DEF TypeOK, RunType, WorldType, SchedPlaces, MaybeChannel, MaybeId,
        Open
<1>1. ASSUME \/ RunBegins \/ RunRaises \/ LoopTail \/ LoopWakes
              \/ StepGamesUpdate \/ StepExit \/ InventoryFetched
      PROVE  WorldType'
  <2>1. UNCHANGED <<sched, signal, wasOpen, watcher, watching, tracked, ready,
                    checking, selection, manual, changing>>
    BY <1>1 DEF RunBegins, RunRaises, LoopTail, LoopWakes, StepGamesUpdate,
       StepExit, InventoryFetched
  <2> QED
    BY <2>1, TypeOK
<1>2. ASSUME \/ WindowBoundary \/ MaintenanceCleanup \/ MaintenanceReload
      PROVE  WorldType'
  <2>1. UNCHANGED <<sched, signal, wasOpen, watcher, watching, tracked, ready,
                    checking, selection, manual, changing>>
    BY <1>2 DEF WindowBoundary, MaintenanceCleanup, MaintenanceReload
  <2> QED
    BY <2>1, TypeOK
<1>3. ASSUME NEW clear \in BOOLEAN, Reload(clear)
      PROVE  WorldType'
  <2>1. UNCHANGED <<sched, signal, wasOpen, watcher, watching, tracked, ready,
                    checking, selection, manual, changing>>
    BY <1>3 DEF Reload
  <2> QED
    BY <2>1, TypeOK
<1>4. ASSUME RunStarted PROVE WorldType'
  BY <1>4, TypeOK DEF RunStarted, RequestInventoryRefresh
<1>5. ASSUME LoopHead PROVE WorldType'
  BY <1>5, TypeOK DEF LoopHead, ActivatedState, Activated, ActivatedRefresh,
     ActivatedUpdate
<1>6. ASSUME StepIdle PROVE WorldType'
  BY <1>6, TypeOK DEF StepIdle
<1>7. ASSUME StepInventoryFetch PROVE WorldType'
  BY <1>7, TypeOK DEF StepInventoryFetch
<1>8. ASSUME StepChannelsCleanup PROVE WorldType'
  BY <1>8, TypeOK DEF StepChannelsCleanup, ChangeState
<1>9. ASSUME StepChannelsFetch PROVE WorldType'
  BY <1>9, TypeOK DEF StepChannelsFetch
<1>10. ASSUME StepChannelSwitch PROVE WorldType'
  BY <1>10, TypeOK DEF StepChannelSwitch, SwitchToSelected, Selected,
     SwitchInManualMode, ManualModeEnds, SwitchByPriority, KeepOrIdle, SwitchTo, Watch, ChangeState
<1>11. ASSUME GamesUpdated PROVE WorldType'
  BY <1>11, TypeOK DEF GamesUpdated, ChangeState
<1>12. ASSUME ChannelsFetched PROVE WorldType'
  BY <1>12, TypeOK DEF ChannelsFetched, Listings, Relinked, ChangeState
<1>13. ASSUME DelayElapsed PROVE WorldType'
  BY <1>13, TypeOK DEF DelayElapsed, Watch
<1>14. ASSUME Shutdown PROVE WorldType'
  BY <1>14, TypeOK DEF Shutdown
<1>15. ASSUME ScheduleStarts PROVE WorldType'
  BY <1>15, TypeOK DEF ScheduleStarts, Iterate, ChangeState, Reopened,
     RequestInventoryRefresh
<1>16. ASSUME ScheduleIterates PROVE WorldType'
  BY <1>16, TypeOK DEF ScheduleIterates, Iterate, ChangeState, Reopened,
     RequestInventoryRefresh
<1>17. ASSUME ScheduleDrained PROVE WorldType'
  BY <1>17, TypeOK DEF ScheduleDrained, ChangeState
<1>18. ASSUME WatchLoopStops PROVE WorldType'
  BY <1>18, TypeOK DEF WatchLoopStops
<1>19. ASSUME AuthEnds PROVE WorldType'
  BY <1>19, TypeOK DEF AuthEnds
<1>20. ASSUME NEW c \in Channel, StreamChanges(c) PROVE WorldType'
  BY <1>20, TypeOK DEF StreamChanges
<1>21. ASSUME NEW c \in Channel, CheckFindsStream(c) PROVE WorldType'
  BY <1>21, TypeOK DEF CheckFindsStream, Watch
<1>22. ASSUME NEW c \in Channel, ChannelLost(c) PROVE WorldType'
  BY <1>22, TypeOK DEF ChannelLost, ChangeState
<1>23. ASSUME NEW c \in Channel, SelectChannel(c) PROVE WorldType'
  BY <1>23, TypeOK DEF SelectChannel, ChangeState
<1>24. ASSUME DropClaimed PROVE WorldType'
  BY <1>24, TypeOK DEF DropClaimed, RequestGamesUpdate
<1>25. ASSUME EstimateSpent PROVE WorldType'
  BY <1>25, TypeOK DEF EstimateSpent, ChangeState
<1>26. ASSUME ExitManualMode PROVE WorldType'
  BY <1>26, TypeOK DEF ExitManualMode, ChangeState
<1>27. ASSUME SettingsChanged PROVE WorldType'
  BY <1>27, TypeOK DEF SettingsChanged, RequestGamesUpdate
<1>28. ASSUME SetPaused PROVE WorldType'
  BY <1>28, TypeOK DEF SetPaused
<1>29. ASSUME AuthBegins PROVE WorldType'
  BY <1>29, TypeOK DEF AuthBegins
<1>30. ASSUME Close PROVE WorldType'
  BY <1>30, TypeOK DEF Close, ChangeState
<1>31. ASSUME RunAuthorized PROVE WorldType'
  BY <1>31, TypeOK DEF RunAuthorized
<1>32. ASSUME SocketsReady PROVE WorldType'
  BY <1>32, TypeOK DEF SocketsReady
<1>33. ASSUME UNCHANGED vars PROVE WorldType'
  BY <1>33, TypeOK
<1> QED
  BY <1>1, <1>2, <1>3, <1>4, <1>5, <1>6, <1>7, <1>8, <1>9, <1>10, <1>11, <1>12,
     <1>13, <1>14, <1>15, <1>16, <1>17, <1>18, <1>19, <1>20, <1>21, <1>22,
     <1>23, <1>24, <1>25, <1>26, <1>27, <1>28, <1>29, <1>30, <1>31, <1>32,
     <1>33
  DEF Next, MainStep, MainResumes, ScheduleStep, Environment

(* Every variable keeps its type, and a local of _run its value only over  *)
(* the await that needs it.                                                *)
THEOREM TypeCorrect == Spec => []TypeOK
<1>1. TypeOK /\ [Next]_vars => TypeOK'
  BY StepControlType, StepRunType, StepWorldType DEF TypeOK
<1> QED
  BY InitType, <1>1, PTL DEF Spec

-----------------------------------------------------------------------------
ExitKept ==
    /\ state' = "EXIT"
    /\ main' # main =>
         main' \notin {"start", "reconnect", "claims", "gather", "delay"}

(* No action leaves EXIT or starts work in it.                             *)
LEMMA StepAfterExit ==
    ASSUME state = "EXIT", [Next]_vars
    PROVE  ExitKept
<1> USE DEF ExitKept
<1>1. ASSUME \/ WatchLoopStops
      PROVE  ExitKept
  <2>1. UNCHANGED <<state, main>>
    BY <1>1 DEF WatchLoopStops
  <2> QED
    BY <2>1, state = "EXIT"
<1>2. ASSUME \/ DropClaimed \/ SettingsChanged \/ SetPaused \/ WindowBoundary
              \/ MaintenanceReload
      PROVE  ExitKept
  <2>1. UNCHANGED <<state, main>>
    BY <1>2 DEF DropClaimed, SettingsChanged, SetPaused, WindowBoundary,
       MaintenanceReload
  <2> QED
    BY <2>1, state = "EXIT"
<1>3. ASSUME NEW c \in Channel, StreamChanges(c) \/ CheckFindsStream(c)
      PROVE  ExitKept
  <2>1. UNCHANGED <<state, main>>
    BY <1>3 DEF StreamChanges, CheckFindsStream
  <2> QED
    BY <2>1, state = "EXIT"
<1>4. ASSUME NEW clear \in BOOLEAN, Reload(clear)
      PROVE  ExitKept
  <2>1. UNCHANGED <<state, main>>
    BY <1>4 DEF Reload
  <2> QED
    BY <2>1, state = "EXIT"
<1>5. ASSUME RunBegins PROVE ExitKept
  BY <1>5, state = "EXIT" DEF RunBegins
<1>6. ASSUME RunStarted PROVE ExitKept
  BY <1>6, state = "EXIT" DEF RunStarted, RequestInventoryRefresh, Open
<1>7. ASSUME RunRaises PROVE ExitKept
  BY <1>7, state = "EXIT" DEF RunRaises
<1>8. ASSUME LoopHead PROVE ExitKept
  BY <1>8, state = "EXIT" DEF LoopHead, ActivatedState, Activated,
     ActivatedRefresh, ActivatedUpdate, Open
<1>9. ASSUME LoopTail PROVE ExitKept
  BY <1>9, state = "EXIT" DEF LoopTail, ActivatedState, Activated,
     ActivatedRefresh, ActivatedUpdate
<1>10. ASSUME LoopWakes PROVE ExitKept
  BY <1>10, state = "EXIT" DEF LoopWakes
<1>11. ASSUME StepIdle PROVE ExitKept
  BY <1>11, state = "EXIT" DEF StepIdle
<1>12. ASSUME StepInventoryFetch PROVE ExitKept
  BY <1>12, state = "EXIT" DEF StepInventoryFetch
<1>13. ASSUME StepGamesUpdate PROVE ExitKept
  BY <1>13, state = "EXIT" DEF StepGamesUpdate
<1>14. ASSUME StepChannelsCleanup PROVE ExitKept
  BY <1>14, state = "EXIT" DEF StepChannelsCleanup, ChangeState
<1>15. ASSUME StepChannelsFetch PROVE ExitKept
  BY <1>15, state = "EXIT" DEF StepChannelsFetch
<1>16. ASSUME StepChannelSwitch PROVE ExitKept
  BY <1>16, state = "EXIT" DEF StepChannelSwitch, SwitchToSelected,
     SwitchInManualMode, ManualModeEnds, SwitchByPriority, KeepOrIdle,
     SwitchTo, Watch, ChangeState
<1>17. ASSUME StepExit PROVE ExitKept
  BY <1>17, state = "EXIT" DEF StepExit
<1>18. ASSUME InventoryFetched PROVE ExitKept
  BY <1>18, state = "EXIT" DEF InventoryFetched, ChangeState
<1>19. ASSUME GamesUpdated PROVE ExitKept
  BY <1>19, state = "EXIT" DEF GamesUpdated, ChangeState
<1>20. ASSUME ChannelsFetched PROVE ExitKept
  BY <1>20, state = "EXIT" DEF ChannelsFetched, ChangeState
<1>21. ASSUME DelayElapsed PROVE ExitKept
  BY <1>21, state = "EXIT" DEF DelayElapsed, Watch
<1>22. ASSUME Shutdown PROVE ExitKept
  BY <1>22, state = "EXIT" DEF Shutdown
<1>23. ASSUME ScheduleStarts PROVE ExitKept
  BY <1>23, state = "EXIT" DEF ScheduleStarts, Iterate, ChangeState, Reopened,
     RequestInventoryRefresh
<1>24. ASSUME ScheduleIterates PROVE ExitKept
  BY <1>24, state = "EXIT" DEF ScheduleIterates, Iterate, ChangeState,
     Reopened, RequestInventoryRefresh
<1>25. ASSUME ScheduleDrained PROVE ExitKept
  BY <1>25, state = "EXIT" DEF ScheduleDrained, ChangeState
<1>26. ASSUME AuthEnds PROVE ExitKept
  BY <1>26, state = "EXIT" DEF AuthEnds
<1>27. ASSUME NEW c \in Channel, ChannelLost(c) PROVE ExitKept
  BY <1>27, state = "EXIT" DEF ChannelLost, ChangeState
<1>28. ASSUME NEW c \in Channel, SelectChannel(c) PROVE ExitKept
  BY <1>28, state = "EXIT" DEF SelectChannel, ChangeState
<1>29. ASSUME EstimateSpent PROVE ExitKept
  BY <1>29, state = "EXIT" DEF EstimateSpent, ChangeState
<1>30. ASSUME ExitManualMode PROVE ExitKept
  BY <1>30, state = "EXIT" DEF ExitManualMode, ChangeState
<1>31. ASSUME MaintenanceCleanup PROVE ExitKept
  BY <1>31, state = "EXIT" DEF MaintenanceCleanup, ChangeState
<1>32. ASSUME AuthBegins PROVE ExitKept
  BY <1>32, state = "EXIT" DEF AuthBegins
<1>33. ASSUME Close PROVE ExitKept
  BY <1>33, state = "EXIT" DEF Close, ChangeState
<1>34. ASSUME RunAuthorized PROVE ExitKept
  BY <1>34, state = "EXIT" DEF RunAuthorized
<1>35. ASSUME SocketsReady PROVE ExitKept
  BY <1>35, state = "EXIT" DEF SocketsReady
<1>36. ASSUME UNCHANGED vars PROVE ExitKept
  BY <1>36, state = "EXIT"
<1> QED
  BY <1>1, <1>2, <1>3, <1>4, <1>5, <1>6, <1>7, <1>8, <1>9, <1>10, <1>11, <1>12,
     <1>13, <1>14, <1>15, <1>16, <1>17, <1>18, <1>19, <1>20, <1>21, <1>22,
     <1>23, <1>24, <1>25, <1>26, <1>27, <1>28, <1>29, <1>30, <1>31, <1>32,
     <1>33, <1>34, <1>35, <1>36
  DEF Next, MainStep, MainResumes, ScheduleStep, Environment

(* EXIT is final, and no work starts after it: change_state, the two       *)
(* activations, close and authentication_change all respect it.            *)
THEOREM ExitIsFinal == Spec => NoWorkAfterExit
<1>1. [Next]_vars => [state = "EXIT" => ExitKept]_vars
  BY StepAfterExit
<1> QED
  BY <1>1, PTL DEF Spec, NoWorkAfterExit, ExitKept

-----------------------------------------------------------------------------
(* A run starts afresh.  Inductive: a change of account only begins where  *)
(* _run can be cancelled, and what it cleared stays clear until _run starts *)
(* again.                                                                  *)

NothingOld ==
    /\ ~loaded /\ ~wanted
    /\ tracked = {} /\ ready = {} /\ checking = {}
    /\ watching = NoChannel /\ selection = NoChannel /\ manual = NoChannel

FreshInv ==
    /\ changing => main \in {"off", "done", "stopped"}
    /\ main \in {"off", "start", "connect"} =>
          sched = "off" /\ ~watcher /\ ~mnt
    /\ main \in {"off", "start", "connect"} /\ ~changing => NothingOld

(* Before the first run there is nothing old.                              *)
LEMMA InitFresh == Init => FreshInv
  BY DEF Init, FreshInv, NothingOld

(* Nothing brings anything back before the run starts.                     *)
LEMMA StepFresh ==
    ASSUME TypeOK, FreshInv, [Next]_vars
    PROVE  FreshInv'
<1> USE DEF TypeOK, ControlType, RunType, WorldType, FreshInv, NothingOld
<1>1. ASSUME \/ SettingsChanged \/ SetPaused \/ WindowBoundary
              \/ MaintenanceCleanup \/ Close
      PROVE  FreshInv'
  <2>1. UNCHANGED <<changing, main, sched, watcher, mnt, loaded, wanted,
                    tracked, ready, checking, watching, selection, manual>>
    BY <1>1 DEF SettingsChanged, SetPaused, WindowBoundary, MaintenanceCleanup,
       Close
  <2> QED
    BY <2>1, TypeOK, FreshInv
<1>2. ASSUME NEW clear \in BOOLEAN, Reload(clear)
      PROVE  FreshInv'
  <2>1. UNCHANGED <<changing, main, sched, watcher, mnt, loaded, wanted,
                    tracked, ready, checking, watching, selection, manual>>
    BY <1>2 DEF Reload
  <2> QED
    BY <2>1, TypeOK, FreshInv
<1>3. ASSUME RunBegins PROVE FreshInv'
  BY <1>3, TypeOK, FreshInv DEF RunBegins
<1>4. ASSUME RunStarted PROVE FreshInv'
  BY <1>4, TypeOK, FreshInv DEF RunStarted, RequestInventoryRefresh, Open
<1>5. ASSUME RunRaises PROVE FreshInv'
  BY <1>5, TypeOK, FreshInv DEF RunRaises
<1>6. ASSUME LoopHead PROVE FreshInv'
  BY <1>6, TypeOK, FreshInv DEF LoopHead, ActivatedState, Activated,
     ActivatedRefresh, ActivatedUpdate, Open
<1>7. ASSUME LoopTail PROVE FreshInv'
  BY <1>7, TypeOK, FreshInv DEF LoopTail, ActivatedState, Activated,
     ActivatedRefresh, ActivatedUpdate
<1>8. ASSUME LoopWakes PROVE FreshInv'
  BY <1>8, TypeOK, FreshInv DEF LoopWakes
<1>9. ASSUME StepIdle PROVE FreshInv'
  BY <1>9, TypeOK, FreshInv DEF StepIdle
<1>10. ASSUME StepInventoryFetch PROVE FreshInv'
  BY <1>10, TypeOK, FreshInv DEF StepInventoryFetch
<1>11. ASSUME StepGamesUpdate PROVE FreshInv'
  BY <1>11, TypeOK, FreshInv DEF StepGamesUpdate
<1>12. ASSUME StepChannelsCleanup PROVE FreshInv'
  BY <1>12, TypeOK, FreshInv DEF StepChannelsCleanup, ChangeState
<1>13. ASSUME StepChannelsFetch PROVE FreshInv'
  BY <1>13, TypeOK, FreshInv DEF StepChannelsFetch
<1>14. ASSUME StepChannelSwitch PROVE FreshInv'
  BY <1>14, TypeOK, FreshInv DEF StepChannelSwitch, SwitchToSelected,
     SwitchInManualMode, ManualModeEnds, SwitchByPriority, KeepOrIdle,
     SwitchTo, Watch, ChangeState
<1>15. ASSUME StepExit PROVE FreshInv'
  BY <1>15, TypeOK, FreshInv DEF StepExit
<1>16. ASSUME InventoryFetched PROVE FreshInv'
  BY <1>16, TypeOK, FreshInv DEF InventoryFetched, ChangeState
<1>17. ASSUME GamesUpdated PROVE FreshInv'
  BY <1>17, TypeOK, FreshInv DEF GamesUpdated, ChangeState
<1>18. ASSUME ChannelsFetched PROVE FreshInv'
  BY <1>18, TypeOK, FreshInv DEF ChannelsFetched, ChangeState
<1>19. ASSUME DelayElapsed PROVE FreshInv'
  BY <1>19, TypeOK, FreshInv DEF DelayElapsed, Watch
<1>20. ASSUME Shutdown PROVE FreshInv'
  BY <1>20, TypeOK, FreshInv DEF Shutdown
<1>21. ASSUME ScheduleStarts PROVE FreshInv'
  BY <1>21, TypeOK, FreshInv DEF ScheduleStarts, Iterate, ChangeState,
     Reopened, RequestInventoryRefresh
<1>22. ASSUME ScheduleIterates PROVE FreshInv'
  BY <1>22, TypeOK, FreshInv DEF ScheduleIterates, Iterate, ChangeState,
     Reopened, RequestInventoryRefresh
<1>23. ASSUME ScheduleDrained PROVE FreshInv'
  BY <1>23, TypeOK, FreshInv DEF ScheduleDrained, ChangeState
<1>24. ASSUME WatchLoopStops PROVE FreshInv'
  BY <1>24, TypeOK, FreshInv DEF WatchLoopStops
<1>25. ASSUME AuthEnds PROVE FreshInv'
  BY <1>25, TypeOK, FreshInv DEF AuthEnds
<1>26. ASSUME NEW c \in Channel, StreamChanges(c) PROVE FreshInv'
  BY <1>26, TypeOK, FreshInv DEF StreamChanges
<1>27. ASSUME NEW c \in Channel, CheckFindsStream(c) PROVE FreshInv'
  BY <1>27, TypeOK, FreshInv DEF CheckFindsStream, Watch
<1>28. ASSUME NEW c \in Channel, ChannelLost(c) PROVE FreshInv'
  BY <1>28, TypeOK, FreshInv DEF ChannelLost, ChangeState
<1>29. ASSUME NEW c \in Channel, SelectChannel(c) PROVE FreshInv'
  BY <1>29, TypeOK, FreshInv DEF SelectChannel, ChangeState
<1>30. ASSUME DropClaimed PROVE FreshInv'
  BY <1>30, TypeOK, FreshInv DEF DropClaimed, RequestGamesUpdate
<1>31. ASSUME EstimateSpent PROVE FreshInv'
  BY <1>31, TypeOK, FreshInv DEF EstimateSpent, ChangeState
<1>32. ASSUME ExitManualMode PROVE FreshInv'
  BY <1>32, TypeOK, FreshInv DEF ExitManualMode, ChangeState
<1>33. ASSUME MaintenanceReload PROVE FreshInv'
  BY <1>33, TypeOK, FreshInv DEF MaintenanceReload, RequestInventoryRefresh
<1>34. ASSUME AuthBegins PROVE FreshInv'
  BY <1>34, TypeOK, FreshInv DEF AuthBegins
<1>35. ASSUME RunAuthorized PROVE FreshInv'
  BY <1>35, TypeOK, FreshInv DEF RunAuthorized
<1>36. ASSUME SocketsReady PROVE FreshInv'
  BY <1>36, TypeOK, FreshInv DEF SocketsReady
<1>37. ASSUME UNCHANGED vars PROVE FreshInv'
  BY <1>37, TypeOK, FreshInv
<1> QED
  BY <1>1, <1>2, <1>3, <1>4, <1>5, <1>6, <1>7, <1>8, <1>9, <1>10, <1>11, <1>12,
     <1>13, <1>14, <1>15, <1>16, <1>17, <1>18, <1>19, <1>20, <1>21, <1>22,
     <1>23, <1>24, <1>25, <1>26, <1>27, <1>28, <1>29, <1>30, <1>31, <1>32,
     <1>33, <1>34, <1>35, <1>36, <1>37
  DEF Next, MainStep, MainResumes, ScheduleStep, Environment

(* Whatever await an authentication change interrupts, the next run finds  *)
(* nothing of the old account (client.py:248-273).                         *)
THEOREM RunsStartFresh == Spec => []FreshRun
<1>1. TypeOK /\ FreshInv /\ [Next]_vars => FreshInv'
  BY StepFresh
<1>2. FreshInv => FreshRun
  BY DEF FreshInv, NothingOld, FreshRun
<1> QED
  BY <1>1, <1>2, InitFresh, TypeCorrect, PTL DEF Spec

-----------------------------------------------------------------------------
(* Closed mining watches nothing.  The assumption keeps the mining time    *)
(* still until the schedule loop has seen it; while it drains the watch    *)
(* task everything is already stopped.                                     *)

ClosedInv ==
    /\ sched = "drain" => ~watcher /\ ~Open /\ watching = NoChannel
    /\ ClosedStopsWatching

(* Nothing is watched at first.                                            *)
LEMMA InitClosed == Init => ClosedInv
  BY DEF Init, ClosedInv, ClosedStopsWatching

(* Watching starts only while mining is open.                              *)
LEMMA StepClosed ==
    ASSUME FastToggle = FALSE, TypeOK, FreshInv, ClosedInv, [Next]_vars
    PROVE  ClosedInv'
<1> USE DEF ClosedInv, ClosedStopsWatching, FreshInv, Open, Settled, TypeOK,
        WorldType, RunType
<1>1. ASSUME \/ RunBegins \/ RunRaises \/ LoopTail \/ LoopWakes
              \/ StepGamesUpdate \/ StepChannelsCleanup \/ StepChannelsFetch
              \/ StepExit \/ InventoryFetched \/ GamesUpdated
      PROVE  ClosedInv'
  <2>1. UNCHANGED <<sched, wasOpen, watcher, watching, paused, inWindow>>
    BY <1>1 DEF RunBegins, RunRaises, LoopTail, LoopWakes, StepGamesUpdate,
       StepChannelsCleanup, StepChannelsFetch, StepExit, InventoryFetched,
       GamesUpdated
  <2> QED
    BY <2>1, FastToggle = FALSE, TypeOK, FreshInv, ClosedInv
<1>2. ASSUME \/ DropClaimed \/ EstimateSpent \/ ExitManualMode \/ SettingsChanged
              \/ MaintenanceCleanup \/ MaintenanceReload \/ Close
      PROVE  ClosedInv'
  <2>1. UNCHANGED <<sched, wasOpen, watcher, watching, paused, inWindow>>
    BY <1>2 DEF DropClaimed, EstimateSpent, ExitManualMode, SettingsChanged,
       MaintenanceCleanup, MaintenanceReload, Close
  <2> QED
    BY <2>1, FastToggle = FALSE, TypeOK, FreshInv, ClosedInv
<1>3. ASSUME NEW c \in Channel, StreamChanges(c) \/ ChannelLost(c) \/ SelectChannel(c)
      PROVE  ClosedInv'
  <2>1. UNCHANGED <<sched, wasOpen, watcher, watching, paused, inWindow>>
    BY <1>3 DEF StreamChanges, ChannelLost, SelectChannel
  <2> QED
    BY <2>1, FastToggle = FALSE, TypeOK, FreshInv, ClosedInv
<1>4. ASSUME NEW clear \in BOOLEAN, Reload(clear)
      PROVE  ClosedInv'
  <2>1. UNCHANGED <<sched, wasOpen, watcher, watching, paused, inWindow>>
    BY <1>4 DEF Reload
  <2> QED
    BY <2>1, FastToggle = FALSE, TypeOK, FreshInv, ClosedInv
<1>5. ASSUME RunStarted PROVE ClosedInv'
  BY <1>5, FastToggle = FALSE, TypeOK, FreshInv, ClosedInv
  DEF RunStarted, RequestInventoryRefresh
<1>6. ASSUME LoopHead PROVE ClosedInv'
  BY <1>6, FastToggle = FALSE, TypeOK, FreshInv, ClosedInv
  DEF LoopHead, ActivatedState, Activated, ActivatedRefresh, ActivatedUpdate
<1>7. ASSUME StepIdle PROVE ClosedInv'
  BY <1>7, FastToggle = FALSE, TypeOK, FreshInv, ClosedInv
  DEF StepIdle
<1>8. ASSUME StepInventoryFetch PROVE ClosedInv'
  BY <1>8, FastToggle = FALSE, TypeOK, FreshInv, ClosedInv
  DEF StepInventoryFetch
<1>9. ASSUME StepChannelSwitch PROVE ClosedInv'
  BY <1>9, FastToggle = FALSE, TypeOK, FreshInv, ClosedInv
  DEF StepChannelSwitch, SwitchToSelected, SwitchInManualMode, ManualModeEnds,
      SwitchByPriority, KeepOrIdle, SwitchTo, Watch, ChangeState
<1>10. ASSUME DelayElapsed PROVE ClosedInv'
  BY <1>10, FastToggle = FALSE, TypeOK, FreshInv, ClosedInv
  DEF DelayElapsed, Watch
<1>11. ASSUME Shutdown PROVE ClosedInv'
  BY <1>11, FastToggle = FALSE, TypeOK, FreshInv, ClosedInv
  DEF Shutdown
<1>12. ASSUME ScheduleStarts PROVE ClosedInv'
  BY <1>12, FastToggle = FALSE, TypeOK, FreshInv, ClosedInv
  DEF ScheduleStarts, Iterate, ChangeState, Reopened, RequestInventoryRefresh
<1>13. ASSUME ScheduleIterates PROVE ClosedInv'
  BY <1>13, FastToggle = FALSE, TypeOK, FreshInv, ClosedInv
  DEF ScheduleIterates, Iterate, ChangeState, Reopened, RequestInventoryRefresh
<1>14. ASSUME ScheduleDrained PROVE ClosedInv'
  BY <1>14, FastToggle = FALSE, TypeOK, FreshInv, ClosedInv
  DEF ScheduleDrained, ChangeState
<1>15. ASSUME WatchLoopStops PROVE ClosedInv'
  BY <1>15, FastToggle = FALSE, TypeOK, FreshInv, ClosedInv
  DEF WatchLoopStops
<1>16. ASSUME AuthEnds PROVE ClosedInv'
  BY <1>16, FastToggle = FALSE, TypeOK, FreshInv, ClosedInv
  DEF AuthEnds
<1>17. ASSUME NEW c \in Channel, CheckFindsStream(c) PROVE ClosedInv'
  BY <1>17, FastToggle = FALSE, TypeOK, FreshInv, ClosedInv
  DEF CheckFindsStream, Watch
<1>18. ASSUME SetPaused PROVE ClosedInv'
  BY <1>18, FastToggle = FALSE, TypeOK, FreshInv, ClosedInv
  DEF SetPaused
<1>19. ASSUME WindowBoundary PROVE ClosedInv'
  BY <1>19, FastToggle = FALSE, TypeOK, FreshInv, ClosedInv
  DEF WindowBoundary
<1>20. ASSUME AuthBegins PROVE ClosedInv'
  BY <1>20, FastToggle = FALSE, TypeOK, FreshInv, ClosedInv
  DEF AuthBegins
<1>21. ASSUME RunAuthorized PROVE ClosedInv'
  BY <1>21, FastToggle = FALSE, TypeOK, FreshInv, ClosedInv DEF RunAuthorized
<1>22. ASSUME SocketsReady PROVE ClosedInv'
  BY <1>22, FastToggle = FALSE, TypeOK, FreshInv, ClosedInv DEF SocketsReady
<1>23. ASSUME ChannelsFetched PROVE ClosedInv'
  <2>1. UNCHANGED <<sched, wasOpen, watcher, paused, inWindow>>
    BY <1>23 DEF ChannelsFetched
  <2>2. Open \/ watching' = watching
    BY <1>23 DEF ChannelsFetched, Relinked, CanWatch
  <2> QED
    BY <2>1, <2>2, ClosedInv
<1>24. ASSUME UNCHANGED vars PROVE ClosedInv'
  BY <1>24, FastToggle = FALSE, TypeOK, FreshInv, ClosedInv
<1> QED
  BY <1>1, <1>2, <1>3, <1>4, <1>5, <1>6, <1>7, <1>8, <1>9, <1>10, <1>11, <1>12,
     <1>13, <1>14, <1>15, <1>16, <1>17, <1>18, <1>19, <1>20, <1>21, <1>22,
     <1>23, <1>24
  DEF Next, MainStep, MainResumes, ScheduleStep, Environment

(* Once the schedule loop has seen mining closed, nothing is watched: every *)
(* way to watch a channel looks at the mining time.                        *)
THEOREM ClosedIsQuiet ==
    ASSUME FastToggle = FALSE
    PROVE  Spec => []ClosedStopsWatching
<1>1. TypeOK /\ FreshInv /\ [Next]_vars => FreshInv'
  BY StepFresh
<1>2. TypeOK /\ FreshInv /\ ClosedInv /\ [Next]_vars => ClosedInv'
  BY StepClosed
<1>3. ClosedInv => ClosedStopsWatching
  BY DEF ClosedInv
<1> QED
  BY <1>1, <1>2, <1>3, InitFresh, InitClosed, TypeCorrect, PTL DEF Spec

-----------------------------------------------------------------------------
(* Requests are not lost.  The argument: what the loop lacks it has asked  *)
(* for, it falls asleep on no request it may serve, and whoever makes a    *)
(* new one wakes it.                                                       *)

Live == {"head", "step", "tail", "reconnect", "inventory", "claims", "gather",
         "delay", "wait"}

MissingIsAsked ==
    /\ main \in Live \ {"reconnect", "inventory"}
    /\ state # "EXIT" /\ ~refresh
    => loaded /\ mnt

FetchIsRun ==
    state = "INVENTORY_FETCH" /\ ~changing =>
        main \in {"head", "step", "reconnect", "inventory", "done", "stopped"}

SleepsServed ==
    /\ Asleep /\ Open /\ state # "EXIT"
    /\ sched = "first" \/ (sched = "wait" /\ wasOpen)
    => ~refresh /\ ~update

ServedInv == MissingIsAsked /\ FetchIsRun /\ SleepsServed

(* No run, no missing inventory.                                           *)
LEMMA InitServed == Init => ServedInv
  BY DEF Init, ServedInv, MissingIsAsked, FetchIsRun, SleepsServed, Asleep, Live

(* Whatever takes the inventory or the maintenance task away asks for both. *)
LEMMA StepMissing ==
    ASSUME TypeOK, FreshInv, MissingIsAsked, [Next]_vars
    PROVE  MissingIsAsked'
<1> USE DEF MissingIsAsked, Live, TypeOK, ControlType, RunType, FreshInv
<1>1. ASSUME \/ WatchLoopStops
      PROVE  MissingIsAsked'
  <2>1. UNCHANGED <<main, state, refresh, loaded, mnt>>
    BY <1>1 DEF WatchLoopStops
  <2> QED
    BY <2>1, TypeOK, FreshInv, MissingIsAsked
<1>2. ASSUME \/ DropClaimed \/ SettingsChanged \/ SetPaused \/ WindowBoundary
      PROVE  MissingIsAsked'
  <2>1. UNCHANGED <<main, state, refresh, loaded, mnt>>
    BY <1>2 DEF DropClaimed, SettingsChanged, SetPaused, WindowBoundary
  <2> QED
    BY <2>1, TypeOK, FreshInv, MissingIsAsked
<1>3. ASSUME NEW c \in Channel, StreamChanges(c) \/ CheckFindsStream(c)
      PROVE  MissingIsAsked'
  <2>1. UNCHANGED <<main, state, refresh, loaded, mnt>>
    BY <1>3 DEF StreamChanges, CheckFindsStream
  <2> QED
    BY <2>1, TypeOK, FreshInv, MissingIsAsked
<1>4. ASSUME RunBegins PROVE MissingIsAsked'
  BY <1>4, TypeOK, FreshInv, MissingIsAsked DEF RunBegins
<1>5. ASSUME RunStarted PROVE MissingIsAsked'
  BY <1>5, TypeOK, FreshInv, MissingIsAsked DEF RunStarted,
     RequestInventoryRefresh, Open
<1>6. ASSUME RunRaises PROVE MissingIsAsked'
  BY <1>6, TypeOK, FreshInv, MissingIsAsked DEF RunRaises
<1>7. ASSUME LoopHead PROVE MissingIsAsked'
  BY <1>7, TypeOK, FreshInv, MissingIsAsked DEF LoopHead, ActivatedState,
     Activated, ActivatedRefresh, ActivatedUpdate, Open
<1>8. ASSUME LoopTail PROVE MissingIsAsked'
  BY <1>8, TypeOK, FreshInv, MissingIsAsked DEF LoopTail, ActivatedState,
     Activated, ActivatedRefresh, ActivatedUpdate
<1>9. ASSUME LoopWakes PROVE MissingIsAsked'
  BY <1>9, TypeOK, FreshInv, MissingIsAsked DEF LoopWakes
<1>10. ASSUME StepIdle PROVE MissingIsAsked'
  BY <1>10, TypeOK, FreshInv, MissingIsAsked DEF StepIdle
<1>11. ASSUME StepInventoryFetch PROVE MissingIsAsked'
  BY <1>11, TypeOK, FreshInv, MissingIsAsked DEF StepInventoryFetch
<1>12. ASSUME StepGamesUpdate PROVE MissingIsAsked'
  BY <1>12, TypeOK, FreshInv, MissingIsAsked DEF StepGamesUpdate
<1>13. ASSUME StepChannelsCleanup PROVE MissingIsAsked'
  BY <1>13, TypeOK, FreshInv, MissingIsAsked DEF StepChannelsCleanup,
     ChangeState
<1>14. ASSUME StepChannelsFetch PROVE MissingIsAsked'
  BY <1>14, TypeOK, FreshInv, MissingIsAsked DEF StepChannelsFetch
<1>15. ASSUME StepChannelSwitch PROVE MissingIsAsked'
  BY <1>15, TypeOK, FreshInv, MissingIsAsked DEF StepChannelSwitch,
     SwitchToSelected, SwitchInManualMode, ManualModeEnds, SwitchByPriority,
     KeepOrIdle, SwitchTo, Watch, ChangeState
<1>16. ASSUME StepExit PROVE MissingIsAsked'
  BY <1>16, TypeOK, FreshInv, MissingIsAsked DEF StepExit
<1>17. ASSUME InventoryFetched PROVE MissingIsAsked'
  BY <1>17, TypeOK, FreshInv, MissingIsAsked DEF InventoryFetched, ChangeState
<1>18. ASSUME GamesUpdated PROVE MissingIsAsked'
  BY <1>18, TypeOK, FreshInv, MissingIsAsked DEF GamesUpdated, ChangeState
<1>19. ASSUME ChannelsFetched PROVE MissingIsAsked'
  BY <1>19, TypeOK, FreshInv, MissingIsAsked DEF ChannelsFetched, ChangeState
<1>20. ASSUME DelayElapsed PROVE MissingIsAsked'
  BY <1>20, TypeOK, FreshInv, MissingIsAsked DEF DelayElapsed, Watch
<1>21. ASSUME Shutdown PROVE MissingIsAsked'
  BY <1>21, TypeOK, FreshInv, MissingIsAsked DEF Shutdown
<1>22. ASSUME ScheduleStarts PROVE MissingIsAsked'
  BY <1>22, TypeOK, FreshInv, MissingIsAsked DEF ScheduleStarts, Iterate,
     ChangeState, Reopened, RequestInventoryRefresh
<1>23. ASSUME ScheduleIterates PROVE MissingIsAsked'
  BY <1>23, TypeOK, FreshInv, MissingIsAsked DEF ScheduleIterates, Iterate,
     ChangeState, Reopened, RequestInventoryRefresh
<1>24. ASSUME ScheduleDrained PROVE MissingIsAsked'
  BY <1>24, TypeOK, FreshInv, MissingIsAsked DEF ScheduleDrained, ChangeState
<1>25. ASSUME AuthEnds PROVE MissingIsAsked'
  BY <1>25, TypeOK, FreshInv, MissingIsAsked DEF AuthEnds
<1>26. ASSUME NEW c \in Channel, ChannelLost(c) PROVE MissingIsAsked'
  BY <1>26, TypeOK, FreshInv, MissingIsAsked DEF ChannelLost, ChangeState
<1>27. ASSUME NEW c \in Channel, SelectChannel(c) PROVE MissingIsAsked'
  BY <1>27, TypeOK, FreshInv, MissingIsAsked DEF SelectChannel, ChangeState
<1>28. ASSUME EstimateSpent PROVE MissingIsAsked'
  BY <1>28, TypeOK, FreshInv, MissingIsAsked DEF EstimateSpent, ChangeState
<1>29. ASSUME ExitManualMode PROVE MissingIsAsked'
  BY <1>29, TypeOK, FreshInv, MissingIsAsked DEF ExitManualMode, ChangeState
<1>30. ASSUME NEW clear \in BOOLEAN, Reload(clear) PROVE MissingIsAsked'
  BY <1>30, TypeOK, FreshInv, MissingIsAsked DEF Reload,
     RequestInventoryRefresh
<1>31. ASSUME MaintenanceCleanup PROVE MissingIsAsked'
  BY <1>31, TypeOK, FreshInv, MissingIsAsked DEF MaintenanceCleanup,
     ChangeState
<1>32. ASSUME MaintenanceReload PROVE MissingIsAsked'
  BY <1>32, TypeOK, FreshInv, MissingIsAsked DEF MaintenanceReload,
     RequestInventoryRefresh
<1>33. ASSUME AuthBegins PROVE MissingIsAsked'
  BY <1>33, TypeOK, FreshInv, MissingIsAsked DEF AuthBegins
<1>34. ASSUME Close PROVE MissingIsAsked'
  BY <1>34, TypeOK, FreshInv, MissingIsAsked DEF Close, ChangeState
<1>35. ASSUME RunAuthorized PROVE MissingIsAsked'
  BY <1>35, TypeOK, FreshInv, MissingIsAsked DEF RunAuthorized
<1>36. ASSUME SocketsReady PROVE MissingIsAsked'
  BY <1>36, TypeOK, FreshInv, MissingIsAsked DEF SocketsReady
<1>37. ASSUME UNCHANGED vars PROVE MissingIsAsked'
  BY <1>37, TypeOK, FreshInv, MissingIsAsked
<1> QED
  BY <1>1, <1>2, <1>3, <1>4, <1>5, <1>6, <1>7, <1>8, <1>9, <1>10, <1>11, <1>12,
     <1>13, <1>14, <1>15, <1>16, <1>17, <1>18, <1>19, <1>20, <1>21, <1>22,
     <1>23, <1>24, <1>25, <1>26, <1>27, <1>28, <1>29, <1>30, <1>31, <1>32,
     <1>33, <1>34, <1>35, <1>36, <1>37
  DEF Next, MainStep, MainResumes, ScheduleStep, Environment

(* INVENTORY_FETCH is left only by its own end, or with the run.           *)
LEMMA StepFetch ==
    ASSUME TypeOK, FreshInv, FetchIsRun, [Next]_vars
    PROVE  FetchIsRun'
<1> USE DEF FetchIsRun, TypeOK, ControlType, RunType, WorldType, FreshInv
<1>1. ASSUME \/ WatchLoopStops
      PROVE  FetchIsRun'
  <2>1. UNCHANGED <<state, changing, main>>
    BY <1>1 DEF WatchLoopStops
  <2> QED
    BY <2>1, TypeOK, FreshInv, FetchIsRun
<1>2. ASSUME \/ DropClaimed \/ SettingsChanged \/ SetPaused \/ WindowBoundary
              \/ MaintenanceReload
      PROVE  FetchIsRun'
  <2>1. UNCHANGED <<state, changing, main>>
    BY <1>2 DEF DropClaimed, SettingsChanged, SetPaused, WindowBoundary,
       MaintenanceReload
  <2> QED
    BY <2>1, TypeOK, FreshInv, FetchIsRun
<1>3. ASSUME NEW c \in Channel, StreamChanges(c) \/ CheckFindsStream(c)
      PROVE  FetchIsRun'
  <2>1. UNCHANGED <<state, changing, main>>
    BY <1>3 DEF StreamChanges, CheckFindsStream
  <2> QED
    BY <2>1, TypeOK, FreshInv, FetchIsRun
<1>4. ASSUME NEW clear \in BOOLEAN, Reload(clear)
      PROVE  FetchIsRun'
  <2>1. UNCHANGED <<state, changing, main>>
    BY <1>4 DEF Reload
  <2> QED
    BY <2>1, TypeOK, FreshInv, FetchIsRun
<1>5. ASSUME RunBegins PROVE FetchIsRun'
  BY <1>5, TypeOK, FreshInv, FetchIsRun DEF RunBegins
<1>6. ASSUME RunStarted PROVE FetchIsRun'
  BY <1>6, TypeOK, FreshInv, FetchIsRun DEF RunStarted,
     RequestInventoryRefresh, Open
<1>7. ASSUME RunRaises PROVE FetchIsRun'
  BY <1>7, TypeOK, FreshInv, FetchIsRun DEF RunRaises
<1>8. ASSUME LoopHead PROVE FetchIsRun'
  BY <1>8, TypeOK, FreshInv, FetchIsRun DEF LoopHead, ActivatedState,
     Activated, ActivatedRefresh, ActivatedUpdate, Open
<1>9. ASSUME LoopTail PROVE FetchIsRun'
  BY <1>9, TypeOK, FreshInv, FetchIsRun DEF LoopTail, ActivatedState,
     Activated, ActivatedRefresh, ActivatedUpdate
<1>10. ASSUME LoopWakes PROVE FetchIsRun'
  BY <1>10, TypeOK, FreshInv, FetchIsRun DEF LoopWakes
<1>11. ASSUME StepIdle PROVE FetchIsRun'
  BY <1>11, TypeOK, FreshInv, FetchIsRun DEF StepIdle
<1>12. ASSUME StepInventoryFetch PROVE FetchIsRun'
  BY <1>12, TypeOK, FreshInv, FetchIsRun DEF StepInventoryFetch
<1>13. ASSUME StepGamesUpdate PROVE FetchIsRun'
  BY <1>13, TypeOK, FreshInv, FetchIsRun DEF StepGamesUpdate
<1>14. ASSUME StepChannelsCleanup PROVE FetchIsRun'
  BY <1>14, TypeOK, FreshInv, FetchIsRun DEF StepChannelsCleanup, ChangeState
<1>15. ASSUME StepChannelsFetch PROVE FetchIsRun'
  BY <1>15, TypeOK, FreshInv, FetchIsRun DEF StepChannelsFetch
<1>16. ASSUME StepChannelSwitch PROVE FetchIsRun'
  BY <1>16, TypeOK, FreshInv, FetchIsRun DEF StepChannelSwitch,
     SwitchToSelected, SwitchInManualMode, ManualModeEnds, SwitchByPriority,
     KeepOrIdle, SwitchTo, Watch, ChangeState
<1>17. ASSUME StepExit PROVE FetchIsRun'
  BY <1>17, TypeOK, FreshInv, FetchIsRun DEF StepExit
<1>18. ASSUME InventoryFetched PROVE FetchIsRun'
  BY <1>18, TypeOK, FreshInv, FetchIsRun DEF InventoryFetched, ChangeState
<1>19. ASSUME GamesUpdated PROVE FetchIsRun'
  BY <1>19, TypeOK, FreshInv, FetchIsRun DEF GamesUpdated, ChangeState
<1>20. ASSUME ChannelsFetched PROVE FetchIsRun'
  BY <1>20, TypeOK, FreshInv, FetchIsRun DEF ChannelsFetched, ChangeState
<1>21. ASSUME DelayElapsed PROVE FetchIsRun'
  BY <1>21, TypeOK, FreshInv, FetchIsRun DEF DelayElapsed, Watch
<1>22. ASSUME Shutdown PROVE FetchIsRun'
  BY <1>22, TypeOK, FreshInv, FetchIsRun DEF Shutdown
<1>23. ASSUME ScheduleStarts PROVE FetchIsRun'
  BY <1>23, TypeOK, FreshInv, FetchIsRun DEF ScheduleStarts, Iterate,
     ChangeState, Reopened, RequestInventoryRefresh
<1>24. ASSUME ScheduleIterates PROVE FetchIsRun'
  BY <1>24, TypeOK, FreshInv, FetchIsRun DEF ScheduleIterates, Iterate,
     ChangeState, Reopened, RequestInventoryRefresh
<1>25. ASSUME ScheduleDrained PROVE FetchIsRun'
  BY <1>25, TypeOK, FreshInv, FetchIsRun DEF ScheduleDrained, ChangeState
<1>26. ASSUME AuthEnds PROVE FetchIsRun'
  BY <1>26, TypeOK, FreshInv, FetchIsRun DEF AuthEnds
<1>27. ASSUME NEW c \in Channel, ChannelLost(c) PROVE FetchIsRun'
  BY <1>27, TypeOK, FreshInv, FetchIsRun DEF ChannelLost, ChangeState
<1>28. ASSUME NEW c \in Channel, SelectChannel(c) PROVE FetchIsRun'
  BY <1>28, TypeOK, FreshInv, FetchIsRun DEF SelectChannel, ChangeState
<1>29. ASSUME EstimateSpent PROVE FetchIsRun'
  BY <1>29, TypeOK, FreshInv, FetchIsRun DEF EstimateSpent, ChangeState
<1>30. ASSUME ExitManualMode PROVE FetchIsRun'
  BY <1>30, TypeOK, FreshInv, FetchIsRun DEF ExitManualMode, ChangeState
<1>31. ASSUME MaintenanceCleanup PROVE FetchIsRun'
  BY <1>31, TypeOK, FreshInv, FetchIsRun DEF MaintenanceCleanup, ChangeState
<1>32. ASSUME AuthBegins PROVE FetchIsRun'
  BY <1>32, TypeOK, FreshInv, FetchIsRun DEF AuthBegins
<1>33. ASSUME Close PROVE FetchIsRun'
  BY <1>33, TypeOK, FreshInv, FetchIsRun DEF Close, ChangeState
<1>34. ASSUME RunAuthorized PROVE FetchIsRun'
  BY <1>34, TypeOK, FreshInv, FetchIsRun DEF RunAuthorized
<1>35. ASSUME SocketsReady PROVE FetchIsRun'
  BY <1>35, TypeOK, FreshInv, FetchIsRun DEF SocketsReady
<1>36. ASSUME UNCHANGED vars PROVE FetchIsRun'
  BY <1>36, TypeOK, FreshInv, FetchIsRun
<1> QED
  BY <1>1, <1>2, <1>3, <1>4, <1>5, <1>6, <1>7, <1>8, <1>9, <1>10, <1>11, <1>12,
     <1>13, <1>14, <1>15, <1>16, <1>17, <1>18, <1>19, <1>20, <1>21, <1>22,
     <1>23, <1>24, <1>25, <1>26, <1>27, <1>28, <1>29, <1>30, <1>31, <1>32,
     <1>33, <1>34, <1>35, <1>36
  DEF Next, MainStep, MainResumes, ScheduleStep, Environment

(* Falling asleep serves, and asking wakes.                                *)
LEMMA StepSleeps ==
    ASSUME FastToggle = FALSE, TypeOK, FreshInv, ServedInv, [Next]_vars
    PROVE  SleepsServed'
<1> USE DEF ServedInv, MissingIsAsked, FetchIsRun, SleepsServed, Live, Asleep,
        Open, Settled, TypeOK, ControlType, RunType, WorldType, FreshInv
<1>1. ASSUME \/ WatchLoopStops
      PROVE  SleepsServed'
  <2>1. UNCHANGED <<main, change, paused, inWindow, state, sched, wasOpen,
                    refresh, update>>
    BY <1>1 DEF WatchLoopStops
  <2> QED
    BY <2>1, FastToggle = FALSE, TypeOK, FreshInv, ServedInv
<1>2. ASSUME NEW c \in Channel, StreamChanges(c) \/ CheckFindsStream(c)
      PROVE  SleepsServed'
  <2>1. UNCHANGED <<main, change, paused, inWindow, state, sched, wasOpen,
                    refresh, update>>
    BY <1>2 DEF StreamChanges, CheckFindsStream
  <2> QED
    BY <2>1, FastToggle = FALSE, TypeOK, FreshInv, ServedInv
<1>3. ASSUME RunBegins PROVE SleepsServed'
  BY <1>3, FastToggle = FALSE, TypeOK, FreshInv, ServedInv
  DEF RunBegins
<1>4. ASSUME RunStarted PROVE SleepsServed'
  BY <1>4, FastToggle = FALSE, TypeOK, FreshInv, ServedInv
  DEF RunStarted, RequestInventoryRefresh
<1>5. ASSUME RunRaises PROVE SleepsServed'
  BY <1>5, FastToggle = FALSE, TypeOK, FreshInv, ServedInv
  DEF RunRaises
<1>6. ASSUME LoopHead PROVE SleepsServed'
  BY <1>6, FastToggle = FALSE, TypeOK, FreshInv, ServedInv
  DEF LoopHead, ActivatedState, Activated, ActivatedRefresh, ActivatedUpdate
<1>7. ASSUME LoopTail PROVE SleepsServed'
  BY <1>7, FastToggle = FALSE, TypeOK, FreshInv, ServedInv
  DEF LoopTail, ActivatedState, Activated, ActivatedRefresh, ActivatedUpdate
<1>8. ASSUME LoopWakes PROVE SleepsServed'
  BY <1>8, FastToggle = FALSE, TypeOK, FreshInv, ServedInv
  DEF LoopWakes
<1>9. ASSUME StepIdle PROVE SleepsServed'
  BY <1>9, FastToggle = FALSE, TypeOK, FreshInv, ServedInv
  DEF StepIdle
<1>10. ASSUME StepInventoryFetch PROVE SleepsServed'
  BY <1>10, FastToggle = FALSE, TypeOK, FreshInv, ServedInv
  DEF StepInventoryFetch
<1>11. ASSUME StepGamesUpdate PROVE SleepsServed'
  BY <1>11, FastToggle = FALSE, TypeOK, FreshInv, ServedInv
  DEF StepGamesUpdate
<1>12. ASSUME StepChannelsCleanup PROVE SleepsServed'
  BY <1>12, FastToggle = FALSE, TypeOK, FreshInv, ServedInv
  DEF StepChannelsCleanup, ChangeState
<1>13. ASSUME StepChannelsFetch PROVE SleepsServed'
  BY <1>13, FastToggle = FALSE, TypeOK, FreshInv, ServedInv
  DEF StepChannelsFetch
<1>14. ASSUME StepChannelSwitch PROVE SleepsServed'
  BY <1>14, FastToggle = FALSE, TypeOK, FreshInv, ServedInv
  DEF StepChannelSwitch, SwitchToSelected, SwitchInManualMode, ManualModeEnds,
      SwitchByPriority, KeepOrIdle, SwitchTo, Watch, ChangeState
<1>15. ASSUME StepExit PROVE SleepsServed'
  BY <1>15, FastToggle = FALSE, TypeOK, FreshInv, ServedInv
  DEF StepExit
<1>16. ASSUME InventoryFetched PROVE SleepsServed'
  BY <1>16, FastToggle = FALSE, TypeOK, FreshInv, ServedInv
  DEF InventoryFetched, ChangeState
<1>17. ASSUME GamesUpdated PROVE SleepsServed'
  BY <1>17, FastToggle = FALSE, TypeOK, FreshInv, ServedInv
  DEF GamesUpdated, ChangeState
<1>18. ASSUME ChannelsFetched PROVE SleepsServed'
  BY <1>18, FastToggle = FALSE, TypeOK, FreshInv, ServedInv
  DEF ChannelsFetched, ChangeState
<1>19. ASSUME DelayElapsed PROVE SleepsServed'
  BY <1>19, FastToggle = FALSE, TypeOK, FreshInv, ServedInv
  DEF DelayElapsed, Watch
<1>20. ASSUME Shutdown PROVE SleepsServed'
  BY <1>20, FastToggle = FALSE, TypeOK, FreshInv, ServedInv
  DEF Shutdown
<1>21. ASSUME ScheduleStarts PROVE SleepsServed'
  BY <1>21, FastToggle = FALSE, TypeOK, FreshInv, ServedInv
  DEF ScheduleStarts, Iterate, ChangeState, Reopened, RequestInventoryRefresh
<1>22. ASSUME ScheduleIterates PROVE SleepsServed'
  BY <1>22, FastToggle = FALSE, TypeOK, FreshInv, ServedInv
  DEF ScheduleIterates, Iterate, ChangeState, Reopened, RequestInventoryRefresh
<1>23. ASSUME ScheduleDrained PROVE SleepsServed'
  BY <1>23, FastToggle = FALSE, TypeOK, FreshInv, ServedInv
  DEF ScheduleDrained, ChangeState
<1>24. ASSUME AuthEnds PROVE SleepsServed'
  BY <1>24, FastToggle = FALSE, TypeOK, FreshInv, ServedInv
  DEF AuthEnds
<1>25. ASSUME NEW c \in Channel, ChannelLost(c) PROVE SleepsServed'
  BY <1>25, FastToggle = FALSE, TypeOK, FreshInv, ServedInv
  DEF ChannelLost, ChangeState
<1>26. ASSUME NEW c \in Channel, SelectChannel(c) PROVE SleepsServed'
  BY <1>26, FastToggle = FALSE, TypeOK, FreshInv, ServedInv
  DEF SelectChannel, ChangeState
<1>27. ASSUME DropClaimed PROVE SleepsServed'
  BY <1>27, FastToggle = FALSE, TypeOK, FreshInv, ServedInv
  DEF DropClaimed, RequestGamesUpdate
<1>28. ASSUME EstimateSpent PROVE SleepsServed'
  BY <1>28, FastToggle = FALSE, TypeOK, FreshInv, ServedInv
  DEF EstimateSpent, ChangeState
<1>29. ASSUME ExitManualMode PROVE SleepsServed'
  BY <1>29, FastToggle = FALSE, TypeOK, FreshInv, ServedInv
  DEF ExitManualMode, ChangeState
<1>30. ASSUME SettingsChanged PROVE SleepsServed'
  BY <1>30, FastToggle = FALSE, TypeOK, FreshInv, ServedInv
  DEF SettingsChanged, RequestGamesUpdate
<1>31. ASSUME NEW clear \in BOOLEAN, Reload(clear) PROVE SleepsServed'
  BY <1>31, FastToggle = FALSE, TypeOK, FreshInv, ServedInv
  DEF Reload, RequestInventoryRefresh
<1>32. ASSUME SetPaused PROVE SleepsServed'
  BY <1>32, FastToggle = FALSE, TypeOK, FreshInv, ServedInv
  DEF SetPaused
<1>33. ASSUME WindowBoundary PROVE SleepsServed'
  BY <1>33, FastToggle = FALSE, TypeOK, FreshInv, ServedInv
  DEF WindowBoundary
<1>34. ASSUME MaintenanceCleanup PROVE SleepsServed'
  BY <1>34, FastToggle = FALSE, TypeOK, FreshInv, ServedInv
  DEF MaintenanceCleanup, ChangeState
<1>35. ASSUME MaintenanceReload PROVE SleepsServed'
  BY <1>35, FastToggle = FALSE, TypeOK, FreshInv, ServedInv
  DEF MaintenanceReload, RequestInventoryRefresh
<1>36. ASSUME AuthBegins PROVE SleepsServed'
  BY <1>36, FastToggle = FALSE, TypeOK, FreshInv, ServedInv
  DEF AuthBegins
<1>37. ASSUME Close PROVE SleepsServed'
  BY <1>37, FastToggle = FALSE, TypeOK, FreshInv, ServedInv
  DEF Close, ChangeState
<1>38. ASSUME RunAuthorized PROVE SleepsServed'
  BY <1>38, FastToggle = FALSE, TypeOK, FreshInv, ServedInv DEF RunAuthorized
<1>39. ASSUME SocketsReady PROVE SleepsServed'
  BY <1>39, FastToggle = FALSE, TypeOK, FreshInv, ServedInv DEF SocketsReady
<1>40. ASSUME UNCHANGED vars PROVE SleepsServed'
  BY <1>40, FastToggle = FALSE, TypeOK, FreshInv, ServedInv
<1> QED
  BY <1>1, <1>2, <1>3, <1>4, <1>5, <1>6, <1>7, <1>8, <1>9, <1>10, <1>11, <1>12,
     <1>13, <1>14, <1>15, <1>16, <1>17, <1>18, <1>19, <1>20, <1>21, <1>22,
     <1>23, <1>24, <1>25, <1>26, <1>27, <1>28, <1>29, <1>30, <1>31, <1>32,
     <1>33, <1>34, <1>35, <1>36, <1>37, <1>38, <1>39, <1>40
  DEF Next, MainStep, MainResumes, ScheduleStep, Environment

(* No request is lost and maintenance goes on, whatever step, closing or   *)
(* reopening a request arrives in (client.py:995-1000).                    *)
THEOREM NoRequestIsLost ==
    ASSUME FastToggle = FALSE
    PROVE  Spec => [](RequestsServed /\ MaintenanceAlive)
<1>1. TypeOK /\ FreshInv /\ [Next]_vars => FreshInv'
  BY StepFresh
<1>2. TypeOK /\ FreshInv /\ ServedInv /\ [Next]_vars => ServedInv'
  BY StepMissing, StepFetch, StepSleeps DEF ServedInv
<1>3. TypeOK /\ ServedInv => RequestsServed /\ MaintenanceAlive
  BY DEF TypeOK, RunType, WorldType, ServedInv, MissingIsAsked, SleepsServed,
         RequestsServed, MaintenanceAlive, AtRest, Asleep, Settled, Open, Live
<1> QED
  BY <1>1, <1>2, <1>3, InitFresh, InitServed, TypeCorrect, PTL DEF Spec

(* The task that asks for the periodic reload is alive whenever the miner   *)
(* rests in an open window, with the inventory it has to renew: no closing, *)
(* cleared cache or reload leaves it dead (maintenance_service.py).         *)
THEOREM MaintenanceGoesOn ==
    ASSUME FastToggle = FALSE
    PROVE  Spec => []MaintenanceAlive
  BY NoRequestIsLost, PTL

-----------------------------------------------------------------------------
(* The miner does not rest on a channel it cannot earn on, nor idle next to *)
(* one it could watch.  Without the random delay, _state_change is cleared  *)
(* only by a step that has just looked at the channels; whoever disturbs    *)
(* what that step saw sets it again, and leaves the loop something to do.   *)

(* A loop that ends its turn or sleeps on a lost channel is to be woken,    *)
(* and so is one that is to exit.                                           *)
NoticesInv ==
    /\ main # "delay"
    /\ /\ main \in {"tail", "wait"}
       /\ state = "EXIT" \/ (watching # NoChannel /\ watching \notin ready)
       => change

(* The schedule loop knows that mining is open, and the miner goes on.      *)
Sees == /\ Open /\ state # "EXIT"
        /\ sched = "first" \/ (sched = "wait" /\ wasOpen)

(* The head of the loop turns this into a step that is not IDLE.            *)
Working == state \notin {"IDLE", "EXIT"} \/ refresh \/ (update /\ loaded)

Watchable == tracked \cap ready

Forgone == (watching = NoChannel \/ watching \notin ready) /\ Watchable # {}

RestInv ==
    Sees =>
      /\ main \in {"tail", "wait"} /\ Forgone => change
      /\ main = "wait" /\ change => Working
      /\ main = "tail" /\ change => Working \/ Watchable = {}
      /\ main = "head" => Working \/ Watchable = {}
      /\ main = "step" => state # "IDLE" \/ Watchable = {}

(* Before the first run the loop does not sleep.                            *)
LEMMA InitRest == Init => NoticesInv /\ RestInv
  BY DEF Init, NoticesInv, RestInv

SingleGame == \A c, d \in Channel : SameGame(c, d)

(* CHANNEL_SWITCH ends on a channel that can be watched, or finds none.      *)
LEMMA SwitchOutcome ==
    ASSUME RandomDelay = FALSE, TypeOK, StepChannelSwitch
    PROVE  /\ main' = "tail"
           /\ \/ Open /\ watching' \in ready \cap Channel /\ state' = state
              \/ /\ state' = "IDLE" /\ change' /\ watching' = watching
                 /\ Open => watching = NoChannel \/ watching \notin ready
                 /\ Open /\ SingleGame =>
                       tracked \cap ready = {}
<1> USE DEF StepChannelSwitch, TypeOK, ControlType, WorldType, CanWatch
<1>1. ASSUME NEW c \in ready, Open, SwitchTo(c)
      PROVE  main' = "tail" /\ watching' \in ready \cap Channel /\ state' = state
  BY <1>1, RandomDelay = FALSE DEF SwitchTo, Watch
<1>2. ASSUME KeepOrIdle
      PROVE  /\ main' = "tail" /\ watching' = watching
             /\ \/ Open /\ watching \in ready \cap Channel /\ state' = state
                \/ /\ state' = "IDLE" /\ change'
                   /\ Open => watching = NoChannel \/ watching \notin ready
  BY <1>2 DEF KeepOrIdle, ChangeState
<1>3. CASE SwitchToSelected
  BY <1>1, <1>3 DEF SwitchToSelected, Selected
<1>4. CASE SwitchInManualMode
  BY <1>1, <1>4 DEF SwitchInManualMode
<1>5. CASE ManualModeEnds
  <2>1. manual \in Channel
    BY <1>5 DEF ManualModeEnds, MaybeChannel
  <2>2. Open /\ SingleGame => tracked \cap ready = {}
    BY <1>5, <2>1 DEF ManualModeEnds, SingleGame
  <2> QED
    BY <1>2, <1>5, <2>2 DEF ManualModeEnds
<1>6. CASE SwitchByPriority
  <2> DEFINE able == {c \in tracked : CanWatch(c, ready) /\ ShouldSwitch(c, ready)}
  <2>1. CASE able = {}
    <3>1. KeepOrIdle
      BY <1>6, <2>1 DEF SwitchByPriority
    <3>2. ~(Open /\ watching # NoChannel /\ watching \in ready) /\ Open =>
             tracked \cap ready = {}
      BY <2>1 DEF ShouldSwitch
    <3> QED
      BY <1>2, <3>1, <3>2
  <2>2. CASE able # {}
    BY <1>1, <1>6, <2>2 DEF SwitchByPriority
  <2> QED
    BY <2>1, <2>2
<1> QED
  BY <1>3, <1>4, <1>5, <1>6

(* Whoever takes the watched channel's eligibility away wakes the loop.     *)
LEMMA StepNotices ==
    ASSUME RandomDelay = FALSE, TypeOK, NoticesInv, [Next]_vars
    PROVE  NoticesInv'
<1> USE DEF NoticesInv, TypeOK, ControlType, RunType, WorldType, CanWatch
<1>1. ASSUME \/ SetPaused \/ WindowBoundary
      PROVE  NoticesInv'
  <2>1. UNCHANGED <<main, watching, ready, change, state>>
    BY <1>1 DEF SetPaused, WindowBoundary
  <2> QED
    BY <2>1, RandomDelay = FALSE, TypeOK, NoticesInv
<1>2. ASSUME NEW c \in Channel, StreamChanges(c)
      PROVE  NoticesInv'
  <2>1. UNCHANGED <<main, watching, ready, change, state>>
    BY <1>2 DEF StreamChanges
  <2> QED
    BY <2>1, RandomDelay = FALSE, TypeOK, NoticesInv
<1>3. ASSUME RunBegins PROVE NoticesInv'
  BY <1>3, RandomDelay = FALSE, TypeOK, NoticesInv DEF RunBegins
<1>4. ASSUME RunStarted PROVE NoticesInv'
  BY <1>4, RandomDelay = FALSE, TypeOK, NoticesInv DEF RunStarted,
     RequestInventoryRefresh, Open
<1>5. ASSUME RunRaises PROVE NoticesInv'
  BY <1>5, RandomDelay = FALSE, TypeOK, NoticesInv DEF RunRaises
<1>6. ASSUME LoopHead PROVE NoticesInv'
  BY <1>6, RandomDelay = FALSE, TypeOK, NoticesInv DEF LoopHead,
     ActivatedState, Activated, ActivatedRefresh, ActivatedUpdate, Open
<1>7. ASSUME LoopTail PROVE NoticesInv'
  BY <1>7, RandomDelay = FALSE, TypeOK, NoticesInv DEF LoopTail,
     ActivatedState, Activated, ActivatedRefresh, ActivatedUpdate
<1>8. ASSUME LoopWakes PROVE NoticesInv'
  BY <1>8, RandomDelay = FALSE, TypeOK, NoticesInv DEF LoopWakes
<1>9. ASSUME StepIdle PROVE NoticesInv'
  BY <1>9, RandomDelay = FALSE, TypeOK, NoticesInv DEF StepIdle
<1>10. ASSUME StepInventoryFetch PROVE NoticesInv'
  BY <1>10, RandomDelay = FALSE, TypeOK, NoticesInv DEF StepInventoryFetch
<1>11. ASSUME StepGamesUpdate PROVE NoticesInv'
  BY <1>11, RandomDelay = FALSE, TypeOK, NoticesInv DEF StepGamesUpdate
<1>12. ASSUME StepChannelsCleanup PROVE NoticesInv'
  BY <1>12, RandomDelay = FALSE, TypeOK, NoticesInv DEF StepChannelsCleanup,
     ChangeState
<1>13. ASSUME StepChannelsFetch PROVE NoticesInv'
  BY <1>13, RandomDelay = FALSE, TypeOK, NoticesInv DEF StepChannelsFetch
<1>14. ASSUME StepChannelSwitch PROVE NoticesInv'
  BY <1>14, ChannelAssumption, RandomDelay = FALSE, TypeOK, NoticesInv, SwitchOutcome
  DEF StepChannelSwitch, Open
<1>15. ASSUME StepExit PROVE NoticesInv'
  BY <1>15, RandomDelay = FALSE, TypeOK, NoticesInv DEF StepExit
<1>16. ASSUME InventoryFetched PROVE NoticesInv'
  BY <1>16, RandomDelay = FALSE, TypeOK, NoticesInv DEF InventoryFetched,
     ChangeState
<1>17. ASSUME GamesUpdated PROVE NoticesInv'
  BY <1>17, RandomDelay = FALSE, TypeOK, NoticesInv DEF GamesUpdated,
     ChangeState
<1>18. ASSUME ChannelsFetched PROVE NoticesInv'
  BY <1>18, RandomDelay = FALSE, TypeOK, NoticesInv DEF ChannelsFetched,
     ChangeState
<1>19. ASSUME DelayElapsed PROVE NoticesInv'
  BY <1>19, RandomDelay = FALSE, TypeOK, NoticesInv DEF DelayElapsed, Watch
<1>20. ASSUME Shutdown PROVE NoticesInv'
  BY <1>20, RandomDelay = FALSE, TypeOK, NoticesInv DEF Shutdown
<1>21. ASSUME ScheduleStarts PROVE NoticesInv'
  BY <1>21, RandomDelay = FALSE, TypeOK, NoticesInv DEF ScheduleStarts,
     Iterate, ChangeState, Reopened, RequestInventoryRefresh
<1>22. ASSUME ScheduleIterates PROVE NoticesInv'
  BY <1>22, RandomDelay = FALSE, TypeOK, NoticesInv DEF ScheduleIterates,
     Iterate, ChangeState, Reopened, RequestInventoryRefresh
<1>23. ASSUME ScheduleDrained PROVE NoticesInv'
  BY <1>23, RandomDelay = FALSE, TypeOK, NoticesInv DEF ScheduleDrained,
     ChangeState
<1>24. ASSUME WatchLoopStops PROVE NoticesInv'
  BY <1>24, RandomDelay = FALSE, TypeOK, NoticesInv DEF WatchLoopStops
<1>25. ASSUME AuthEnds PROVE NoticesInv'
  BY <1>25, RandomDelay = FALSE, TypeOK, NoticesInv DEF AuthEnds
<1>26. ASSUME NEW c \in Channel, CheckFindsStream(c) PROVE NoticesInv'
  BY <1>26, RandomDelay = FALSE, TypeOK, NoticesInv DEF CheckFindsStream, Watch
<1>27. ASSUME NEW c \in Channel, ChannelLost(c) PROVE NoticesInv'
  <2>1. UNCHANGED <<main, watching>> /\ ready' = ready \ {c}
    BY <1>27 DEF ChannelLost
  <2>2. CASE IsWatched(c)
    BY <1>27, <2>1, <2>2, TypeOK, NoticesInv DEF ChannelLost, ChangeState
  <2>3. CASE ~IsWatched(c)
    <3>1. c # watching
      BY <2>3, ChannelAssumption DEF IsWatched, SameChannel
    <3> QED
      BY <1>27, <2>1, <2>3, <3>1, TypeOK, NoticesInv DEF ChannelLost
  <2> QED
    BY <2>2, <2>3
<1>28. ASSUME NEW c \in Channel, SelectChannel(c) PROVE NoticesInv'
  BY <1>28, RandomDelay = FALSE, TypeOK, NoticesInv DEF SelectChannel,
     ChangeState
<1>29. ASSUME DropClaimed PROVE NoticesInv'
  BY <1>29, RandomDelay = FALSE, TypeOK, NoticesInv DEF DropClaimed,
     RequestGamesUpdate
<1>30. ASSUME EstimateSpent PROVE NoticesInv'
  BY <1>30, RandomDelay = FALSE, TypeOK, NoticesInv DEF EstimateSpent,
     ChangeState
<1>31. ASSUME ExitManualMode PROVE NoticesInv'
  BY <1>31, RandomDelay = FALSE, TypeOK, NoticesInv DEF ExitManualMode,
     ChangeState
<1>32. ASSUME SettingsChanged PROVE NoticesInv'
  BY <1>32, RandomDelay = FALSE, TypeOK, NoticesInv DEF SettingsChanged,
     RequestGamesUpdate
<1>33. ASSUME NEW clear \in BOOLEAN, Reload(clear) PROVE NoticesInv'
  BY <1>33, RandomDelay = FALSE, TypeOK, NoticesInv DEF Reload,
     RequestInventoryRefresh
<1>34. ASSUME MaintenanceCleanup PROVE NoticesInv'
  BY <1>34, RandomDelay = FALSE, TypeOK, NoticesInv DEF MaintenanceCleanup,
     ChangeState
<1>35. ASSUME MaintenanceReload PROVE NoticesInv'
  BY <1>35, RandomDelay = FALSE, TypeOK, NoticesInv DEF MaintenanceReload,
     RequestInventoryRefresh
<1>36. ASSUME AuthBegins PROVE NoticesInv'
  BY <1>36, RandomDelay = FALSE, TypeOK, NoticesInv DEF AuthBegins
<1>37. ASSUME Close PROVE NoticesInv'
  BY <1>37, RandomDelay = FALSE, TypeOK, NoticesInv DEF Close, ChangeState
<1>38. ASSUME RunAuthorized PROVE NoticesInv'
  BY <1>38, RandomDelay = FALSE, TypeOK, NoticesInv DEF RunAuthorized
<1>39. ASSUME SocketsReady PROVE NoticesInv'
  BY <1>39, RandomDelay = FALSE, TypeOK, NoticesInv DEF SocketsReady
<1>40. ASSUME UNCHANGED vars PROVE NoticesInv'
  BY <1>40, RandomDelay = FALSE, TypeOK, NoticesInv
<1> QED
  BY <1>1, <1>2, <1>3, <1>4, <1>5, <1>6, <1>7, <1>8, <1>9, <1>10, <1>11, <1>12,
     <1>13, <1>14, <1>15, <1>16, <1>17, <1>18, <1>19, <1>20, <1>21, <1>22,
     <1>23, <1>24, <1>25, <1>26, <1>27, <1>28, <1>29, <1>30, <1>31, <1>32,
     <1>33, <1>34, <1>35, <1>36, <1>37, <1>38, <1>39, <1>40
  DEF Next, MainStep, MainResumes, ScheduleStep, Environment

(* Whoever leaves a watchable channel unwatched gives the loop work.        *)
LEMMA StepRest ==
    ASSUME FastToggle = FALSE, RandomDelay = FALSE, SingleGame, TypeOK, FreshInv, MissingIsAsked, NoticesInv,
           RestInv, [Next]_vars
    PROVE  RestInv'
<1> USE DEF RestInv, Sees, Working, Watchable, Forgone, Open, TypeOK,
        ControlType, RunType, WorldType, CanWatch, ShouldSwitch, Settled,
        NoticesInv
<1>1. ASSUME NEW c \in Channel, StreamChanges(c)
      PROVE  RestInv'
  <2>1. UNCHANGED <<state, change, refresh, update, loaded, main, paused,
                    inWindow, sched, wasOpen, watching, tracked, ready>>
    BY <1>1 DEF StreamChanges
  <2> QED
    BY <2>1, FastToggle = FALSE, TypeOK, NoticesInv, RestInv
<1>2. ASSUME RunBegins PROVE RestInv'
  BY <1>2, FastToggle = FALSE, TypeOK, NoticesInv, RestInv
  DEF RunBegins
<1>3. ASSUME RunStarted PROVE RestInv'
  BY <1>3, FastToggle = FALSE, TypeOK, NoticesInv, RestInv
  DEF RunStarted, RequestInventoryRefresh
<1>4. ASSUME RunRaises PROVE RestInv'
  BY <1>4, FastToggle = FALSE, TypeOK, NoticesInv, RestInv
  DEF RunRaises
<1>5. ASSUME LoopHead PROVE RestInv'
  BY <1>5, FastToggle = FALSE, TypeOK, NoticesInv, RestInv
  DEF LoopHead, ActivatedState, Activated, ActivatedRefresh, ActivatedUpdate
<1>6. ASSUME LoopTail PROVE RestInv'
  BY <1>6, FastToggle = FALSE, TypeOK, NoticesInv, RestInv
  DEF LoopTail, ActivatedState, Activated, ActivatedRefresh, ActivatedUpdate
<1>7. ASSUME LoopWakes PROVE RestInv'
  BY <1>7, FastToggle = FALSE, TypeOK, NoticesInv, RestInv
  DEF LoopWakes
<1>8. ASSUME StepIdle PROVE RestInv'
  BY <1>8, FastToggle = FALSE, TypeOK, NoticesInv, RestInv
  DEF StepIdle
<1>9. ASSUME StepInventoryFetch PROVE RestInv'
  BY <1>9, FastToggle = FALSE, TypeOK, NoticesInv, RestInv
  DEF StepInventoryFetch
<1>10. ASSUME StepGamesUpdate PROVE RestInv'
  BY <1>10, FastToggle = FALSE, TypeOK, NoticesInv, RestInv
  DEF StepGamesUpdate
<1>11. ASSUME StepChannelsCleanup PROVE RestInv'
  BY <1>11, FastToggle = FALSE, TypeOK, NoticesInv, RestInv
  DEF StepChannelsCleanup, ChangeState
<1>12. ASSUME StepChannelsFetch PROVE RestInv'
  BY <1>12, FastToggle = FALSE, TypeOK, NoticesInv, RestInv
  DEF StepChannelsFetch
<1>13. ASSUME StepChannelSwitch PROVE RestInv'
  BY <1>13, ChannelAssumption, RandomDelay = FALSE, TypeOK, SwitchOutcome,
     SingleGame
  DEF StepChannelSwitch
<1>14. ASSUME StepExit PROVE RestInv'
  BY <1>14, FastToggle = FALSE, TypeOK, NoticesInv, RestInv
  DEF StepExit
<1>15. ASSUME InventoryFetched PROVE RestInv'
  BY <1>15, FastToggle = FALSE, TypeOK, NoticesInv, RestInv
  DEF InventoryFetched, ChangeState
<1>16. ASSUME GamesUpdated PROVE RestInv'
  BY <1>16, FastToggle = FALSE, TypeOK, NoticesInv, RestInv
  DEF GamesUpdated, ChangeState
<1>17. ASSUME ChannelsFetched PROVE RestInv'
  BY <1>17, FastToggle = FALSE, TypeOK, NoticesInv, RestInv
  DEF ChannelsFetched, ChangeState
<1>18. ASSUME DelayElapsed PROVE RestInv'
  BY <1>18, NoticesInv DEF DelayElapsed
<1>19. ASSUME Shutdown PROVE RestInv'
  BY <1>19, FastToggle = FALSE, TypeOK, NoticesInv, RestInv
  DEF Shutdown
<1>20. ASSUME ScheduleStarts PROVE RestInv'
  <2>1. main' = main /\ main \notin {"tail", "head", "step"}
    BY <1>20 DEF ScheduleStarts, Quiet, Running
  <2>2. CASE state = "EXIT"
    BY <1>20, <2>2 DEF ScheduleStarts, Iterate
  <2>3. CASE state # "EXIT" /\ ~Open'
    BY <2>3
  <2>4. CASE state # "EXIT" /\ Open' /\ Open
    BY <1>20, <2>1, <2>4, FastToggle = FALSE, TypeOK, RestInv
    DEF ScheduleStarts, Iterate, Reopened
  <2>5. CASE state # "EXIT" /\ Open' /\ ~Open
    BY <1>20, <2>1, <2>5 DEF ScheduleStarts, Iterate, Reopened, RequestInventoryRefresh
  <2> QED
    BY <2>2, <2>3, <2>4, <2>5
<1>21. ASSUME ScheduleIterates PROVE RestInv'
  <2>1. main' = main /\ main \notin {"tail", "head", "step"}
    BY <1>21 DEF ScheduleIterates, Quiet, Running
  <2>2. CASE state = "EXIT"
    BY <1>21, <2>2 DEF ScheduleIterates, Iterate
  <2>3. CASE state # "EXIT" /\ ~Open'
    BY <2>3
  <2>4. CASE state # "EXIT" /\ Open' /\ wasOpen
    BY <1>21, <2>1, <2>4, FastToggle = FALSE, TypeOK, RestInv
    DEF ScheduleIterates, Iterate, Reopened
  <2>5. CASE state # "EXIT" /\ Open' /\ ~wasOpen
    BY <1>21, <2>1, <2>5 DEF ScheduleIterates, Iterate, Reopened, RequestInventoryRefresh
  <2> QED
    BY <2>2, <2>3, <2>4, <2>5
<1>22. ASSUME ScheduleDrained PROVE RestInv'
  BY <1>22, FastToggle = FALSE, TypeOK, NoticesInv, RestInv
  DEF ScheduleDrained, ChangeState
<1>23. ASSUME WatchLoopStops PROVE RestInv'
  BY <1>23, FastToggle = FALSE, TypeOK, NoticesInv, RestInv
  DEF WatchLoopStops
<1>24. ASSUME AuthEnds PROVE RestInv'
  BY <1>24, TypeOK, FreshInv DEF AuthEnds, FreshInv
<1>25. ASSUME NEW c \in Channel, CheckFindsStream(c) PROVE RestInv'
  <2>1. Sees' /\ Forgone' =>
           watching' # NoChannel /\ watching' = watching /\ watching \notin ready
    BY <1>25, ChannelAssumption, TypeOK
    DEF CheckFindsStream, Watch, IsWatched, SameChannel
  <2>2. main' = main /\ Quiet /\ UNCHANGED <<state, change, refresh, update, loaded>>
    BY <1>25 DEF CheckFindsStream
  <2>3. main # "tail" /\ main # "head" /\ main # "step"
    BY <2>2 DEF Quiet, Running
  <2>4. Sees' => Sees
    BY <1>25 DEF CheckFindsStream
  <2>5. Sees' /\ Forgone' /\ main = "wait" => change
    BY <2>1, NoticesInv
  <2> QED
    BY <2>2, <2>3, <2>4, <2>5, RestInv
<1>26. ASSUME NEW c \in Channel, ChannelLost(c) PROVE RestInv'
  <2>1. /\ Quiet /\ ready' = ready \ {c}
        /\ UNCHANGED <<main, watching, tracked, refresh, update, loaded, paused,
                       inWindow, sched, wasOpen>>
    BY <1>26 DEF ChannelLost
  <2>2. CASE IsWatched(c)
    BY <1>26, <2>1, <2>2, TypeOK, NoticesInv, RestInv
    DEF ChannelLost, ChangeState, Quiet, Running
  <2>3. CASE ~IsWatched(c)
    <3>1. c # watching /\ UNCHANGED <<state, change>>
      BY <1>26, <2>3, ChannelAssumption DEF ChannelLost, IsWatched, SameChannel
    <3> QED
      BY <2>1, <3>1, TypeOK, NoticesInv, RestInv
  <2> QED
    BY <2>2, <2>3
<1>27. ASSUME NEW c \in Channel, SelectChannel(c) PROVE RestInv'
  BY <1>27, FastToggle = FALSE, TypeOK, NoticesInv, RestInv
  DEF SelectChannel, ChangeState
<1>28. ASSUME DropClaimed PROVE RestInv'
  BY <1>28, FastToggle = FALSE, TypeOK, NoticesInv, RestInv
  DEF DropClaimed, RequestGamesUpdate
<1>29. ASSUME EstimateSpent PROVE RestInv'
  BY <1>29, FastToggle = FALSE, TypeOK, NoticesInv, RestInv
  DEF EstimateSpent, ChangeState
<1>30. ASSUME ExitManualMode PROVE RestInv'
  BY <1>30, FastToggle = FALSE, TypeOK, NoticesInv, RestInv
  DEF ExitManualMode, ChangeState
<1>31. ASSUME SettingsChanged PROVE RestInv'
  BY <1>31, TypeOK, MissingIsAsked, RestInv
  DEF SettingsChanged, RequestGamesUpdate, MissingIsAsked, Live, Quiet, Running
<1>32. ASSUME NEW clear \in BOOLEAN, Reload(clear) PROVE RestInv'
  BY <1>32, FastToggle = FALSE, TypeOK, NoticesInv, RestInv
  DEF Reload, RequestInventoryRefresh
<1>33. ASSUME SetPaused PROVE RestInv'
  BY <1>33, FastToggle = FALSE, TypeOK, NoticesInv, RestInv
  DEF SetPaused
<1>34. ASSUME WindowBoundary PROVE RestInv'
  BY <1>34, FastToggle = FALSE, TypeOK, NoticesInv, RestInv
  DEF WindowBoundary
<1>35. ASSUME MaintenanceCleanup PROVE RestInv'
  BY <1>35, FastToggle = FALSE, TypeOK, NoticesInv, RestInv
  DEF MaintenanceCleanup, ChangeState
<1>36. ASSUME MaintenanceReload PROVE RestInv'
  BY <1>36, FastToggle = FALSE, TypeOK, NoticesInv, RestInv
  DEF MaintenanceReload, RequestInventoryRefresh
<1>37. ASSUME AuthBegins PROVE RestInv'
  BY <1>37, FastToggle = FALSE, TypeOK, NoticesInv, RestInv
  DEF AuthBegins
<1>38. ASSUME Close PROVE RestInv'
  BY <1>38, FastToggle = FALSE, TypeOK, NoticesInv, RestInv
  DEF Close, ChangeState
<1>39. ASSUME RunAuthorized PROVE RestInv'
  BY <1>39, FastToggle = FALSE, TypeOK, NoticesInv, RestInv DEF RunAuthorized
<1>40. ASSUME SocketsReady PROVE RestInv'
  BY <1>40, FastToggle = FALSE, TypeOK, NoticesInv, RestInv DEF SocketsReady
<1>41. ASSUME UNCHANGED vars PROVE RestInv'
  BY <1>41, FastToggle = FALSE, TypeOK, NoticesInv, RestInv
<1> QED
  BY <1>1, <1>2, <1>3, <1>4, <1>5, <1>6, <1>7, <1>8, <1>9, <1>10, <1>11, <1>12,
     <1>13, <1>14, <1>15, <1>16, <1>17, <1>18, <1>19, <1>20, <1>21, <1>22,
     <1>23, <1>24, <1>25, <1>26, <1>27, <1>28, <1>29, <1>30, <1>31, <1>32,
     <1>33, <1>34, <1>35, <1>36, <1>37, <1>38, <1>39, <1>40, <1>41
  DEF Next, MainStep, MainResumes, ScheduleStep, Environment

(* The miner never sleeps on a channel that stopped being eligible, however *)
(* it was lost (client.py, channel_service.py, message_handlers.py).        *)
THEOREM LostChannelsAreNoticed ==
    ASSUME RandomDelay = FALSE
    PROVE  Spec => []WatchedIsReady
<1>1. TypeOK /\ NoticesInv /\ [Next]_vars => NoticesInv'
  BY StepNotices
<1>2. NoticesInv => WatchedIsReady
  BY DEF NoticesInv, WatchedIsReady, Asleep
<1> QED
  BY <1>1, <1>2, InitRest, TypeCorrect, PTL DEF Spec

(* It does not idle next to a tracked channel it could watch: a stream that *)
(* begins, a lost channel and the end of a pause all lead to a new choice.  *)
THEOREM NothingIsForgone ==
    ASSUME FastToggle = FALSE, RandomDelay = FALSE,
           SingleGame
    PROVE  Spec => []NothingLeftUnwatched
<1>1. TypeOK /\ FreshInv /\ [Next]_vars => FreshInv'
  BY StepFresh
<1>2. TypeOK /\ FreshInv /\ MissingIsAsked /\ [Next]_vars => MissingIsAsked'
  BY StepMissing
<1>3. TypeOK /\ NoticesInv /\ [Next]_vars => NoticesInv'
  BY StepNotices
<1>4. TypeOK /\ FreshInv /\ MissingIsAsked /\ NoticesInv /\ RestInv /\ [Next]_vars
        => RestInv'
  BY StepRest
<1>5. TypeOK /\ RestInv => NothingLeftUnwatched
  BY DEF RestInv, Sees, Forgone, Watchable, NothingLeftUnwatched, AtRest, Asleep, Settled,
         TypeOK, WorldType, Open
<1>6. Init => MissingIsAsked
  BY InitServed DEF ServedInv
<1> QED
  BY <1>1, <1>2, <1>3, <1>4, <1>5, <1>6, InitFresh, InitRest, TypeCorrect, PTL DEF Spec

-----------------------------------------------------------------------------
(* Miner implements MiningService.  The steps of _run that begin work do so *)
(* in states that only its own head and its other steps set; an inventory  *)
(* is behind everything that is known.                                     *)

NothingKnown ==
    /\ tracked = {} /\ ready = {} /\ checking = {}
    /\ selection = NoChannel /\ manual = NoChannel
    /\ ~wanted /\ ~mnt
    /\ state \in {"IDLE", "INVENTORY_FETCH", "EXIT"}
    /\ main \notin {"claims", "gather", "delay"}

ServiceInv ==
    /\ main \in {"off", "start", "connect"} /\ ~changing =>
          state \in {"IDLE", "EXIT"}
    /\ main = "step" /\ state \notin {"IDLE", "EXIT"} => Open
    /\ state = "INVENTORY_FETCH" =>
          \/ refresh
          \/ main \in {"reconnect", "inventory", "off", "done", "stopped"}
    /\ ~loaded => NothingKnown
    /\ changing => ~mnt
    /\ main = "delay" => target # NoChannel

(* At first there is no inventory and nothing known.                       *)
LEMMA InitService == Init => ServiceInv
  BY DEF Init, ServiceInv, NothingKnown

(* Nothing becomes known without an inventory, and no state is set that    *)
(* the loop must not find.                                                 *)
LEMMA StepServiceInv ==
    ASSUME TypeOK, FreshInv, ServiceInv, [Next]_vars
    PROVE  ServiceInv'
<1> USE DEF ServiceInv, NothingKnown, FreshInv, NothingOld, TypeOK,
        ControlType, RunType, WorldType, Open, Quiet, Running, MaybeChannel
<1>1. ASSUME \/ WatchLoopStops
      PROVE  ServiceInv'
  <2>1. UNCHANGED <<main, changing, state, paused, inWindow, refresh, loaded,
                    tracked, ready, checking, selection, manual, wanted, mnt,
                    target>>
    BY <1>1 DEF WatchLoopStops
  <2> QED
    BY <2>1, TypeOK, FreshInv, ServiceInv
<1>2. ASSUME \/ SettingsChanged
      PROVE  ServiceInv'
  <2>1. UNCHANGED <<main, changing, state, paused, inWindow, refresh, loaded,
                    tracked, ready, checking, selection, manual, wanted, mnt,
                    target>>
    BY <1>2 DEF SettingsChanged
  <2> QED
    BY <2>1, TypeOK, FreshInv, ServiceInv
<1>3. ASSUME RunBegins PROVE ServiceInv'
  BY <1>3, TypeOK, FreshInv, ServiceInv DEF RunBegins
<1>4. ASSUME RunStarted PROVE ServiceInv'
  BY <1>4, TypeOK, FreshInv, ServiceInv DEF RunStarted, RequestInventoryRefresh
<1>5. ASSUME RunRaises PROVE ServiceInv'
  BY <1>5, TypeOK, FreshInv, ServiceInv DEF RunRaises
<1>6. ASSUME LoopHead PROVE ServiceInv'
  BY <1>6, TypeOK, FreshInv, ServiceInv DEF LoopHead, ActivatedState,
     Activated, ActivatedRefresh, ActivatedUpdate
<1>7. ASSUME LoopTail PROVE ServiceInv'
  BY <1>7, TypeOK, FreshInv, ServiceInv DEF LoopTail, ActivatedState,
     Activated, ActivatedRefresh, ActivatedUpdate
<1>8. ASSUME LoopWakes PROVE ServiceInv'
  BY <1>8, TypeOK, FreshInv, ServiceInv DEF LoopWakes
<1>9. ASSUME StepIdle PROVE ServiceInv'
  BY <1>9, TypeOK, FreshInv, ServiceInv DEF StepIdle
<1>10. ASSUME StepInventoryFetch PROVE ServiceInv'
  BY <1>10, TypeOK, FreshInv, ServiceInv DEF StepInventoryFetch
<1>11. ASSUME StepGamesUpdate PROVE ServiceInv'
  BY <1>11, TypeOK, FreshInv, ServiceInv DEF StepGamesUpdate
<1>12. ASSUME StepChannelsCleanup PROVE ServiceInv'
  BY <1>12, TypeOK, FreshInv, ServiceInv DEF StepChannelsCleanup, ChangeState
<1>13. ASSUME StepChannelsFetch PROVE ServiceInv'
  BY <1>13, TypeOK, FreshInv, ServiceInv DEF StepChannelsFetch
<1>14. ASSUME StepChannelSwitch PROVE ServiceInv'
  <2>1. main' = "delay" => target' \in ready
    BY <1>14 DEF StepChannelSwitch, SwitchToSelected, SwitchInManualMode,
       ManualModeEnds, SwitchByPriority, KeepOrIdle, SwitchTo, Selected,
       CanWatch
  <2> QED
    BY <1>14, <2>1, TypeOK, FreshInv, ServiceInv, ChannelAssumption
    DEF StepChannelSwitch, SwitchToSelected, SwitchInManualMode,
        ManualModeEnds, SwitchByPriority, KeepOrIdle, SwitchTo, Watch,
        ChangeState
<1>15. ASSUME StepExit PROVE ServiceInv'
  BY <1>15, TypeOK, FreshInv, ServiceInv DEF StepExit
<1>16. ASSUME InventoryFetched PROVE ServiceInv'
  BY <1>16, TypeOK, FreshInv, ServiceInv DEF InventoryFetched, ChangeState
<1>17. ASSUME GamesUpdated PROVE ServiceInv'
  BY <1>17, TypeOK, FreshInv, ServiceInv DEF GamesUpdated, ChangeState
<1>18. ASSUME ChannelsFetched PROVE ServiceInv'
  BY <1>18, TypeOK, FreshInv, ServiceInv DEF ChannelsFetched, ChangeState
<1>19. ASSUME DelayElapsed PROVE ServiceInv'
  BY <1>19, TypeOK, FreshInv, ServiceInv DEF DelayElapsed, Watch
<1>20. ASSUME Shutdown PROVE ServiceInv'
  BY <1>20, TypeOK, FreshInv, ServiceInv DEF Shutdown
<1>21. ASSUME ScheduleStarts PROVE ServiceInv'
  BY <1>21, TypeOK, FreshInv, ServiceInv DEF ScheduleStarts, Iterate,
     ChangeState, Reopened, RequestInventoryRefresh
<1>22. ASSUME ScheduleIterates PROVE ServiceInv'
  BY <1>22, TypeOK, FreshInv, ServiceInv DEF ScheduleIterates, Iterate,
     ChangeState, Reopened, RequestInventoryRefresh
<1>23. ASSUME ScheduleDrained PROVE ServiceInv'
  BY <1>23, TypeOK, FreshInv, ServiceInv DEF ScheduleDrained, ChangeState
<1>24. ASSUME AuthEnds PROVE ServiceInv'
  BY <1>24, TypeOK, FreshInv, ServiceInv DEF AuthEnds
<1>25. ASSUME NEW c \in Channel, StreamChanges(c) PROVE ServiceInv'
  BY <1>25, TypeOK, FreshInv, ServiceInv DEF StreamChanges
<1>26. ASSUME NEW c \in Channel, CheckFindsStream(c) PROVE ServiceInv'
  BY <1>26, TypeOK, FreshInv, ServiceInv DEF CheckFindsStream, Watch
<1>27. ASSUME NEW c \in Channel, ChannelLost(c) PROVE ServiceInv'
  BY <1>27, TypeOK, FreshInv, ServiceInv DEF ChannelLost, ChangeState
<1>28. ASSUME NEW c \in Channel, SelectChannel(c) PROVE ServiceInv'
  BY <1>28, TypeOK, FreshInv, ServiceInv DEF SelectChannel, ChangeState
<1>29. ASSUME DropClaimed PROVE ServiceInv'
  BY <1>29, TypeOK, FreshInv, ServiceInv DEF DropClaimed, RequestGamesUpdate
<1>30. ASSUME EstimateSpent PROVE ServiceInv'
  BY <1>30, TypeOK, FreshInv, ServiceInv DEF EstimateSpent, ChangeState
<1>31. ASSUME ExitManualMode PROVE ServiceInv'
  BY <1>31, TypeOK, FreshInv, ServiceInv DEF ExitManualMode, ChangeState
<1>32. ASSUME NEW clear \in BOOLEAN, Reload(clear) PROVE ServiceInv'
  BY <1>32, TypeOK, FreshInv, ServiceInv DEF Reload, RequestInventoryRefresh
<1>33. ASSUME SetPaused PROVE ServiceInv'
  BY <1>33, TypeOK, FreshInv, ServiceInv DEF SetPaused
<1>34. ASSUME WindowBoundary PROVE ServiceInv'
  BY <1>34, TypeOK, FreshInv, ServiceInv DEF WindowBoundary
<1>35. ASSUME MaintenanceCleanup PROVE ServiceInv'
  BY <1>35, TypeOK, FreshInv, ServiceInv DEF MaintenanceCleanup, ChangeState
<1>36. ASSUME MaintenanceReload PROVE ServiceInv'
  BY <1>36, TypeOK, FreshInv, ServiceInv DEF MaintenanceReload,
     RequestInventoryRefresh
<1>37. ASSUME AuthBegins PROVE ServiceInv'
  BY <1>37, TypeOK, FreshInv, ServiceInv DEF AuthBegins
<1>38. ASSUME Close PROVE ServiceInv'
  BY <1>38, TypeOK, FreshInv, ServiceInv DEF Close, ChangeState
<1>39. ASSUME RunAuthorized PROVE ServiceInv'
  BY <1>39, TypeOK, FreshInv, ServiceInv DEF RunAuthorized
<1>40. ASSUME SocketsReady PROVE ServiceInv'
  BY <1>40, TypeOK, FreshInv, ServiceInv DEF SocketsReady
<1>41. ASSUME UNCHANGED vars PROVE ServiceInv'
  BY <1>41, TypeOK, FreshInv, ServiceInv
<1> QED
  BY <1>1, <1>2, <1>3, <1>4, <1>5, <1>6, <1>7, <1>8, <1>9, <1>10, <1>11, <1>12,
     <1>13, <1>14, <1>15, <1>16, <1>17, <1>18, <1>19, <1>20, <1>21, <1>22,
     <1>23, <1>24, <1>25, <1>26, <1>27, <1>28, <1>29, <1>30, <1>31, <1>32,
     <1>33, <1>34, <1>35, <1>36, <1>37, <1>38, <1>39, <1>40, <1>41
  DEF Next, MainStep, MainResumes, ScheduleStep, Environment
(* A step of the service, or none.                                         *)
Promised == [Service!Next]_(Service!vars)

(* Every action is a step of the service, or shows it nothing.             *)
LEMMA StepPromised ==
    ASSUME TypeOK, FreshInv, ServiceInv, TypeOK', [Next]_vars
    PROVE  Promised
<1> USE DEF ServiceInv, NothingKnown, FreshInv, NothingOld, TypeOK, ControlType,
        RunType, WorldType, MaybeChannel, Open, Quiet, Running, Awaits
<1>1. ASSUME RunBegins PROVE Promised
  <2>1. Service!Login \/ UNCHANGED Service!vars
    BY <1>1, TypeOK, FreshInv, ServiceInv, TypeOK', ChannelAssumption
    DEF RunBegins, Service!Login, Service!vars
  <2> QED
    BY <2>1 DEF Promised, Service!Next
<1>2. ASSUME RunStarted PROVE Promised
  <2>1. Service!LoggedIn
    BY <1>2, TypeOK, FreshInv, ServiceInv, TypeOK', ChannelAssumption
    DEF RunStarted, RequestInventoryRefresh, Service!LoggedIn
  <2> QED
    BY <2>1 DEF Promised, Service!Next
<1>3. ASSUME RunRaises PROVE Promised
  <2>1. Service!Abandon
    BY <1>3, TypeOK, FreshInv, ServiceInv, TypeOK', ChannelAssumption
    DEF RunRaises, Service!Abandon
  <2> QED
    BY <2>1 DEF Promised, Service!Next
<1>4. ASSUME LoopHead PROVE Promised
  <2>1. Service!StopWatching \/ UNCHANGED Service!vars
    BY <1>4, TypeOK, FreshInv, ServiceInv, TypeOK', ChannelAssumption
    DEF LoopHead, ActivatedState, ActivatedRefresh, ActivatedUpdate,
        Service!StopWatching, Service!vars
  <2> QED
    BY <2>1 DEF Promised, Service!Next
<1>5. ASSUME LoopTail PROVE Promised
  <2>1. UNCHANGED Service!vars
    BY <1>5, TypeOK, FreshInv, ServiceInv, TypeOK', ChannelAssumption
    DEF LoopTail, ActivatedState, ActivatedRefresh, ActivatedUpdate,
        Service!vars
  <2> QED
    BY <2>1 DEF Promised
<1>6. ASSUME LoopWakes PROVE Promised
  <2>1. UNCHANGED Service!vars
    BY <1>6, TypeOK, FreshInv, ServiceInv, TypeOK', ChannelAssumption
    DEF LoopWakes, Service!vars
  <2> QED
    BY <2>1 DEF Promised
<1>7. ASSUME StepIdle PROVE Promised
  <2>1. Service!StopWatching
    BY <1>7, TypeOK, FreshInv, ServiceInv, TypeOK', ChannelAssumption
    DEF StepIdle, Service!StopWatching
  <2> QED
    BY <2>1 DEF Promised, Service!Next
<1>8. ASSUME StepInventoryFetch PROVE Promised
  <2>1. Service!Fetch
    BY <1>8, TypeOK, FreshInv, ServiceInv, TypeOK', ChannelAssumption
    DEF StepInventoryFetch, Service!Fetch
  <2> QED
    BY <2>1 DEF Promised, Service!Next
<1>9. ASSUME InventoryFetched PROVE Promised
  <2>1. Service!Load
    BY <1>9, TypeOK, FreshInv, ServiceInv, TypeOK', ChannelAssumption
    DEF InventoryFetched, ChangeState, Service!Load
  <2> QED
    BY <2>1 DEF Promised, Service!Next
<1>10. ASSUME StepGamesUpdate PROVE Promised
  <2>1. Service!Begin
    BY <1>10, TypeOK, FreshInv, ServiceInv, TypeOK', ChannelAssumption
    DEF StepGamesUpdate, Service!Begin
  <2> QED
    BY <2>1 DEF Promised, Service!Next
<1>11. ASSUME GamesUpdated PROVE Promised
  <2>1. Service!Judge
    BY <1>11, TypeOK, FreshInv, ServiceInv, TypeOK', ChannelAssumption
    DEF GamesUpdated, ChangeState, Service!Judge
  <2> QED
    BY <2>1 DEF Promised, Service!Next
<1>12. ASSUME StepChannelsCleanup PROVE Promised
  <2>1. UNCHANGED Service!vars
    BY <1>12, TypeOK, FreshInv, ServiceInv, TypeOK', ChannelAssumption
    DEF StepChannelsCleanup, ChangeState, Service!vars
  <2> QED
    BY <2>1 DEF Promised
<1>13. ASSUME StepChannelsFetch PROVE Promised
  <2>1. Service!Begin
    BY <1>13, TypeOK, FreshInv, ServiceInv, TypeOK', ChannelAssumption
    DEF StepChannelsFetch, Service!Begin
  <2> QED
    BY <2>1 DEF Promised, Service!Next
<1>14. ASSUME ChannelsFetched PROVE Promised
  <2>1. watching' = watching \/ (Open /\ watching' \in ready')
    BY <1>14 DEF ChannelsFetched, Relinked, CanWatch
  <2>2. /\ main = "gather" /\ main' = "tail"
        /\ UNCHANGED <<refresh, loaded, target, paused, inWindow>>
        /\ state' = IF state = "EXIT" THEN "EXIT" ELSE "CHANNEL_SWITCH"
    BY <1>14 DEF ChannelsFetched, ChangeState
  <2>3. Service!Judge
    BY <2>1, <2>2, TypeOK, FreshInv, ServiceInv, TypeOK', ChannelAssumption
    DEF Service!Judge
  <2> QED
    BY <2>3 DEF Promised, Service!Next
<1>15. ASSUME DelayElapsed PROVE Promised
  <2>1. Service!Judge
    BY <1>15, TypeOK, FreshInv, ServiceInv, TypeOK', ChannelAssumption
    DEF DelayElapsed, Watch, Service!Judge
  <2> QED
    BY <2>1 DEF Promised, Service!Next
<1>16. ASSUME StepExit PROVE Promised
  <2>1. UNCHANGED Service!vars
    BY <1>16, TypeOK, FreshInv, ServiceInv, TypeOK', ChannelAssumption
    DEF StepExit, Service!vars
  <2> QED
    BY <2>1 DEF Promised
<1>17. ASSUME Shutdown PROVE Promised
  <2>1. Service!End
    BY <1>17, TypeOK, FreshInv, ServiceInv, TypeOK', ChannelAssumption
    DEF Shutdown, Service!End
  <2> QED
    BY <2>1 DEF Promised, Service!Next
<1>18. ASSUME ScheduleDrained PROVE Promised
  <2>1. UNCHANGED Service!vars
    BY <1>18, TypeOK, FreshInv, ServiceInv, TypeOK', ChannelAssumption
    DEF ScheduleDrained, ChangeState, Service!vars
  <2> QED
    BY <2>1 DEF Promised
<1>19. ASSUME WatchLoopStops PROVE Promised
  <2>1. Service!StopWatching
    BY <1>19, TypeOK, FreshInv, ServiceInv, TypeOK', ChannelAssumption
    DEF WatchLoopStops, Service!StopWatching
  <2> QED
    BY <2>1 DEF Promised, Service!Next
<1>20. ASSUME AuthEnds PROVE Promised
  <2>1. Service!Forget
    BY <1>20, TypeOK, FreshInv, ServiceInv, TypeOK', ChannelAssumption
    DEF AuthEnds, Service!Forget
  <2> QED
    BY <2>1 DEF Promised, Service!Next
<1>21. ASSUME NEW c \in Channel, StreamChanges(c) PROVE Promised
  <2>1. UNCHANGED Service!vars
    BY <1>21, TypeOK, FreshInv, ServiceInv, TypeOK', ChannelAssumption
    DEF StreamChanges, Service!vars
  <2> QED
    BY <2>1 DEF Promised
<1>22. ASSUME NEW c \in Channel, CheckFindsStream(c) PROVE Promised
  <2>1. Service!Judge
    BY <1>22, TypeOK, FreshInv, ServiceInv, TypeOK', ChannelAssumption
    DEF CheckFindsStream, CanWatch, Watch, Service!Judge
  <2> QED
    BY <2>1 DEF Promised, Service!Next
<1>23. ASSUME NEW c \in Channel, ChannelLost(c) PROVE Promised
  <2>1. Service!Judge \/ UNCHANGED Service!vars
    BY <1>23, TypeOK, FreshInv, ServiceInv, TypeOK', ChannelAssumption
    DEF ChannelLost, ChangeState, Service!Judge, Service!vars
  <2> QED
    BY <2>1 DEF Promised, Service!Next
<1>24. ASSUME NEW c \in Channel, SelectChannel(c) PROVE Promised
  <2>1. UNCHANGED Service!vars
    BY <1>24, TypeOK, FreshInv, ServiceInv, TypeOK', ChannelAssumption
    DEF SelectChannel, ChangeState, Service!vars
  <2> QED
    BY <2>1 DEF Promised
<1>25. ASSUME DropClaimed PROVE Promised
  <2>1. Service!Judge
    BY <1>25, TypeOK, FreshInv, ServiceInv, TypeOK', ChannelAssumption
    DEF DropClaimed, RequestGamesUpdate, Service!Judge
  <2> QED
    BY <2>1 DEF Promised, Service!Next
<1>26. ASSUME EstimateSpent PROVE Promised
  <2>1. Service!Judge
    BY <1>26, TypeOK, FreshInv, ServiceInv, TypeOK', ChannelAssumption
    DEF EstimateSpent, ChangeState, Service!Judge
  <2> QED
    BY <2>1 DEF Promised, Service!Next
<1>27. ASSUME ExitManualMode PROVE Promised
  <2>1. UNCHANGED Service!vars
    BY <1>27, TypeOK, FreshInv, ServiceInv, TypeOK', ChannelAssumption
    DEF ExitManualMode, ChangeState, Service!vars
  <2> QED
    BY <2>1 DEF Promised
<1>28. ASSUME SettingsChanged PROVE Promised
  <2>1. UNCHANGED Service!vars
    BY <1>28, TypeOK, FreshInv, ServiceInv, TypeOK', ChannelAssumption
    DEF SettingsChanged, RequestGamesUpdate, Service!vars
  <2> QED
    BY <2>1 DEF Promised
<1>29. ASSUME NEW clear \in BOOLEAN, Reload(clear) PROVE Promised
  <2>1. Service!Ask \/ UNCHANGED Service!vars
    BY <1>29, TypeOK, FreshInv, ServiceInv, TypeOK', ChannelAssumption
    DEF Reload, RequestInventoryRefresh, Service!Ask, Service!vars
  <2> QED
    BY <2>1 DEF Promised, Service!Next
<1>30. ASSUME SetPaused PROVE Promised
  <2>1. Service!Toggle \/ UNCHANGED Service!vars
    BY <1>30, TypeOK, FreshInv, ServiceInv, TypeOK', ChannelAssumption
    DEF SetPaused, Service!Toggle, Service!vars
  <2> QED
    BY <2>1 DEF Promised, Service!Next
<1>31. ASSUME WindowBoundary PROVE Promised
  <2>1. Service!Toggle \/ UNCHANGED Service!vars
    BY <1>31, TypeOK, FreshInv, ServiceInv, TypeOK', ChannelAssumption
    DEF WindowBoundary, Service!Toggle, Service!vars
  <2> QED
    BY <2>1 DEF Promised, Service!Next
<1>32. ASSUME MaintenanceCleanup PROVE Promised
  <2>1. UNCHANGED Service!vars
    BY <1>32, TypeOK, FreshInv, ServiceInv, TypeOK', ChannelAssumption
    DEF MaintenanceCleanup, ChangeState, Service!vars
  <2> QED
    BY <2>1 DEF Promised
<1>33. ASSUME MaintenanceReload PROVE Promised
  <2>1. Service!Ask \/ UNCHANGED Service!vars
    BY <1>33, TypeOK, FreshInv, ServiceInv, TypeOK', ChannelAssumption
    DEF MaintenanceReload, RequestInventoryRefresh, Service!Ask, Service!vars
  <2> QED
    BY <2>1 DEF Promised, Service!Next
<1>34. ASSUME AuthBegins PROVE Promised
  <2>1. Service!Abandon
    BY <1>34, TypeOK, FreshInv, ServiceInv, TypeOK', ChannelAssumption
    DEF AuthBegins, Service!Abandon
  <2> QED
    BY <2>1 DEF Promised, Service!Next
<1>35. ASSUME Close PROVE Promised
  <2>1. Service!Exit \/ UNCHANGED Service!vars
    BY <1>35, TypeOK, FreshInv, ServiceInv, TypeOK', ChannelAssumption
    DEF Close, ChangeState, Service!Exit, Service!vars
  <2> QED
    BY <2>1 DEF Promised, Service!Next
<1>36. ASSUME StepChannelSwitch PROVE Promised
  <2>1. state = "CHANNEL_SWITCH" /\ main = "step" /\ Open
    BY <1>36, ServiceInv DEF StepChannelSwitch
  <2>2. UNCHANGED <<refresh, loaded, paused, inWindow, ready>>
    BY <1>36 DEF StepChannelSwitch
  <2>3. ASSUME NEW c \in ready, SwitchTo(c) PROVE Promised
    <3>1. CASE main' = "delay"
      <4>1. target' = c /\ UNCHANGED <<watching, state>>
        BY <2>3, <3>1 DEF SwitchTo
      <4>2. Service!Begin
        BY <2>1, <2>2, <3>1, <4>1, TypeOK, ServiceInv DEF Service!Begin
      <4> QED
        BY <4>2 DEF Promised, Service!Next
    <3>2. CASE main' # "delay"
      <4>1. /\ main' = "tail" /\ UNCHANGED <<target, state>>
            /\ watching' = c
        BY <2>1, <2>3, <3>2 DEF SwitchTo, Watch
      <4>2. Service!Judge
        BY <2>1, <2>2, <4>1, TypeOK, TypeOK', ServiceInv DEF Service!Judge
      <4> QED
        BY <4>2 DEF Promised, Service!Next
    <3> QED
      BY <3>1, <3>2
  <2>4. ASSUME KeepOrIdle PROVE Promised
    <3>1. UNCHANGED Service!vars
      BY <2>1, <2>2, <2>4, TypeOK DEF KeepOrIdle, ChangeState, Service!vars
    <3> QED
      BY <3>1 DEF Promised
  <2>5. CASE SwitchToSelected
    <3>1. \E c \in ready : SwitchTo(c)
      BY <2>5 DEF SwitchToSelected, Selected, CanWatch
    <3> QED
      BY <2>3, <3>1
  <2>6. CASE SwitchInManualMode
    <3>1. \E c \in ready : SwitchTo(c)
      BY <2>6 DEF SwitchInManualMode, CanWatch
    <3> QED
      BY <2>3, <3>1
  <2>7. CASE ManualModeEnds
    BY <2>4, <2>7 DEF ManualModeEnds
  <2>8. CASE SwitchByPriority
    <3>1. (\E c \in ready : SwitchTo(c)) \/ KeepOrIdle
      BY <2>8 DEF SwitchByPriority, CanWatch
    <3> QED
      BY <2>3, <2>4, <3>1
  <2> QED
    BY <1>36, <2>5, <2>6, <2>7, <2>8 DEF StepChannelSwitch
<1>37. ASSUME NEW was \in BOOLEAN, Quiet, Iterate(was),
              UNCHANGED <<main, target, inWindow, ready>>
       PROVE  Promised
  <2>1. CASE state = "EXIT"
    <3>1. UNCHANGED Service!vars
      BY <1>37, <2>1 DEF Iterate, Service!vars
    <3> QED
      BY <3>1 DEF Promised
  <2>2. CASE state # "EXIT" /\ Open'
    <3>1. /\ UNCHANGED <<state, loaded, watching>>
          /\ refresh' = IF was THEN refresh ELSE TRUE
      BY <1>37, <2>2 DEF Iterate, Reopened, RequestInventoryRefresh
    <3>2. Service!Toggle \/ Service!Ask \/ UNCHANGED Service!vars
      BY <1>37, <2>2, <3>1, TypeOK, TypeOK'
      DEF Service!Toggle, Service!Ask, Service!vars
    <3> QED
      BY <3>2 DEF Promised, Service!Next
  <2>3. CASE state # "EXIT" /\ ~Open'
    <3>1. /\ watching' = NoChannel /\ UNCHANGED <<refresh, loaded>>
          /\ state' \in {state, "IDLE"}
          /\ ~Open
      BY <1>37, <2>3, TypeOK, TypeOK' DEF Iterate, ChangeState
    <3>2. Service!StopWatching
      BY <1>37, <2>3, <3>1, TypeOK DEF Service!StopWatching
    <3> QED
      BY <3>2 DEF Promised, Service!Next
  <2> QED
    BY <2>1, <2>2, <2>3
<1>38. ASSUME ScheduleStarts \/ ScheduleIterates PROVE Promised
  <2>1. \E was \in BOOLEAN : Iterate(was)
    BY <1>38, TypeOK DEF ScheduleStarts, ScheduleIterates
  <2>2. Quiet /\ UNCHANGED <<main, target, inWindow, ready>>
    BY <1>38 DEF ScheduleStarts, ScheduleIterates
  <2> QED
    BY <1>37, <2>1, <2>2
<1>39. ASSUME RunAuthorized PROVE Promised
  <2>1. UNCHANGED Service!vars
    BY <1>39 DEF RunAuthorized, Service!vars
  <2> QED
    BY <2>1 DEF Promised
<1>40. ASSUME SocketsReady PROVE Promised
  <2>1. UNCHANGED Service!vars
    BY <1>40 DEF SocketsReady, Service!vars
  <2> QED
    BY <2>1 DEF Promised
<1>41. ASSUME UNCHANGED vars PROVE Promised
  BY <1>41 DEF Promised, Service!vars
<1> QED
  BY <1>1, <1>2, <1>3, <1>4, <1>5, <1>6, <1>7, <1>8, <1>9, <1>10, <1>11, <1>12,
     <1>13, <1>14, <1>15, <1>16, <1>17, <1>18, <1>19, <1>20, <1>21, <1>22,
     <1>23, <1>24, <1>25, <1>26, <1>27, <1>28, <1>29, <1>30, <1>31, <1>32,
     <1>33, <1>34, <1>35, <1>36, <1>37, <1>38, <1>39, <1>40, <1>41
  DEF Next, MainStep, MainResumes, ScheduleStep, Environment

(* Miner implements MiningService: over every interruption it fetches only *)
(* what was asked for and while mining is allowed, loses no request, works *)
(* on one inventory of the present account, begins nothing once it is to   *)
(* exit, and watches only what it judged able to earn (client.py:241-1003).*)
THEOREM MinerImplementsService == Spec => ImplementsService
<1>1. Init => Service!Init
  BY DEF Init, Service!Init, Awaits, Open
<1>2. TypeOK /\ FreshInv /\ [Next]_vars => FreshInv'
  BY StepFresh
<1>3. TypeOK /\ FreshInv /\ ServiceInv /\ [Next]_vars => ServiceInv'
  BY StepServiceInv
<1>4. TypeOK /\ TypeOK' /\ FreshInv /\ ServiceInv /\ [Next]_vars
        => [Service!Next]_(Service!vars)
  BY StepPromised DEF Promised
<1> QED
  BY <1>1, <1>2, <1>3, <1>4, InitFresh, InitService, TypeCorrect, PTL
  DEF Spec, ImplementsService, Service!Spec
=============================================================================
