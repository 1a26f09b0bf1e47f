----------------------- MODULE ServerLifecycleProofs ------------------------
(***************************************************************************)
(* Theorems about ServerLifecycle, for any protocols, callers and number   *)
(* of requests at a time.                                                  *)
(***************************************************************************)
EXTENDS ServerLifecycle, TLAPS

\* Where ListenAndServe is, and what it knows there.
Phases ==
    /\ pc = "start" => \A l \in Listeners : st[l] = "off"
    /\ pc \in {"start", "select"} => result = "none" /\ shut = {} /\ todo = {}
    /\ pc \in {"stopping", "waiting", "closing"} =>
          result \in {"http", "dns", "context"}
    /\ pc = "returned" => result # "none"
    /\ pc = "waiting" => todo # {} /\ Current \in shut
    /\ pc \in {"closing", "returned"} => todo = {}
    /\ todo \subseteq InUse

\* What made ListenAndServe leave its select has happened.
Reported ==
    /\ result = "handler" => \A l \in Listeners : st[l] = "off"
    /\ result = "http" => st["http"] = "done" /\ "http" \in broke
    /\ result = "dns" => \E l \in Dns : st[l] = "done" /\ l \in broke
    /\ result = "context" => cancelled

\* Every server to shut down is waiting for it, or was asked.
Asked ==
    /\ result \in {"http", "dns", "context"} =>
          ToShut(result) \subseteq todo \cup shut \cup missed
    /\ missed \subseteq Dns
    /\ shut \cap todo \subseteq {Current}

\* The states of the listeners.
ListenersKnown ==
    \A l \in Listeners :
        /\ st[l] \in {"failed", "broken"} => l \in broke
        /\ st[l] \in {"serving", "closing", "broken"} => l \in bound
        /\ l \in bound => st[l] \notin {"off", "new", "binding"}
        /\ st[l] \notin {"off"} => l \in InUse
        /\ l \in shut => st[l] # "serving"
        /\ l \in Dns /\ l \in shut => l \in bound
        /\ l \in Dns /\ st[l] \notin {"serving", "broken", "closing"}
              => flight[l] = 0
        /\ l \in Dns => st[l] # "binding"

\* A server that was shut down is down, as long as the context is not done.
Down ==
    ~ cancelled =>
        \A l \in shut \ todo :
            /\ flight[l] = 0
            /\ l \in Dns => st[l] \in {"failed", "done"}

IInv ==
    /\ TypeOK /\ Phases /\ Reported /\ Asked /\ ListenersKnown /\ Down
    /\ OneFailureIsSurvived

-----------------------------------------------------------------------------
USE DEF Listeners, Dns, InUse, DnsInUse

LEMMA InitIInv == Init => IInv
<1> SUFFICES ASSUME Init PROVE IInv
  OBVIOUS
<1>1. cancelled \in BOOLEAN
  BY Zenon DEF Init
<1>2. TypeOK
  BY <1>1, FlightAssumption DEF Init, TypeOK
<1>3. Phases /\ Reported /\ Asked
  BY DEF Init, Phases, Reported, Asked
<1>4. ListenersKnown /\ Down
  BY DEF Init, ListenersKnown, Down
<1>5. OneFailureIsSurvived
  BY DEF Init, OneFailureIsSurvived
<1> QED BY <1>2, <1>3, <1>4, <1>5 DEF IInv

\* The listeners' own steps.
LEMMA ListenerStep ==
    ASSUME IInv, proc = "running", Listener
    PROVE  IInv'
<1> USE DEF IInv, Become
<1>0. UNCHANGED <<proto, caller, flight, cancelled, db, sweeper, proc, pc, todo,
                  result, shut, missed>>
  BY DEF Listener, server
<1>1. CASE EnterHttp
  <2>1. TypeOK'
    BY <1>0, <1>1 DEF EnterHttp, TypeOK
  <2>2. Phases' /\ Asked'
    BY <1>0, <1>1 DEF EnterHttp, TypeOK, Phases, Asked, ListenersKnown, Current, ToShut
  <2>3. Reported'
    BY <1>0, <1>1 DEF EnterHttp, TypeOK, Phases, Reported
  <2>4. ListenersKnown'
    BY <1>0, <1>1 DEF EnterHttp, TypeOK, Phases, Asked, ListenersKnown, Current
  <2>5. Down'
    BY <1>0, <1>1 DEF EnterHttp, TypeOK, Phases, ListenersKnown, Down, Current
  <2>6. OneFailureIsSurvived'
    BY <1>0, <1>1 DEF EnterHttp, TypeOK, Reported, ListenersKnown, OneFailureIsSurvived
  <2> QED BY <2>1, <2>2, <2>3, <2>4, <2>5, <2>6
<1>2. ASSUME NEW l \in Listeners, Bind(l) PROVE IInv'
  <2>1. TypeOK'
    BY <1>0, <1>2, ZenonT(30) DEF Bind, CanBind, TypeOK
  <2>2. Phases' /\ Asked'
    BY <1>0, <1>2 DEF Bind, CanBind, TypeOK, Phases, Asked, ListenersKnown, Current, ToShut
  <2>3. Reported'
    BY <1>0, <1>2 DEF Bind, CanBind, TypeOK, Phases, Reported
  <2>4. ListenersKnown'
    BY <1>0, <1>2 DEF Bind, CanBind, TypeOK, Phases, Asked, ListenersKnown, Current
  <2>5. Down'
    BY <1>0, <1>2 DEF Bind, CanBind, TypeOK, Phases, ListenersKnown, Down, Current
  <2>6. OneFailureIsSurvived'
    BY <1>0, <1>2 DEF Bind, CanBind, TypeOK, Reported, ListenersKnown, OneFailureIsSurvived
  <2> QED BY <2>1, <2>2, <2>3, <2>4, <2>5, <2>6
<1>3. ASSUME NEW l \in Listeners, BindFails(l) PROVE IInv'
  <2>1. TypeOK'
    BY <1>0, <1>3 DEF BindFails, CanBind, TypeOK
  <2>2. Phases' /\ Asked'
    BY <1>0, <1>3 DEF BindFails, CanBind, TypeOK, Phases, Asked, ListenersKnown, Current, ToShut
  <2>3. Reported'
    BY <1>0, <1>3 DEF BindFails, CanBind, TypeOK, Phases, Reported
  <2>4. ListenersKnown'
    BY <1>0, <1>3 DEF BindFails, CanBind, TypeOK, Phases, Asked, ListenersKnown, Current
  <2>5. Down'
    BY <1>0, <1>3 DEF BindFails, CanBind, TypeOK, Phases, ListenersKnown, Down, Current
  <2>6. OneFailureIsSurvived'
    BY <1>0, <1>3 DEF BindFails, CanBind, TypeOK, Reported, ListenersKnown, OneFailureIsSurvived
  <2> QED BY <2>1, <2>2, <2>3, <2>4, <2>5, <2>6
<1>4. ASSUME NEW l \in Listeners, Break(l) PROVE IInv'
  <2>1. TypeOK'
    BY <1>0, <1>4 DEF Break, TypeOK
  <2>2. Phases' /\ Asked'
    BY <1>0, <1>4 DEF Break, TypeOK, Phases, Asked, ListenersKnown, Current, ToShut
  <2>3. Reported'
    BY <1>0, <1>4 DEF Break, TypeOK, Phases, Reported
  <2>4. ListenersKnown'
    BY <1>0, <1>4 DEF Break, TypeOK, Phases, Asked, ListenersKnown, Current
  <2>5. Down'
    BY <1>0, <1>4 DEF Break, TypeOK, Phases, ListenersKnown, Down, Current
  <2>6. OneFailureIsSurvived'
    BY <1>0, <1>4 DEF Break, TypeOK, Reported, ListenersKnown, OneFailureIsSurvived
  <2> QED BY <2>1, <2>2, <2>3, <2>4, <2>5, <2>6
<1>5. ASSUME NEW l \in Listeners, LeaveLoop(l) PROVE IInv'
  <2>1. TypeOK'
    BY <1>0, <1>5 DEF LeaveLoop, WaitsForHandlers, TypeOK
  <2>2. Phases' /\ Asked'
    BY <1>0, <1>5 DEF LeaveLoop, WaitsForHandlers, TypeOK, Phases, Asked, ListenersKnown, Current, ToShut
  <2>3. Reported'
    BY <1>0, <1>5 DEF LeaveLoop, WaitsForHandlers, TypeOK, Phases, Reported
  <2>4. ListenersKnown'
    BY <1>0, <1>5 DEF LeaveLoop, WaitsForHandlers, TypeOK, Phases, Asked, ListenersKnown, Current
  <2>5. Down'
    BY <1>0, <1>5 DEF LeaveLoop, WaitsForHandlers, TypeOK, Phases, ListenersKnown, Down, Current
  <2>6. OneFailureIsSurvived'
    BY <1>0, <1>5 DEF LeaveLoop, WaitsForHandlers, TypeOK, Reported, ListenersKnown, OneFailureIsSurvived
  <2> QED BY <2>1, <2>2, <2>3, <2>4, <2>5, <2>6
<1> QED BY <1>1, <1>2, <1>3, <1>4, <1>5 DEF Listener

\* Requests come and go.
LEMMA HandlerStep ==
    ASSUME IInv, proc = "running", Handler
    PROVE  IInv'
<1> USE DEF IInv
<1>0. UNCHANGED <<proto, caller, st, bound, broke, cancelled, db, sweeper, proc,
                  pc, todo, result, shut, missed>>
  BY DEF Handler, server
<1>1. ASSUME NEW l \in Listeners, BeginRequest(l) PROVE IInv'
  <2>1. TypeOK'
    BY <1>0, <1>1, FlightAssumption DEF BeginRequest, Accepts, TypeOK
  <2>2. Phases' /\ Asked'
    BY <1>0, <1>1, FlightAssumption DEF BeginRequest, Accepts, TypeOK, Phases, Asked, ListenersKnown, Current, ToShut
  <2>3. Reported'
    BY <1>0, <1>1, FlightAssumption DEF BeginRequest, Accepts, TypeOK, Phases, Reported
  <2>4. ListenersKnown'
    BY <1>0, <1>1, FlightAssumption DEF BeginRequest, Accepts, TypeOK, Phases, Asked, ListenersKnown, Current
  <2>5. Down'
    BY <1>0, <1>1, FlightAssumption DEF BeginRequest, Accepts, TypeOK, Phases, ListenersKnown, Down, Current
  <2>6. OneFailureIsSurvived'
    BY <1>0, <1>1, FlightAssumption DEF BeginRequest, Accepts, TypeOK, Reported, ListenersKnown, OneFailureIsSurvived
  <2> QED BY <2>1, <2>2, <2>3, <2>4, <2>5, <2>6
<1>2. ASSUME NEW l \in Listeners, EndRequest(l) PROVE IInv'
  <2>1. TypeOK'
    BY <1>0, <1>2, FlightAssumption DEF EndRequest, TypeOK
  <2>2. Phases' /\ Asked'
    BY <1>0, <1>2, FlightAssumption DEF EndRequest, TypeOK, Phases, Asked, ListenersKnown, Current, ToShut
  <2>3. Reported'
    BY <1>0, <1>2, FlightAssumption DEF EndRequest, TypeOK, Phases, Reported
  <2>4. ListenersKnown'
    BY <1>0, <1>2, FlightAssumption DEF EndRequest, TypeOK, Phases, Asked, ListenersKnown, Current
  <2>5. Down'
    BY <1>0, <1>2, FlightAssumption DEF EndRequest, TypeOK, Phases, ListenersKnown, Down, Current
  <2>6. OneFailureIsSurvived'
    BY <1>0, <1>2, FlightAssumption DEF EndRequest, TypeOK, Reported, ListenersKnown, OneFailureIsSurvived
  <2> QED BY <2>1, <2>2, <2>3, <2>4, <2>5, <2>6
<1> QED BY <1>1, <1>2 DEF Handler

\* A send on a closed channel: some error was received before, or the context
\* was done.
LEMMA PanicStep ==
    ASSUME IInv, proc = "running", SendPanics
    PROVE  IInv'
<1> USE DEF IInv
<1>0. UNCHANGED <<proto, caller, st, bound, broke, flight, cancelled, db, sweeper,
                  pc, todo, result, shut, missed>>
  BY DEF SendPanics, server
<1>1. TypeOK' /\ Phases' /\ Asked' /\ Reported' /\ ListenersKnown' /\ Down'
  <2>1. TypeOK'
    BY <1>0 DEF SendPanics, TypeOK
  <2>2. Phases' /\ Asked' /\ Reported'
    BY <1>0 DEF Phases, Asked, Reported, Current, ToShut
  <2>3. ListenersKnown' /\ Down'
    BY <1>0 DEF ListenersKnown, Down
  <2> QED BY <2>1, <2>2, <2>3
<1>2. PICK l \in Listeners : st[l] = "failed" /\ ChannelClosed(l)
  BY DEF SendPanics
<1>3. l \in broke /\ result \in {"handler", "http", "dns", "context"}
  BY <1>2 DEF ListenersKnown, ChannelClosed, Phases, TypeOK
<1>4. cancelled \/ \E a \in broke : a # l
  BY <1>2, <1>3 DEF Reported
<1>5. OneFailureIsSurvived'
  BY <1>0, <1>3, <1>4 DEF OneFailureIsSurvived
<1> QED BY <1>1, <1>5

\* The steps of ListenAndServe.
LEMMA ServeStep ==
    ASSUME IInv, proc = "running", ListenAndServe
    PROVE  IInv'
<1> USE DEF IInv, Become
<1>0. UNCHANGED <<proto, caller, bound, broke, flight, cancelled, db, sweeper,
                  proc>>
  BY DEF ListenAndServe
<1>1. CASE Start
  <2>1. TypeOK'
    BY <1>0, <1>1 DEF Start, TypeOK
  <2>2. Phases' /\ Asked'
    BY <1>0, <1>1 DEF Start, TypeOK, Phases, Asked, ListenersKnown, Current, ToShut
  <2>3. Reported'
    BY <1>0, <1>1 DEF Start, TypeOK, Phases, Reported
  <2>4. ListenersKnown'
    BY <1>0, <1>1 DEF Start, TypeOK, Phases, Asked, ListenersKnown, Current
  <2>5. Down'
    BY <1>0, <1>1 DEF Start, TypeOK, Phases, ListenersKnown, Down, Current
  <2>6. OneFailureIsSurvived'
    BY <1>0, <1>1 DEF Start, TypeOK, Reported, ListenersKnown, OneFailureIsSurvived
  <2> QED BY <2>1, <2>2, <2>3, <2>4, <2>5, <2>6
<1>2. CASE StartFails
  <2>1. TypeOK'
    BY <1>0, <1>2 DEF StartFails, TypeOK
  <2>2. Phases' /\ Asked'
    BY <1>0, <1>2 DEF StartFails, TypeOK, Phases, Asked, ListenersKnown, Current, ToShut
  <2>3. Reported'
    BY <1>0, <1>2 DEF StartFails, TypeOK, Phases, Reported
  <2>4. ListenersKnown'
    BY <1>0, <1>2 DEF StartFails, TypeOK, Phases, Asked, ListenersKnown, Current
  <2>5. Down'
    BY <1>0, <1>2 DEF StartFails, TypeOK, Phases, ListenersKnown, Down, Current
  <2>6. OneFailureIsSurvived'
    BY <1>0, <1>2 DEF StartFails, TypeOK, Reported, ListenersKnown, OneFailureIsSurvived
  <2> QED BY <2>1, <2>2, <2>3, <2>4, <2>5, <2>6
<1>3. CASE ContextDone
  <2>1. TypeOK'
    BY <1>0, <1>3 DEF ContextDone, Leave, ToShut, TypeOK
  <2>2. Phases' /\ Asked'
    BY <1>0, <1>3 DEF ContextDone, Leave, TypeOK, Phases, Asked, ListenersKnown, Current, ToShut
  <2>3. Reported'
    BY <1>0, <1>3 DEF ContextDone, Leave, TypeOK, Phases, Reported
  <2>4. ListenersKnown'
    BY <1>0, <1>3 DEF ContextDone, Leave, TypeOK, Phases, Asked, ListenersKnown, Current
  <2>5. Down'
    BY <1>0, <1>3 DEF ContextDone, Leave, TypeOK, Phases, ListenersKnown, Down, Current
  <2>6. OneFailureIsSurvived'
    BY <1>0, <1>3 DEF ContextDone, Leave, TypeOK, Reported, ListenersKnown, OneFailureIsSurvived
  <2> QED BY <2>1, <2>2, <2>3, <2>4, <2>5, <2>6
<1>4. CASE Shutdown
  <2> DEFINE c == Current
  <2>0. c \in todo /\ c \in Listeners
    BY <1>4 DEF Shutdown, Current, TypeOK
  <2>a. CASE c = "http" \/ c \in bound
    <3>1. /\ pc = "stopping" /\ pc' = "waiting" /\ shut' = shut \cup {c}
          /\ UNCHANGED <<todo, missed, result>>
          /\ \/ st[c] = "serving" /\ st' = [st EXCEPT ![c] = "closing"]
             \/ st[c] # "serving" /\ UNCHANGED st
      BY <1>4, <2>a DEF Shutdown
    <3>2. c' = c
      BY <3>1 DEF Current
    <3> HIDE DEF c
    <3>3. TypeOK'
      BY <1>0, <2>0, <3>1 DEF TypeOK
    <3>4. Phases'
      BY <1>0, <2>0, <3>1, <3>2 DEF TypeOK, Phases, c
    <3>5. Asked'
      BY <1>0, <2>0, <3>1, <3>2 DEF TypeOK, Phases, Asked, ToShut, c
    <3>6. Reported'
      BY <1>0, <2>0, <3>1 DEF TypeOK, Phases, Reported
    <3>7. ListenersKnown'
      BY <1>0, <2>0, <2>a, <3>1 DEF TypeOK, Phases, ListenersKnown
    <3>8. Down'
      BY <1>0, <2>0, <3>1 DEF TypeOK, ListenersKnown, Down
    <3>9. OneFailureIsSurvived'
      BY <1>0, <3>1 DEF OneFailureIsSurvived
    <3> QED BY <3>3, <3>4, <3>5, <3>6, <3>7, <3>8, <3>9
  <2>b. CASE c # "http" /\ c \notin bound
    <3>1. /\ pc = "stopping" /\ missed' = missed \cup {c} /\ todo' = todo \ {c}
          /\ UNCHANGED <<pc, shut, st, result>>
      BY <1>4, <2>b DEF Shutdown
    <3>2. c \notin shut
      BY <2>0, <2>b DEF ListenersKnown
    <3>3. shut \cap todo \subseteq {c}
      BY DEF Asked
    <3> HIDE DEF c
    <3>4. TypeOK'
      BY <1>0, <2>0, <3>1 DEF TypeOK
    <3>5. Phases'
      BY <1>0, <2>0, <3>1 DEF TypeOK, Phases, Current
    <3>6. Asked'
      BY <1>0, <2>0, <2>b, <3>1, <3>2, <3>3 DEF TypeOK, Phases, Asked, ToShut
    <3>7. Reported'
      BY <1>0, <3>1 DEF TypeOK, Phases, Reported
    <3>8. ListenersKnown'
      BY <1>0, <3>1 DEF TypeOK, ListenersKnown
    <3>9. Down' /\ OneFailureIsSurvived'
      BY <1>0, <2>0, <3>1, <3>2 DEF TypeOK, Down, OneFailureIsSurvived
    <3> QED BY <3>4, <3>5, <3>6, <3>7, <3>8, <3>9
  <2> QED BY <2>a, <2>b
<1>5. CASE ShutdownReturns
  <2>1. TypeOK'
    BY <1>0, <1>5 DEF ShutdownReturns, IsDown, TypeOK
  <2>2. Phases' /\ Asked'
    BY <1>0, <1>5 DEF ShutdownReturns, IsDown, TypeOK, Phases, Asked, ListenersKnown, Current, ToShut
  <2>3. Reported'
    BY <1>0, <1>5 DEF ShutdownReturns, IsDown, TypeOK, Phases, Reported
  <2>4. ListenersKnown'
    BY <1>0, <1>5 DEF ShutdownReturns, IsDown, TypeOK, Phases, Asked, ListenersKnown, Current
  <2>5. Down'
    BY <1>0, <1>5 DEF ShutdownReturns, IsDown, TypeOK, Phases, ListenersKnown, Down, Current
  <2>6. OneFailureIsSurvived'
    BY <1>0, <1>5 DEF ShutdownReturns, IsDown, TypeOK, Reported, ListenersKnown, OneFailureIsSurvived
  <2> QED BY <2>1, <2>2, <2>3, <2>4, <2>5, <2>6
<1>6. CASE CloseChannels
  <2>1. TypeOK'
    BY <1>0, <1>6 DEF CloseChannels, TypeOK
  <2>2. Phases' /\ Asked'
    BY <1>0, <1>6 DEF CloseChannels, TypeOK, Phases, Asked, ListenersKnown, Current, ToShut
  <2>3. Reported'
    BY <1>0, <1>6 DEF CloseChannels, TypeOK, Phases, Reported
  <2>4. ListenersKnown'
    BY <1>0, <1>6 DEF CloseChannels, TypeOK, Phases, Asked, ListenersKnown, Current
  <2>5. Down'
    BY <1>0, <1>6 DEF CloseChannels, TypeOK, Phases, ListenersKnown, Down, Current
  <2>6. OneFailureIsSurvived'
    BY <1>0, <1>6 DEF CloseChannels, TypeOK, Reported, ListenersKnown, OneFailureIsSurvived
  <2> QED BY <2>1, <2>2, <2>3, <2>4, <2>5, <2>6
<1>7. ASSUME NEW l \in Listeners, Receive(l) PROVE IInv'
  <2>1. TypeOK'
    BY <1>0, <1>7 DEF Receive, Leave, ToShut, TypeOK
  <2>2. Phases' /\ Asked'
    BY <1>0, <1>7 DEF Receive, Leave, TypeOK, Phases, Asked, ListenersKnown, Current, ToShut
  <2>3. Reported'
    <3>1. st' = [st EXCEPT ![l] = "done"] /\ st[l] = "failed" /\ l \in broke
      BY <1>7 DEF Receive, ListenersKnown
    <3>2. CASE l = "http"
      <4>1. result' = "http"
        BY <1>7, <3>2 DEF Receive, Leave
      <4> QED BY <1>0, <3>1, <3>2, <4>1 DEF TypeOK, Reported
    <3>3. CASE l # "http"
      <4>1. result' = "dns"
        BY <1>7, <3>3 DEF Receive, Leave
      <4> QED BY <1>0, <3>1, <3>3, <4>1 DEF TypeOK, Reported
    <3> QED BY <3>2, <3>3
  <2>4. ListenersKnown'
    BY <1>0, <1>7 DEF Receive, Leave, TypeOK, Phases, Asked, ListenersKnown, Current
  <2>5. Down'
    BY <1>0, <1>7 DEF Receive, Leave, TypeOK, Phases, ListenersKnown, Down, Current
  <2>6. OneFailureIsSurvived'
    BY <1>0, <1>7 DEF Receive, Leave, TypeOK, Reported, ListenersKnown, OneFailureIsSurvived
  <2> QED BY <2>1, <2>2, <2>3, <2>4, <2>5, <2>6
<1> QED BY <1>1, <1>2, <1>3, <1>4, <1>5, <1>6, <1>7 DEF ListenAndServe

-----------------------------------------------------------------------------
LEMMA Inductive == IInv /\ [Next]_vars => IInv'
<1> SUFFICES ASSUME IInv, [Next]_vars PROVE IInv'
  OBVIOUS
<1>1. CASE UNCHANGED vars
  <2>1. UNCHANGED <<proto, caller, st, bound, broke, flight, cancelled, db,
                    sweeper, proc, pc, todo, result, shut, missed>>
    BY <1>1 DEF vars, server
  <2> QED BY <2>1 DEF IInv, TypeOK, Phases, Reported, Asked, ListenersKnown, Down,
             OneFailureIsSurvived, Current, ToShut
<1>2. ASSUME Next PROVE IInv'
  <2>0. proc = "running"
    BY <1>2 DEF Next
  <2>1. CASE Cancel
    <3>1. UNCHANGED <<proto, caller, st, bound, broke, flight, db, sweeper, proc,
                      pc, todo, result, shut, missed>>
      BY <2>1 DEF Cancel, server
    <3>2. cancelled'
      BY <2>1 DEF Cancel
    <3>3. cancelled' \in BOOLEAN
      BY <2>1, Zenon DEF Cancel
    <3>4. TypeOK'
      BY <3>1, <3>3 DEF IInv, TypeOK
    <3>5. Phases' /\ Reported' /\ Asked' /\ ListenersKnown'
      BY <3>1, <3>2 DEF IInv, Phases, Reported, Asked, ListenersKnown, Current, ToShut
    <3>6. Down' /\ OneFailureIsSurvived'
      BY <3>1, <3>2 DEF Down, OneFailureIsSurvived
    <3> QED BY <3>4, <3>5, <3>6 DEF IInv
  <2>2. CASE Exit \/ Close \/ Sweeper
    <3>1. UNCHANGED <<proto, caller, st, bound, broke, flight, cancelled, pc, todo,
                      result, shut, missed>>
      BY <2>2 DEF Exit, Close, Sweeper, server
    <3>2. db' \in {"open", "closed"} /\ proc' \in {"running", "exited"}
          /\ sweeper' \in {"starting", "idle", "deleting", "stopped"}
      BY <2>0, <2>2 DEF Exit, Close, Sweeper, SweeperStarts, Sweep, SweeperStops,
         IInv, TypeOK
    <3>3. TypeOK' /\ OneFailureIsSurvived'
      BY <3>1, <3>2 DEF IInv, TypeOK, OneFailureIsSurvived
    <3>4. Phases' /\ Reported' /\ Asked' /\ ListenersKnown' /\ Down'
      BY <3>1 DEF IInv, Phases, Reported, Asked, ListenersKnown, Down, Current, ToShut
    <3> QED BY <3>3, <3>4 DEF IInv
  <2> QED
    BY <1>2, <2>0, <2>1, <2>2, ListenerStep, HandlerStep, PanicStep, ServeStep
       DEF Next
<1> QED BY <1>1, <1>2

LEMMA Invariant == Spec => []IInv
BY InitIInv, Inductive, PTL DEF Spec

\* Every reachable state of the server is well typed.
THEOREM TypeCorrect == Spec => []TypeOK
<1>1. IInv => TypeOK
  BY DEF IInv
<1> QED BY <1>1, Invariant, PTL

\* server.go's channels: without a cancelled context the process only panics
\* after two listeners have failed.
THEOREM PanicNeedsTwo == Spec => []OneFailureIsSurvived
<1>1. IInv => OneFailureIsSurvived
  BY DEF IInv
<1> QED BY <1>1, Invariant, PTL

\* server.go's shutdown: an error return leaves no request in flight on a server
\* that was shut down.
THEOREM ErrorReturnIsDrained == Spec => []DrainedOnFailure
<1>1. IInv => DrainedOnFailure
  BY DEF IInv, Phases, Down, DrainedOnFailure
<1> QED BY <1>1, Invariant, PTL

\* server.go's select: who may still serve when ListenAndServe has returned.
THEOREM LeftServing == Spec => []WhoIsLeft
<1>1. IInv => WhoIsLeft
  <2> SUFFICES ASSUME IInv, pc = "returned", NEW l \in Listeners, st[l] = "serving",
                      l \notin missed
               PROVE  result = "dns" /\ l \in Dns
    BY DEF WhoIsLeft
  <2>1. todo = {} /\ result \in {"handler", "http", "dns", "context"}
    BY DEF IInv, TypeOK, Phases
  <2>2. l \notin shut /\ l \in InUse
    BY DEF IInv, ListenersKnown
  <2>3. result # "handler"
    BY DEF IInv, Reported
  <2>4. l \notin ToShut(result)
    BY <2>1, <2>2, <2>3 DEF IInv, Asked
  <2>5. result = "http" => l # "http"
    BY DEF IInv, Reported
  <2> QED BY <2>1, <2>2, <2>3, <2>4, <2>5 DEF ToShut
<1> QED BY <1>1, Invariant, PTL
=============================================================================
