-------------------------- MODULE ServerLifecycle --------------------------
(***************************************************************************)
(* Server.ListenAndServe (lib-landns/server.go) between its callers, the   *)
(* main function and embedding programs such as the tests, and the         *)
(* goroutines it depends on: one per listener, the handlers the listeners  *)
(* start, and the sweeper of the SQLite zone, which Stop ends.             *)
(*                                                                         *)
(* A listener that fails sends its error on an unbuffered channel.         *)
(* ListenAndServe takes one error, or the end of its context, asks some of *)
(* the servers to shut down and waits for them, and closes the channels as *)
(* it returns; a send on a closed channel panics and ends the process.     *)
(***************************************************************************)
EXTENDS Integers, FiniteSets

CONSTANTS
    Protocols,  \* the values --dns-protocol may have
    Callers,    \* who calls ListenAndServe: "main", "embedder"
    MaxFlight   \* bound of the requests one listener serves at a time

Dns       == {"tcp", "udp"}
Listeners == Dns \cup {"http"}

ASSUME ProtocolAssumption == Protocols \subseteq Dns
ASSUME CallerAssumption   == Callers \subseteq {"main", "embedder"}
ASSUME FlightAssumption   == MaxFlight \in Nat \ {0}

VARIABLES
    proto,      \* --dns-protocol: only "tcp" starts the TCP listener
    caller,     \* who called
    pc,         \* where ListenAndServe is
    todo,       \* the servers it has yet to shut down
    result,     \* what made it leave its select
    st,         \* the goroutine of each listener
    bound,      \* the listeners that got their address
    broke,      \* the listeners that failed (history)
    shut,       \* the servers that took note of a shutdown
    missed,     \* the DNS servers that refused one, not being started (history)
    flight,     \* how many handlers of each listener are at work
    cancelled,  \* the context is done
    db, sweeper, \* the zone's database, and its manageExpire goroutine
    proc        \* the process

server  == <<pc, todo, result, shut, missed>>
vars    == <<proto, caller, server, st, bound, broke, flight, cancelled, db,
             sweeper, proc>>

TypeOK ==
    /\ proto \in Protocols /\ caller \in Callers
    /\ pc \in {"start", "select", "stopping", "waiting", "closing", "returned"}
    /\ todo \subseteq Listeners
    /\ result \in {"none", "handler", "http", "dns", "context"}
    /\ st \in [Listeners -> {"off", "new", "binding", "serving", "broken",
                             "closing", "failed", "done"}]
    /\ bound \subseteq Listeners /\ broke \subseteq Listeners
    /\ shut \subseteq Listeners /\ missed \subseteq Listeners
    /\ flight \in [Listeners -> 0..MaxFlight]
    /\ cancelled \in BOOLEAN
    /\ db \in {"open", "closed"}
    /\ sweeper \in {"starting", "idle", "deleting", "stopped"}
    /\ proc \in {"running", "crashed", "exited"}

Init ==
    /\ proto \in Protocols /\ caller \in Callers
    /\ pc = "start" /\ todo = {} /\ result = "none"
    /\ shut = {} /\ missed = {}
    /\ st = [l \in Listeners |-> "off"]
    /\ bound = {} /\ broke = {}
    /\ flight = [l \in Listeners |-> 0]
    /\ cancelled = FALSE
    /\ db = "open" /\ sweeper = "starting" /\ proc = "running"

Become(l, s) == st' = [st EXCEPT ![l] = s]

\* The servers ListenAndServe starts, and the DNS servers it shuts down.
DnsInUse == IF proto = "tcp" THEN {"tcp", "udp"} ELSE {"udp"}
InUse    == DnsInUse \cup {"http"}


\* close(dnsch) is the first deferred call to run, close(httpch) the second.
ChannelClosed(l) ==
    IF l = "http" THEN pc = "returned" ELSE pc \in {"closing", "returned"}

-----------------------------------------------------------------------------
\* The goroutine of a listener.

\* http.Server.ListenAndServe looks for a shutdown before it binds and after.
EnterHttp ==
    /\ st["http"] = "new"
    /\ Become("http", IF "http" \in shut THEN "done" ELSE "binding")
    /\ UNCHANGED <<bound, broke>>

\* A DNS server binds and is started in one step, under its lock.
CanBind(l) == IF l = "http" THEN st[l] = "binding" ELSE st[l] = "new"

Bind(l) ==
    /\ CanBind(l)
    /\ IF l = "http" /\ l \in shut
       THEN Become(l, "done") /\ UNCHANGED bound
       ELSE Become(l, "serving") /\ bound' = bound \cup {l}
    /\ UNCHANGED broke

BindFails(l) ==
    /\ CanBind(l)
    /\ Become(l, "failed") /\ broke' = broke \cup {l}
    /\ UNCHANGED bound

\* Accept or read returns an error that is not temporary.  A DNS server then
\* waits for its handlers, a HTTP server does not.
Break(l) ==
    /\ st[l] = "serving"
    /\ Become(l, IF l = "http" THEN "failed" ELSE "broken")
    /\ broke' = broke \cup {l}
    /\ UNCHANGED bound

WaitsForHandlers(l) == l \in Dns

SendsServerClosed(l) ==
    /\ st[l] \in {"broken", "closing"}
    /\ WaitsForHandlers(l) => flight[l] = 0
    /\ Become(l, IF st[l] = "broken" \/ l = "http" THEN "failed" ELSE "done")
    /\ UNCHANGED <<bound, broke>>

\* ListenAndServe of the listener returns: its error, or nil (for HTTP
\* ErrServerClosed, which is not sent) after a shutdown.
LeaveLoop(l) ==
    /\ st[l] \in {"broken", "closing"}
    /\ WaitsForHandlers(l) => flight[l] = 0
    /\ Become(l, IF st[l] = "broken" THEN "failed" ELSE "done")
    /\ UNCHANGED <<bound, broke>>

\* Connections outlive a HTTP listener that broke.
Accepts(l) ==
    \/ st[l] = "serving"
    \/ l = "http" /\ l \in bound \ shut

BeginRequest(l) ==
    /\ Accepts(l) /\ flight[l] < MaxFlight
    /\ flight' = [flight EXCEPT ![l] = @ + 1]

EndsTwice(l) == flight' = [flight EXCEPT ![l] = @ - 1]
EndRequest(l) ==
    /\ flight[l] > 0
    /\ flight' = [flight EXCEPT ![l] = @ - 1]

Listener ==
    /\ EnterHttp \/ \E l \in Listeners : Bind(l) \/ BindFails(l) \/ Break(l)
                                         \/ LeaveLoop(l)
    /\ UNCHANGED <<proto, caller, server, flight, cancelled, db, sweeper, proc>>

Handler ==
    /\ \E l \in Listeners : BeginRequest(l) \/ EndRequest(l)
    /\ UNCHANGED <<proto, caller, server, st, bound, broke, cancelled, db,
                   sweeper, proc>>

\* The send of a listener that failed finds its channel closed.
SendPanics ==
    /\ \E l \in Listeners : st[l] = "failed" /\ ChannelClosed(l)
    /\ proc' = "crashed"
    /\ UNCHANGED <<proto, caller, server, st, bound, broke, flight, cancelled,
                   db, sweeper>>

-----------------------------------------------------------------------------
\* ListenAndServe.

Start ==
    /\ pc = "start" /\ pc' = "select"
    /\ st' = [l \in Listeners |-> IF l \in InUse THEN "new" ELSE "off"]
    /\ UNCHANGED <<todo, result, shut, missed>>

\* HTTPHandler fails: nothing was started.
StartFails ==
    /\ pc = "start" /\ pc' = "returned" /\ result' = "handler"
    /\ UNCHANGED <<todo, shut, missed, st>>

\* What each case of the select shuts down.
WithoutTcp(r) == IF r = "http" THEN {"udp"} ELSE {"http"}
ToShut(r) ==
    IF r = "dns" THEN {"http"} ELSE IF r = "http" THEN DnsInUse ELSE InUse

Leave(r) ==
    /\ pc = "select" /\ pc' = "stopping"
    /\ result' = r /\ todo' = ToShut(r)
    /\ UNCHANGED <<shut, missed>>

\* The error of l is received.
Receive(l) ==
    /\ st[l] = "failed"
    /\ Leave(IF l = "http" THEN "http" ELSE "dns")
    /\ Become(l, "done")

ContextDone == cancelled /\ Leave("context") /\ UNCHANGED st

\* The code's order: TCP, UDP, HTTP.
Current ==
    IF "tcp" \in todo THEN "tcp" ELSE IF "udp" \in todo THEN "udp" ELSE "http"

\* ShutdownContext of a DNS server that is not started is an error, which is
\* ignored; a HTTP server remembers the call.
Shutdown ==
    /\ pc = "stopping" /\ todo # {}
    /\ IF Current = "http" \/ Current \in bound
       THEN /\ pc' = "waiting" /\ shut' = shut \cup {Current}
            /\ IF st[Current] = "serving"
               THEN Become(Current, "closing") ELSE UNCHANGED st
            /\ UNCHANGED <<todo, missed>>
       ELSE /\ missed' = missed \cup {Current} /\ todo' = todo \ {Current}
            /\ UNCHANGED <<pc, shut, st>>
    /\ UNCHANGED result

DownAtOnce(l) == TRUE

\* The shutdown of l has nothing more to wait for.
IsDown(l) == IF l = "http" THEN flight[l] = 0 ELSE st[l] \in {"failed", "done"}

\* The server is down, or the context no longer allows to wait for it.
ShutdownReturns ==
    /\ pc = "waiting" /\ (cancelled \/ IsDown(Current))
    /\ pc' = "stopping" /\ todo' = todo \ {Current}
    /\ UNCHANGED <<result, shut, missed, st>>

CloseChannels ==
    /\ \/ pc = "stopping" /\ todo = {} /\ pc' = "closing"
       \/ pc = "closing" /\ pc' = "returned"
    /\ UNCHANGED <<todo, result, shut, missed, st>>

ListenAndServe ==
    /\ \/ Start \/ StartFails \/ ContextDone \/ Shutdown \/ ShutdownReturns
       \/ CloseChannels \/ \E l \in Listeners : Receive(l)
    /\ UNCHANGED <<proto, caller, bound, broke, flight, cancelled, db, sweeper,
                   proc>>

-----------------------------------------------------------------------------
\* The callers, and the sweeper.

\* main passes context.Background(), which is never done.
Cancel ==
    /\ caller = "embedder" /\ ~ cancelled /\ cancelled' = TRUE
    /\ UNCHANGED <<proto, caller, server, st, bound, broke, flight, db, sweeper,
                   proc>>

\* The main function ends: logger.Fatal after an error, without Stop.
Exit ==
    /\ caller = "main" /\ pc = "returned" /\ proc' = "exited"
    /\ UNCHANGED <<proto, caller, server, st, bound, broke, flight, cancelled,
                   db, sweeper>>

\* Stop, i.e. Resolver.Close: an embedder may call it at any moment, and once.
\* It waits for the mutex that the sweeper holds during a DELETE.
Close ==
    /\ caller = "embedder" /\ db = "open" /\ sweeper # "deleting"
    /\ db' = "closed"
    /\ UNCHANGED <<proto, caller, server, st, bound, broke, flight, cancelled,
                   sweeper, proc>>

\* On a closed database Prepare fails and the select finds the closer; the
\* ticker is five seconds away.
SweeperStarts ==
    /\ sweeper = "starting"
    /\ sweeper' = IF db = "open" THEN "idle" ELSE "stopped"

\* The ticker and the closer may both be ready; a DELETE on a closed database
\* is an error that is ignored.
Sweep ==
    \/ sweeper = "idle" /\ sweeper' = "deleting"
    \/ sweeper = "deleting" /\ sweeper' = "idle"

NeverSeen  == FALSE
CloserSeen == db = "closed"
SweeperStops == sweeper = "idle" /\ CloserSeen /\ sweeper' = "stopped"

Sweeper ==
    /\ SweeperStarts \/ Sweep \/ SweeperStops
    /\ UNCHANGED <<proto, caller, server, st, bound, broke, flight, cancelled,
                   db, proc>>

-----------------------------------------------------------------------------
Next ==
    /\ proc = "running"
    /\ \/ Listener \/ Handler \/ SendPanics \/ ListenAndServe
       \/ Cancel \/ Exit \/ Close \/ Sweeper

Spec == Init /\ [][Next]_vars

\* ListenAndServe and the goroutines go on; a request ends, because its
\* resolvers have time-outs; the sweeper's select is fair to the closer.
\* Nothing makes a listener bind or break, a request arrive or a caller act.
Running(A) == proc = "running" /\ A
Fairness ==
    /\ WF_vars(Running(ListenAndServe))
    /\ WF_vars(Running(SendPanics \/ (Listener /\ \E l \in Listeners : LeaveLoop(l))))
    /\ WF_vars(Running(Sweeper /\ sweeper # "idle"))
    /\ SF_vars(Running(Sweeper /\ SweeperStops))
    /\ \A l \in Listeners : WF_vars(Running(Handler /\ EndRequest(l)))
FairSpec == Spec /\ Fairness

-----------------------------------------------------------------------------
\* Properties.

\* While the context is not done, one failing listener never brings the process
\* down with a panic: its error has a reader, and the servers shut down because
\* of it send nothing.  Two failures may: the second finds a closed channel.
OneFailureIsSurvived ==
    proc = "crashed" => cancelled \/ \E a, b \in broke : a # b

\* ListenAndServe does not return an error while a server it shut down still
\* works on a request, unless its context was done: only then does the shutdown
\* not wait.
DrainedOnFailure ==
    (pc \in {"closing", "returned"} /\ result \in {"http", "dns"} /\ ~ cancelled)
        => \A l \in shut : flight[l] = 0

\* When ListenAndServe has returned, a listener still serves only if it is the
\* sibling of a DNS listener that failed, or if it was not yet started when it
\* was told to stop.
WhoIsLeft ==
    pc = "returned" =>
        \A l \in Listeners : st[l] = "serving" =>
            l \in missed \/ (result = "dns" /\ l \in Dns)



\* Once the zone is closed its sweeper ends, also when the close comes before
\* its first statement or between two of its rounds.
SweeperEnds == db = "closed" ~> (sweeper = "stopped" \/ proc # "running")
=============================================================================
