----------------------------- MODULE DynamicAPI -----------------------------
(***************************************************************************)
(* The REST API of the dynamic zone: lib-landns/rest_api.go, the parsing   *)
(* of DynamicRecords and DynamicRecordSets in dynamic_resolver.go, and the *)
(* zone in SQLite behind it.  SetRecords is one transaction under the      *)
(* resolver's mutex (SqliteResolver shows that it takes effect as a        *)
(* whole), so a request changes the zone in one step; requests of several  *)
(* clients are served in any order.                                        *)
(*                                                                         *)
(* A line of a request is modelled by what the parser makes of it.  A      *)
(* volatile record expires at some moment; how its TTL shrinks is left to  *)
(* SqliteResolver.                                                         *)
(***************************************************************************)
EXTENDS Records, Integers, FiniteSets

CONSTANTS
    Clients,         \* the HTTP clients
    Remote,          \* Remote[c]: the address of c
    Requests,        \* the requests they send
    NoId,            \* "the line names no ID"
    NotANumber,      \* an ID that strconv.Atoi refuses
    Labels,          \* the labels of a name, the top-level one first
    Globs(_, _),     \* the pattern matches the name
    MaxRequests      \* bound of the number of requests

ASSUME ClientAssumption  == Clients \subseteq DOMAIN Remote
ASSUME RequestAssumption == NoId \notin Nat /\ NotANumber \notin Nat /\ MaxRequests \in Nat
\* What a line says; a body is a sequence of lines.
IsLine(l) ==
    /\ l = [form |-> l.form, disabled |-> l.disabled, rr |-> l.rr, id |-> l.id,
            volatile |-> l.volatile]
    /\ l.disabled \in BOOLEAN /\ l.volatile \in BOOLEAN
IsBody(body) ==
    /\ DOMAIN body = 1..Len(body) /\ Len(body) \in Nat
    /\ \A i \in DOMAIN body : IsLine(body[i])
ASSUME BodyAssumption == Requests # {} /\ \A r \in Requests : IsBody(r.body)

Aborted == 1   \* the status of a reply that never came

VARIABLES
    rows,      \* the table: ID -> [rec, volatile]
    lastId,    \* SQLite's AUTOINCREMENT counter
    request,   \* the request of each client
    reply,     \* the reply it got; status 0 while it waits
    requests   \* how many were sent

apiVars == <<rows, lastId, request, reply, requests>>
tableVars == <<rows, lastId>>

Waiting(c) == reply[c].status = 0

-----------------------------------------------------------------------------
\* What a line says.  form: "record", "blank", "bare" (semicolons only) or
\* "bad"; disabled: it starts with a semicolon.

\* parseRecordSet fills in the client's address; $TTL is the TTL that a text
\* without one has.
Substituted(line, remote) ==
    [line EXCEPT !.rr.data = [i \in DOMAIN @ |-> IF @[i] = "$ADDR" THEN remote ELSE @[i]]]

\* NewRecord takes the line's text.
Parses(line) ==
    /\ line.form = "record" /\ Supported(line.rr)
    /\ line.rr.type = "A" => line.rr.data[1] \in Ipv4

\* The parser leaves out what begins with a semicolon and is no record.
Skipped(line) == line.form = "blank" \/ (line.disabled /\ ~ Parses(line))
Faulty(line)  == ~ Parses(line) /\ ~ Skipped(line)

\* NewRecord of an empty text dereferences nil.
Panics(line) == line.form = "bare"

CommandOf(line) ==
    [rec |-> NewRecordFromRR(line.rr), id |-> line.id, volatile |-> line.volatile,
     disabled |-> line.disabled]

Lines(r, remote) == [i \in DOMAIN r.body |-> Substituted(r.body[i], remote)]

\* The records of the first n lines, for every n.
ReadUpTo(lines) ==
    LET read[n \in 0..Len(lines)] ==
            IF n = 0 THEN <<>>
            ELSE IF Parses(lines[n]) THEN Append(read[n - 1], CommandOf(lines[n]))
            ELSE read[n - 1]
    IN  read
NewDynamicRecordSet(lines) == ReadUpTo(lines)[Len(lines)]

\* DeleteRecords
Flipped(commands) ==
    [i \in DOMAIN commands |-> [commands[i] EXCEPT !.disabled = ~ @]]

\* The commands of a POST or DELETE.
CommandsOf(c) ==
    LET commands == NewDynamicRecordSet(Lines(request[c], Remote[c]))
    IN  IF request[c].method = "DELETE" THEN Flipped(commands) ELSE commands

-----------------------------------------------------------------------------
\* SetRecords of the SQLite resolver, on a table [rows, last].

Without(t, ids) == [i \in DOMAIN t \ ids |-> t[i]]
AsGiven(t, rec) == {i \in DOMAIN t : t[i].rec = rec}
SameRecord(t, rec) == {i \in DOMAIN t : t[i].rec.key = rec.key}

\* dropRecord
WithItsId(t, c) == {i \in SameRecord(t, c.rec) : t[i].rec.ttl = c.rec.ttl /\ c.id = i}
Dropped(t, c) ==
    {i \in SameRecord(t, c.rec) : t[i].rec.ttl = c.rec.ttl /\ c.id \in {NoId, i}}

\* insertRecord: an UPDATE, and an INSERT if it found nothing
DeletesFound(t, c) ==
    LET found == SameRecord(t.rows, c.rec)
        row   == [rec |-> c.rec, volatile |-> c.volatile]
    IN  IF c.disabled THEN [t EXCEPT !.rows = Without(@, Dropped(@, c))]
        ELSE IF found # {} THEN [t EXCEPT !.rows = Without(@, found)]
        ELSE [rows |-> [i \in DOMAIN t.rows \cup {t.last + 1} |->
                           IF i = t.last + 1 THEN row ELSE t.rows[i]],
              last |-> t.last + 1]
Run(t, c) ==
    LET found == SameRecord(t.rows, c.rec)
        ids   == IF found = {} THEN {t.last + 1} ELSE found
        row   == [rec |-> c.rec, volatile |-> c.volatile]
    IN  IF c.disabled THEN [t EXCEPT !.rows = Without(@, Dropped(@, c))]
        ELSE [rows |-> [i \in DOMAIN t.rows \cup ids |->
                           IF i \in ids THEN row ELSE t.rows[i]],
              last |-> IF found = {} THEN t.last + 1 ELSE t.last]

\* A command for an address is repeated for its PTR record, without the ID.
OnInsertOnly(c) ==
    IF c.rec.type \in {"A", "AAAA"} /\ ~ c.disabled
    THEN <<c, [c EXCEPT !.id = NoId,
                 !.rec = PtrRecord(ReverseName[c.rec.rr.data[1]], c.rec.ttl, c.rec.name)]>>
    ELSE <<c>>
Cascade(c) ==
    IF c.rec.type \in {"A", "AAAA"}
    THEN <<c, [c EXCEPT !.id = NoId,
                 !.rec = PtrRecord(ReverseName[c.rec.rr.data[1]], c.rec.ttl, c.rec.name)]>>
    ELSE <<c>>

RunCascade(t, c) ==
    LET cs == Cascade(c)
    IN  IF Len(cs) = 1 THEN Run(t, cs[1]) ELSE Run(Run(t, cs[1]), cs[2])

\* The table after the first n commands, for every n; and after all of them.
Stages(t, commands) ==
    LET after[n \in 0..Len(commands)] ==
            IF n = 0 THEN t ELSE RunCascade(after[n - 1], commands[n])
    IN  after
Effect(t, commands) == Stages(t, commands)[Len(commands)]

Table == [rows |-> rows, last |-> lastId]
SetsTable(t) == rows' = t.rows /\ lastId' = t.last

-----------------------------------------------------------------------------
\* The routes of Handler.

Methods(path) ==
    CASE path = "/v1"     -> {"GET", "POST", "DELETE"}
      [] path = "/v1/id/" -> {"GET", "DELETE"}
      [] path \in {"/v1/suffix/", "/v1/glob/"} -> {"GET"}
      [] OTHER -> {}

\* The path ends in a slash, has an empty label, or a slash where none may be.
NoSuchPage(r) ==
    \/ Methods(r.path) = {}
    \/ r.path = "/v1/id/" /\ r.id = NotANumber
    \/ r.path = "/v1/suffix/" /\ (r.items = <<>> \/ \E i \in DOMAIN r.items : r.items[i] = "")
    \/ r.path = "/v1/glob/" /\ Len(r.items) # 1

HasBody(r) == r.path = "/v1" /\ r.method \in {"POST", "DELETE"}

Init ==
    /\ rows = <<>> /\ lastId = 0 /\ requests = 0
    /\ request \in [Clients -> {CHOOSE r \in Requests : TRUE}]
    /\ reply = [c \in Clients |-> [status |-> 200, add |-> 0, del |-> 0, lines |-> {}]]

Replies(c, status, add, del, lines) ==
    /\ reply' = [reply EXCEPT ![c] = [status |-> status, add |-> add, del |-> del,
                                      lines |-> lines]]
    /\ UNCHANGED <<request, requests>>
Refuses(c, status) == Replies(c, status, 0, 0, {}) /\ UNCHANGED tableVars

Send(c, r) ==
    /\ ~ Waiting(c) /\ requests < MaxRequests
    /\ request' = [request EXCEPT ![c] = r]
    /\ reply' = [reply EXCEPT ![c].status = 0]
    /\ requests' = requests + 1
    /\ UNCHANGED tableVars

\* A client sends back the lines it was shown, in the order it was shown them.
Listing(lines) ==
    LET nth(n) == CHOOSE l \in lines : Cardinality({k \in lines : k.id <= l.id}) = n
    IN  [n \in 1..Cardinality(lines) |->
           [form |-> "record", disabled |-> FALSE, rr |-> nth(n).rec.rr,
            id |-> nth(n).id, volatile |-> nth(n).volatile]]

SendBack(c, method) ==
    /\ reply[c].lines # {}
    /\ Send(c, [method |-> method, path |-> "/v1", id |-> NotANumber, items |-> <<>>,
               body |-> Listing(reply[c].lines)])

-----------------------------------------------------------------------------
\* httpHandlerSet and the checks before the resolver is asked.  The pages below
\* /v1 look at the method first.
Reject(c) ==
    LET r == request[c] IN
    /\ Waiting(c)
    /\ \/ Methods(r.path) # {} /\ r.method \notin Methods(r.path) /\ Refuses(c, 405)
       \/ (Methods(r.path) # {} => r.method \in Methods(r.path)) /\ NoSuchPage(r)
          /\ Refuses(c, 404)

Served(c) ==
    /\ Waiting(c) /\ request[c].method \in Methods(request[c].path)
    /\ ~ NoSuchPage(request[c])

\* The body did not arrive, or a line of it is no record: nothing is done.
BadRequest(c) ==
    /\ Served(c) /\ Refuses(c, 400)

\* A line without any record breaks the handler; net/http cuts the connection.
Abort(c) ==
    /\ Served(c) /\ HasBody(request[c]) /\ Refuses(c, Aborted)
    /\ \E i \in DOMAIN request[c].body : Panics(request[c].body[i])

\* The request goes to the resolver.
Accepted(c) ==
    /\ Served(c)
    /\ HasBody(request[c]) =>
         \A i \in DOMAIN request[c].body :
             ~ Panics(request[c].body[i]) /\ ~ Faulty(Lines(request[c], Remote[c])[i])

CountSwapped(commands, disabled) ==
    Cardinality({i \in DOMAIN commands : commands[i].disabled # disabled})
CountOf(commands, disabled) ==
    Cardinality({i \in DOMAIN commands : commands[i].disabled = disabled})

\* SetRecords; the reply counts the commands of the body.
SetRecords(c) ==
    /\ Accepted(c) /\ HasBody(request[c])
    /\ LET commands == CommandsOf(c)
       IN  /\ SetsTable(Effect(Table, commands))
           /\ Replies(c, 200, CountOf(commands, FALSE), CountOf(commands, TRUE), {})

\* RemoveRecord
DeleteRecordByID(c) ==
    LET id == request[c].id IN
    /\ Accepted(c) /\ request[c].path = "/v1/id/" /\ request[c].method = "DELETE"
    /\ IF id \in DOMAIN rows
       THEN /\ rows' = Without(rows, {id}) /\ UNCHANGED lastId
            /\ Replies(c, 200, 0, 0, {})
       ELSE Refuses(c, 404)

\* The rows a GET shows.  The path of a suffix names its labels from the top.
\* (An item stands for one label; what the code makes of one with dots in it is
\* left out.)
SuffixIds(items) ==
    {i \in DOMAIN rows :
        LET labels == Labels[rows[i].rec.name]
        IN  Len(items) <= Len(labels) /\ SubSeq(labels, 1, Len(items)) = items}

Wanted(r) ==
    CASE r.path = "/v1"         -> DOMAIN rows
      [] r.path = "/v1/id/"     -> DOMAIN rows \cap {r.id}
      [] r.path = "/v1/suffix/" -> SuffixIds(r.items)
      [] r.path = "/v1/glob/"   -> {i \in DOMAIN rows : Globs(r.items[1], rows[i].rec.name)}

Get(c) ==
    LET r == request[c] IN
    /\ Accepted(c) /\ r.method = "GET"
    /\ IF r.path = "/v1/id/" /\ Wanted(r) = {}
       THEN Refuses(c, 404)
       ELSE /\ Replies(c, 200, 0, 0,
                       {[id |-> i, rec |-> rows[i].rec, volatile |-> rows[i].volatile] :
                            i \in Wanted(r)})
            /\ UNCHANGED tableVars

\* The resolver returns an error; its transaction is rolled back.
RolledBack(commands) == Table

ResolverFails(c) ==
    /\ Accepted(c)
    /\ SetsTable(RolledBack(CommandsOf(c)))
    /\ Replies(c, 500, 0, 0, {})

\* A volatile record's time is over.
Expire(i) ==
    /\ rows[i].volatile
    /\ rows' = Without(rows, {i}) /\ UNCHANGED <<lastId, request, reply, requests>>

Handle(c) ==
    \/ Reject(c) \/ BadRequest(c) \/ Abort(c) \/ SetRecords(c) \/ DeleteRecordByID(c)
    \/ Get(c) \/ ResolverFails(c)

ApiNext ==
    \/ \E c \in Clients :
          \/ \E r \in Requests : Send(c, r)
          \/ \E method \in {"POST", "DELETE"} : SendBack(c, method)
          \/ Handle(c)
    \/ \E i \in DOMAIN rows : Expire(i)

ApiSpec == Init /\ [][ApiNext]_apiVars

-----------------------------------------------------------------------------
\* Properties.

Statuses == {0, Aborted, 200, 400, 404, 405, 500}

\* A record is in one row, and no ID is ahead of the counter.
TypeOK ==
    /\ DOMAIN rows \subseteq 1..lastId
    /\ \A i \in DOMAIN rows : rows[i].volatile \in BOOLEAN
    /\ \A i, j \in DOMAIN rows : rows[i].rec.key = rows[j].rec.key => i = j
    /\ \A c \in Clients : reply[c].status \in Statuses
    /\ requests \in 0..MaxRequests

\* The bodies that are about to be carried out.
Pending == {c \in Clients : Accepted(c) /\ HasBody(request[c])}
Contents(t) == {t.rows[i] : i \in DOMAIN t.rows}

\* A client whose reply was lost may send its request again: carried out twice, a
\* body without IDs leaves the records that it leaves when carried out once,
\* whatever is set, dropped and set again in it, PTR records included.
RetryIsHarmless ==
    \A c \in Pending :
        LET commands == CommandsOf(c)
            once     == Effect(Table, commands)
        IN  (\A i \in DOMAIN commands : commands[i].id = NoId) =>
                Contents(Effect(once, commands)) = Contents(once)

\* What a POST has added, a DELETE with the same body takes away, with the PTR
\* records that came along; also when the body names a record twice or records
\* were there before with other TTLs.
DeleteUndoes ==
    \A c \in Pending :
        LET commands == CommandsOf(c)
            after    == Effect(Effect(Table, commands), Flipped(commands))
        IN  (\A i \in DOMAIN commands :
                ~ commands[i].disabled /\ commands[i].id = NoId) =>
            \A i \in DOMAIN commands : \A j \in DOMAIN Cascade(commands[i]) :
                SameRecord(after.rows, Cascade(commands[i])[j].rec) = {}

\* The counts of the reply bound the change: a command adds or takes away the
\* record and its PTR record, and nothing else.
CountsBoundChange ==
    [][\A c \in Clients :
          (Waiting(c) /\ reply'[c].status = 200 /\ HasBody(request[c])) =>
             /\ Cardinality(DOMAIN rows' \ DOMAIN rows) <= 2 * reply'[c].add
             /\ Cardinality(DOMAIN rows \ DOMAIN rows') <= 2 * reply'[c].del]_apiVars
=============================================================================
