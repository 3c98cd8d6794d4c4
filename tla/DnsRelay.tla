------------------------------ MODULE DnsRelay ------------------------------
(***************************************************************************)
(* The DNS relay of the Windows client: DnsServer (dns/server.rs) and the  *)
(* loop that drives it (dns/mod.rs).  Clients' queries for listed domains  *)
(* go to the trusted server and all others to the poisoned one; responses  *)
(* are cached by question and kept until a later one replaces them.        *)
(*                                                                         *)
(* Three UDP sockets are drained one datagram per step; clients and        *)
(* servers send at any time in between.  The relay reads the clock once    *)
(* per event (loop.now).  Queries and replies between the relay and the    *)
(* servers may be lost, doubled, delayed and reordered.                    *)
(***************************************************************************)
EXTENDS DomainMap, FiniteSets, TLC

CONSTANTS
  Clients,    \* addresses that ask
  Questions,  \* what they ask: [name, type], a name ends in the empty label
  Ptr,        \* the PTR question for the relay's own address
  Lists,      \* block lists to be loaded, each a sequence of domains
  Replies,    \* Replies[s]: the lists of records that server s may answer with
  AddRoute,   \* the option add_route
  CacheTime,  \* the option dns_cache_time
  Scripts,    \* sequences of the queries that clients send, each [from, q]
  MaxAsks,    \* bound of their length
  MaxFaults,  \* bound of lost or doubled datagrams and of failing calls
  MaxTime     \* bound of the clock, in units of a record's ttl

Servers == {"trusted", "poisoned"}

Sockets == {"local"} \cup Servers

\* A datagram that is no message.
Garbled == [name |-> <<>>, type |-> "garbled"]

\* A message without a question.  (To a server's socket, one with several of
\* them is a reply to the first; to the listener it is as good as none.)
Bare == [name |-> <<>>, type |-> "bare"]

Strays == {Garbled, Bare}

Record == [addr : STRING, v4 : BOOLEAN, ttl : Nat]

ASSUME BoundsAssumption == MaxAsks \in Nat /\ MaxFaults \in Nat /\ MaxTime \in Nat
ASSUME OptionAssumption == AddRoute \in BOOLEAN /\ CacheTime \in Nat
ASSUME QuestionsAssumption ==
  /\ \A q \in Questions \cup {Ptr} : q.name \in Domain /\ q.type \in STRING
  /\ Ptr \notin Questions
ASSUME ListsAssumption == \A l \in Lists : l \in Seq(Domain)
ASSUME ScriptsAssumption ==
  \A s \in Scripts : s \in Seq([from : Clients, q : Questions \cup {Ptr}]) /\ Len(s) <= MaxAsks
ASSUME RepliesAssumption ==
  \A s \in Servers : \A r \in Replies[s] : r \in Seq(Record)

VARIABLES
  list,             \* the file of the block list: those of its lines that are text
  line,             \* how many of them setup() has read
  blocked_domains,  \* DnsServer.blocked_domains
  store,            \* DnsServer.store: question -> QueryResult
  route_added,      \* DnsServer.route_added
  refused,          \* addresses that route_add failed for
  sockets,          \* datagrams in each socket, and readiness not yet reported
  loop,             \* the handler that runs, the time it has read, and the
                    \* records of a reply that are still to be routed
  inflight,         \* inflight[s][q]: unanswered queries on the way to s
  script,           \* the queries that are still to be sent
  asked,            \* asked[c]: the questions of c, the position is the id
  done,             \* what was sent for each query, or could not be sent
  lost,             \* history: questions whose last query or reply was lost
  now, faults

names  == <<list, line, blocked_domains>>
server == <<names, store, route_added, refused>>
world  == <<script, inflight, asked, done>>
vars   == <<server, sockets, loop, world, lost, now, faults>>

NoResponse == [src |-> "none", records |-> <<>>]

is_blocked(name) == contains(blocked_domains, name)

-----------------------------------------------------------------------------
(* The relay's loop and its sockets *)

Init ==
  /\ list \in Lists
  /\ line = 0 /\ blocked_domains = {}
  /\ store = << >> /\ route_added = {} /\ refused = {}
  /\ sockets = [s \in Sockets |-> [in |-> <<>>, edge |-> FALSE]]
  /\ loop = [at |-> "setup", now |-> 0, todo |-> <<>>]
  /\ inflight = [s \in Servers |-> [q \in Questions |-> 0]]
  /\ script \in Scripts
  /\ asked = [c \in Clients |-> <<>>] /\ done = <<>>
  /\ lost = {} /\ now = 0 /\ faults = 0

\* setup() adds the list line by line, when the sockets are already open.
AddLine ==
  /\ loop.at = "setup" /\ line < Len(list)
  /\ blocked_domains' = add_domain(blocked_domains, list[line + 1])
  /\ line' = line + 1
  /\ UNCHANGED <<list, store, route_added, refused, sockets, loop, world, lost, now, faults>>

\* The list is read and the loop begins.
SetupEnds ==
  /\ loop.at = "setup" /\ line = Len(list)
  /\ loop' = [loop EXCEPT !.at = "poll"]
  /\ UNCHANGED <<server, sockets, world, lost, now, faults>>

\* DnsServer::ready for the socket's token.
ready(s) ==
  /\ loop.at = "poll" /\ sockets[s].edge
  /\ loop' = [at |-> s, now |-> now, todo |-> <<>>]
  /\ sockets' = [sockets EXCEPT ![s].edge = FALSE]
  /\ UNCHANGED <<server, world, lost, now, faults>>

\* The handler of the socket reads its next datagram.
Reads(s) == loop.at = s /\ loop.todo = <<>>

\* recv_from returns WouldBlock, which ends the handler and arms the socket.
Drained(s) ==
  /\ Reads(s) /\ sockets[s].in = <<>>
  /\ loop' = [loop EXCEPT !.at = "poll"]
  /\ UNCHANGED <<server, sockets, world, lost, now, faults>>

\* reregister() reports what is unread again.
Reregistered(k) == [k EXCEPT !.edge = k.in # <<>>]

\* Any other error of recv_from: what is unread is reported again.
RecvFails(s) ==
  /\ Reads(s) /\ faults < MaxFaults
  /\ loop' = [loop EXCEPT !.at = "poll"]
  /\ sockets' = [sockets EXCEPT ![s] = Reregistered(@)]
  /\ faults' = faults + 1
  /\ UNCHANGED <<server, world, lost, now>>

Taken(s) == sockets' = [sockets EXCEPT ![s].in = Tail(@)]

\* What dispatch_local leaves aside: no message, or not exactly one question.
InvalidRequest(d) == d.q \in Strays

\* What dispatch_server leaves aside: no message.
InvalidResponse(d) == d.q = Garbled

Ignore(s) ==
  /\ Reads(s) /\ sockets[s].in # <<>>
  /\ IF s = "local" THEN InvalidRequest(Head(sockets[s].in)) ELSE InvalidResponse(Head(sockets[s].in))
  /\ Taken(s)
  /\ UNCHANGED <<server, loop, world, lost, now, faults>>

\* dispatch_server does not count the questions: get_message_key takes the first
\* of a message that has none, which ends the thread.
Panic(s) ==
  /\ Reads(s) /\ s # "local" /\ sockets[s].in # <<>> /\ Head(sockets[s].in).q = Bare
  /\ loop' = [loop EXCEPT !.at = "panicked"]
  /\ Taken(s)
  /\ UNCHANGED <<server, world, lost, now, faults>>

-----------------------------------------------------------------------------
(* dispatch_local.  fails says which of the sends of a step fail. *)

Fails(fails) ==
  /\ faults + Cardinality(fails) <= MaxFaults
  /\ faults' = faults + Cardinality(fails)

\* The query that to sent as id is dealt with.
Answered(to, id, q, response, sent) ==
  Append(done, [to |-> to, id |-> id, q |-> q, response |-> response, sent |-> sent])

\* A query is passed on unless the question was asked already.
Forwarded_once(q) ==
  IF q \in DOMAIN store THEN UNCHANGED inflight
  ELSE inflight' = [inflight EXCEPT ![IF is_blocked(q.name) THEN "trusted" ELSE "poisoned"][q] = @ + 1]

\* The query is passed on as it came.
Forwarded(q) ==
  inflight' = [inflight EXCEPT ![IF is_blocked(q.name) THEN "trusted" ELSE "poisoned"][q] = @ + 1]

\* The answer for the relay's own name is prepared by setup().
arp_data == [id |-> 1, q |-> Ptr, response |-> NoResponse]

AnswerPtr ==
  /\ loop.at = "local" /\ sockets["local"].in # <<>>
  /\ LET d == Head(sockets["local"].in)
     IN  /\ d.q = Ptr
         /\ \E fails \in SUBSET {"answer"} :
              /\ Fails(fails)
              /\ done' = Answered(d.from, arp_data.id, arp_data.q, arp_data.response, fails = {})
  /\ Taken("local")
  /\ UNCHANGED <<server, loop, script, inflight, asked, lost, now>>

HasResponse(q) == q \in DOMAIN store /\ store[q].response # NoResponse

\* Found in the cache: the response is sent under the id of the query even if
\* it is out of date, and is then asked for anew.
AnswerCached ==
  /\ loop.at = "local" /\ sockets["local"].in # <<>>
  /\ LET d == Head(sockets["local"].in)
     IN  /\ d.q \in Questions /\ HasResponse(d.q)
         /\ LET renew == store[d.q].expire_time <= loop.now
            IN  \E fails \in SUBSET ({"answer"} \cup IF renew THEN {"forward"} ELSE {}) :
                  /\ Fails(fails)
                  /\ done' = Answered(d.from, d.id, d.q, store[d.q].response, "answer" \notin fails)
                  /\ IF renew /\ "forward" \notin fails THEN Forwarded(d.q)
                     ELSE UNCHANGED inflight
  /\ Taken("local")
  /\ UNCHANGED <<server, loop, script, asked, lost, now>>

\* expire_time is not read before a response replaces it.
add_request(q, from, id) ==
  LET result == IF q \in DOMAIN store THEN store[q]
                ELSE [addresses |-> <<>>, response |-> NoResponse,
                      expire_time |-> now + CacheTime]
  IN  [p \in DOMAIN store \cup {q} |->
         IF p = q THEN [result EXCEPT !.addresses = Append(@, [from |-> from, id |-> id])]
         ELSE store[p]]

\* Not in the cache: the query is passed on, and who asks is recorded unless
\* that failed.
AskServer ==
  /\ loop.at = "local" /\ sockets["local"].in # <<>>
  /\ LET d == Head(sockets["local"].in)
     IN  /\ d.q \in Questions /\ ~HasResponse(d.q)
         /\ \E fails \in SUBSET {"forward"} :
              /\ Fails(fails)
              /\ IF fails = {}
                 THEN /\ Forwarded(d.q)
                      /\ store' = add_request(d.q, d.from, d.id)
                      /\ lost' = lost \ {d.q}
                      /\ UNCHANGED done
                 ELSE /\ done' = Answered(d.from, d.id, d.q, NoResponse, FALSE)
                      /\ UNCHANGED <<inflight, store, lost>>
  /\ Taken("local")
  /\ UNCHANGED <<names, route_added, refused, loop, script, asked, now>>

-----------------------------------------------------------------------------
(* dispatch_server *)

Ttl(records) == IF records = <<>> THEN 0 ELSE Last(records).ttl

\* What is sent to the i-th of those who wait, always under the first one's id.
AnswerFor_first(q, i, response, sent) ==
  [to |-> store[q].addresses[i].from, id |-> store[q].addresses[1].id, q |-> q,
   response |-> response, sent |-> sent]

\* What is sent to the i-th of those who wait for q, under the id of their query.
AnswerFor(q, i, response, sent) ==
  [to |-> store[q].addresses[i].from, id |-> store[q].addresses[i].id, q |-> q,
   response |-> response, sent |-> sent]

\* Everyone who waits is answered, but for those at the positions unsent.
AllAnswered(q, response, unsent) ==
  done \o [i \in 1 .. Len(store[q].addresses) |-> AnswerFor(q, i, response, i \notin unsent)]

\* A result that still knows who waited for it.
Updated_keeps(result, response) ==
  [result EXCEPT !.response = response,
                 !.expire_time = loop.now + Ttl(response.records)]

\* The ttl of the last record counts.
Updated(result, response) ==
  [result EXCEPT !.addresses = <<>>, !.response = response,
                 !.expire_time = loop.now + Ttl(response.records)]

V4(records) == {records[i].addr : i \in {j \in 1 .. Len(records) : records[j].v4}}

\* Only the first record of a reply.
RoutesFor_first(s, records) == IF AddRoute /\ s = "trusted" THEN SubSeq(records, 1, 1) ELSE <<>>

\* The records that are looked at for routes.
RoutesFor(s, records) == IF AddRoute /\ s = "trusted" THEN records ELSE <<>>

\* A reply is for everyone who waits for its question, whoever's query it
\* answers.  Its id is not looked at.  The answers go out before the first
\* route is added.  (The result is replaced after the last one: nobody but this
\* handler looks at it in between.)
HandleReply(s) ==
  /\ Reads(s) /\ sockets[s].in # <<>>
  /\ LET d == Head(sockets[s].in)
         response == [src |-> s, records |-> d.records]
     IN  /\ d.q \notin Strays
         /\ IF d.q \in DOMAIN store
            THEN \E unsent \in SUBSET (1 .. Len(store[d.q].addresses)) :
                   /\ Fails(unsent)
                   /\ done' = AllAnswered(d.q, response, unsent)
                   /\ store' = [store EXCEPT ![d.q] = Updated(@, response)]
                   /\ loop' = [loop EXCEPT !.todo = RoutesFor(s, d.records)]
            ELSE UNCHANGED <<done, store, loop, faults>>
  /\ Taken(s)
  /\ UNCHANGED <<names, route_added, refused, script, inflight, asked, lost, now>>

\* The next record of the reply: its address is routed unless it was before,
\* is no IPv4 address, or the system refuses.
RouteNext ==
  /\ loop.todo # <<>>
  /\ LET r == Head(loop.todo)
         new == r.v4 /\ r.addr \notin route_added
     IN  \/ /\ route_added' = route_added \cup IF new THEN {r.addr} ELSE {}
            /\ UNCHANGED <<refused, faults>>
         \/ /\ new /\ faults < MaxFaults
            /\ refused' = refused \cup {r.addr}
            /\ faults' = faults + 1
            /\ UNCHANGED route_added
  /\ loop' = [loop EXCEPT !.todo = Tail(@)]
  /\ UNCHANGED <<names, store, sockets, world, lost, now>>

-----------------------------------------------------------------------------
(* Clients, servers and the network *)

Arrived(s, d) ==
  sockets' = [sockets EXCEPT ![s] = [in |-> Append(@.in, d), edge |-> @.edge \/ loop.at # s]]

\* A client sends the next query of the script, a new one or one more for a
\* question that was asked before.
Ask ==
  /\ script # <<>>
  /\ LET c == Head(script).from
         q == Head(script).q
     IN  /\ asked' = [asked EXCEPT ![c] = Append(@, q)]
         /\ Arrived("local", [from |-> c, id |-> Len(asked[c]) + 1, q |-> q])
  /\ script' = Tail(script)
  /\ UNCHANGED <<server, loop, inflight, done, lost, now, faults>>

\* A server answers a query that has reached it.
Reply(s, q) ==
  /\ inflight[s][q] > 0
  /\ \E records \in Replies[s] : Arrived(s, [q |-> q, records |-> records])
  /\ inflight' = [inflight EXCEPT ![s][q] = @ - 1]
  /\ UNCHANGED <<server, loop, script, asked, done, lost, now, faults>>

\* Neither a query nor a reply for q is on its way.
NothingComing(q) ==
  \A s \in Servers :
    inflight[s][q] = 0 /\ \A i \in 1 .. Len(sockets[s].in) : sockets[s].in[i].q # q

\* The query or its reply is lost.
Lose(s, q) ==
  /\ inflight[s][q] > 0 /\ faults < MaxFaults
  /\ inflight' = [inflight EXCEPT ![s][q] = @ - 1]
  /\ faults' = faults + 1
  /\ UNCHANGED <<server, sockets, loop, script, asked, done, now>>
  /\ lost' = lost \cup IF NothingComing(q)' THEN {q} ELSE {}

\* The query is doubled on its way, and so is its reply.
Double(s, q) ==
  /\ inflight[s][q] > 0 /\ faults < MaxFaults
  /\ inflight' = [inflight EXCEPT ![s][q] = @ + 1]
  /\ faults' = faults + 1
  /\ UNCHANGED <<server, sockets, loop, script, asked, done, lost, now>>

Garbage(s) ==
  /\ faults < MaxFaults
  /\ \E q \in Strays : Arrived(s, [q |-> q])
  /\ faults' = faults + 1
  /\ UNCHANGED <<server, loop, world, lost, now>>

Tick ==
  /\ now < MaxTime
  /\ now' = now + 1
  /\ UNCHANGED <<server, sockets, loop, world, lost, faults>>

Relay ==
  \/ AddLine \/ SetupEnds
  \/ \E s \in Sockets : ready(s) \/ Drained(s) \/ Ignore(s) \/ Panic(s)
  \/ AnswerPtr \/ AnswerCached \/ AskServer
  \/ \E s \in Servers : HandleReply(s)
  \/ RouteNext

Next ==
  \/ Relay
  \/ \E s \in Sockets : RecvFails(s) \/ Garbage(s)
  \/ Ask
  \/ \E s \in Servers, q \in Questions : Reply(s, q) \/ Lose(s, q) \/ Double(s, q)
  \/ Tick

Spec == Init /\ [][Next]_vars

\* The list ends, poll returns when there is an edge and a handler runs to its
\* end; servers answer the queries that reach them.  Nobody has to ask.
Fairness ==
  /\ WF_vars(AddLine \/ SetupEnds)
  /\ \A s \in Sockets : WF_vars(ready(s))
  /\ WF_vars(\E s \in Sockets : Drained(s) \/ Ignore(s) \/ Panic(s))
  /\ WF_vars(AnswerPtr \/ AnswerCached \/ AskServer \/ RouteNext \/ \E s \in Servers : HandleReply(s))
  /\ \A s \in Servers, q \in Questions : WF_vars(Reply(s, q))

LiveSpec == Spec /\ Fairness

-----------------------------------------------------------------------------
(* Properties *)

Responses == [src : Servers \cup {"none"}, records : Seq(Record)]

QueryResult == [addresses : Seq([from : Clients, id : Nat]), response : Responses, expire_time : Nat]

\* What may be in a socket.
Datagrams(s) ==
  [q : Strays] \cup IF s = "local" THEN [from : Clients, id : Nat, q : Questions \cup {Ptr}]
                        ELSE [q : Questions, records : Replies[s]]

\* Every variable has its type.
TypeOK ==
  /\ list \in Lists /\ line \in 0 .. Len(list)
  /\ DOMAIN store \subseteq Questions /\ store \in [DOMAIN store -> QueryResult]
  /\ DOMAIN sockets = Sockets
  /\ \A s \in Sockets : sockets[s] \in [in : Seq(Datagrams(s)), edge : BOOLEAN]
  /\ loop \in [at : Sockets \cup {"setup", "poll", "panicked"}, now : Nat, todo : Seq(Record)]
  /\ now \in Nat /\ lost \subseteq Questions
  /\ inflight \in [Servers -> [Questions -> Nat]]
  /\ script \in Seq([from : Clients, q : Questions \cup {Ptr}])
  /\ asked \in [Clients -> Seq(Questions \cup {Ptr})]
  /\ done \in Seq([to : Clients, id : Nat, q : Questions \cup {Ptr},
                   response : Responses, sent : BOOLEAN])

\* Where the query id of client c is: unread, waiting for a reply, or dealt
\* with, in that it was answered or a send failed.
Unread(i, c, id) ==
  /\ i \in 1 .. Len(sockets["local"].in)
  /\ sockets["local"].in[i].q \in Questions
  /\ sockets["local"].in[i].from = c /\ sockets["local"].in[i].id = id

Waits(q, i, c, id) ==
  /\ q \in DOMAIN store /\ i \in 1 .. Len(store[q].addresses)
  /\ store[q].addresses[i].from = c /\ store[q].addresses[i].id = id

Finished(i, c, id) ==
  /\ i \in 1 .. Len(done) /\ done[i].q \in Questions
  /\ done[i].to = c /\ done[i].id = id

UnreadPlaces(c, id) ==
  {<<"unread", i>> : i \in {j \in 1 .. Len(sockets["local"].in) : Unread(j, c, id)}}

WaitingPlaces(c, id) ==
  UNION {{<<"waits", q, i>> : i \in {j \in 1 .. Len(store[q].addresses) : Waits(q, j, c, id)}} :
           q \in DOMAIN store}

FinishedPlaces(c, id) ==
  {<<"finished", i>> : i \in {j \in 1 .. Len(done) : Finished(j, c, id)}}

Places(c, id) == UnreadPlaces(c, id) \cup WaitingPlaces(c, id) \cup FinishedPlaces(c, id)

\* Every query is in exactly one of these places: nobody is forgotten or
\* answered twice, although one reply serves all who wait, queries are sent
\* again by clients, and replies are lost and doubled.
EachQueryOnce ==
  \A c \in Clients : \A id \in 1 .. Len(asked[c]) :
    asked[c][id] # Ptr => \E p \in Places(c, id) : Places(c, id) = {p}

\* An answer carries the id of a query that this client sent for exactly this
\* question, also when the response was fetched for another client or is from
\* the cache.  (The answer for the relay's own name always carries id 1.)
AnswersMatch ==
  \A i \in 1 .. Len(done) :
    LET a == done[i]
    IN  a.q # Ptr => a.id \in 1 .. Len(asked[a.to]) /\ asked[a.to][a.id] = a.q

AskedOf(s, q) == inflight[s][q] > 0 \/ (q \in DOMAIN store /\ store[q].response.src = s)

\* "Domain list which should be resolved through safe DNS" (config.rs:162): a
\* listed domain and the names below it are never asked of the poisoned
\* server, and no response of its is kept for them.
ListedAskTrusted ==
  \A q \in Questions : AskedOf("poisoned", q) => ~Listed(list, q.name)

\* The trusted server is asked only for the listed names and for those above a
\* listed domain, and for all of the listed ones if no domain of the list is
\* below another.
RightServer ==
  /\ Flat(list) => ListedAskTrusted
  /\ \A q \in Questions :
       AskedOf("trusted", q) => Listed(list, q.name) \/ Above(list, q.name)

\* The addresses of every answer of the trusted server that a client was given
\* are routed through the tunnel, unless the system refused, or are among the
\* records that the handler is about to look at: a client may use an address
\* before its route is there, but no address is forgotten and the socket is not
\* read again before.  No others are routed.
GivenIsRouted ==
  /\ AddRoute => \A i \in 1 .. Len(done) :
       done[i].sent /\ done[i].response.src = "trusted"
         => V4(done[i].response.records) \subseteq route_added \cup refused \cup V4(loop.todo)
  /\ route_added \subseteq UNION {V4(r) : r \in Replies["trusted"]}

\* A query is answered, or a send failed, or it waits for ever because the last
\* datagram for its question was lost on the network and no client has asked
\* it since: the next query makes up for the loss, for everyone who waits.  A
\* reply without a question ends all of this.
EventuallyAnswered ==
  \A c \in Clients, id \in 1 .. MaxAsks :
    id <= Len(asked[c]) /\ asked[c][id] # Ptr
      ~> \/ \E i \in 1 .. Len(done) : Finished(i, c, id)
         \/ [](\E q \in lost : \E i \in 1 .. MaxAsks : Waits(q, i, c, id))
         \/ loop.at = "panicked"
=============================================================================
