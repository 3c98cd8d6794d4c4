----------------------------- MODULE TlsServer -----------------------------
(***************************************************************************)
(* The server's event loop and connection table (server/mod.rs run,        *)
(* server/tls_server.rs) composed with the resolver it shares with all     *)
(* connections.  A connection is reduced to its phase; what happens inside *)
(* one is the subject of ServerConnection.                                 *)
(*                                                                         *)
(*   open   HandShake                 wait   DnsWait, query outstanding    *)
(*   relay  both sides alive          drain  one side gone, the other busy *)
(*   dead   destroyed()               lost   destroyed() while in DnsWait  *)
(***************************************************************************)
EXTENDS Integers, Sequences, FiniteSets

CONSTANTS
  MaxIndex,    \* usize::MAX / CHANNEL_CNT in the code
  MaxClients,  \* bound of the connections that arrive
  Domains, Addresses, NoAddress, NoDomain, CacheTime, MaxTime

MIN_INDEX == 2
CHANNEL_CNT == 2
CHANNEL_BACKEND == 1

ASSUME IndexAssumption == MaxIndex \in Nat /\ MaxIndex >= MIN_INDEX
\* No index is used twice: the code starts again at MIN_INDEX only after
\* usize::MAX / 2 connections.
ASSUME ClientsAssumption == MaxClients \in Nat /\ MaxClients <= MaxIndex - MIN_INDEX

Indexes == MIN_INDEX .. MaxIndex

target_token(index) == index * CHANNEL_CNT + CHANNEL_BACKEND

token2index(token) == token \div CHANNEL_CNT

TargetTokens == {target_token(i) : i \in Indexes}

VARIABLES
  now, dns_cache, job, channel, waker, loop, answer, looked, updated,
  conns,    \* index -> phase
  next_id,  \* the next index
  removed,  \* TlsServer.removed
  arrived,  \* connections that clients have made so far
  backlog,  \* those the listener has not accepted yet
  events,   \* indexes with a network event in this batch, not handled yet
  accept,   \* the listener's event is in this batch
  phase     \* "poll" or "batch"

R == INSTANCE DnsResolver WITH Tokens <- TargetTokens

resolverVars == <<now, dns_cache, job, channel, waker, loop, answer, looked, updated>>
tableVars == <<conns, next_id, removed, arrived, backlog, events, accept, phase>>
vars == <<resolverVars, tableVars>>

Phases == {"open", "wait", "relay", "drain", "dead", "lost"}

Destroyed == {"dead", "lost"}

Init ==
  /\ R!Init
  /\ conns = [i \in {} |-> "open"]
  /\ next_id = MIN_INDEX
  /\ removed = {} /\ arrived = 0 /\ backlog = 0 /\ events = {} /\ accept = FALSE /\ phase = "poll"

-----------------------------------------------------------------------------
(* The world: clients, the clock, the resolver's threads. *)

Connect ==
  /\ arrived < MaxClients
  /\ arrived' = arrived + 1
  /\ backlog' = backlog + 1
  /\ UNCHANGED <<resolverVars, conns, next_id, removed, events, accept, phase>>

Elsewhere ==
  /\ R!Tick \/ \E t \in TargetTokens : R!Thread(t)
  /\ UNCHANGED tableVars

-----------------------------------------------------------------------------
(* One round of the loop: poll, every event of the batch, remove_closed,    *)
(* and check_timeout once a second.                                        *)

Poll ==
  /\ phase = "poll"
  /\ phase' = "batch"
  /\ accept' = (backlog > 0)
  /\ events' \in SUBSET {i \in DOMAIN conns : conns[i] \notin Destroyed}
  /\ IF waker THEN R!Poll ELSE UNCHANGED resolverVars
  /\ waker \/ accept' \/ events' # {}
  /\ UNCHANGED <<conns, next_id, removed, arrived, backlog>>

\* An accept that gives every connection the same index.
next_index_stuck(id) == id

next_index(id) == IF id + 1 > MaxIndex THEN MIN_INDEX ELSE id + 1

\* One turn of the accept loop.  set_nodelay may fail, which uses no index, and
\* so may register, which does.
Accept ==
  /\ phase = "batch" /\ accept /\ backlog > 0
  /\ backlog' = backlog - 1
  /\ \/ /\ next_id' = next_index(next_id)
        /\ conns' = [i \in DOMAIN conns \cup {next_id} |->
                       IF i = next_id THEN "open" ELSE conns[i]]
     \/ next_id' = next_index(next_id) /\ conns' = conns
     \/ UNCHANGED <<next_id, conns>>
  /\ UNCHANGED <<resolverVars, removed, arrived, events, accept, phase>>

AcceptDone ==
  /\ phase = "batch" /\ accept /\ backlog = 0
  /\ accept' = FALSE
  /\ UNCHANGED <<resolverVars, conns, next_id, removed, arrived, backlog, events, phase>>

\* do_conn_event after ready(): the new phase of connection i, and the list of
\* those to remove once the batch is done.
Became(i, ph) ==
  /\ conns' = [conns EXCEPT ![i] = ph]
  /\ removed' = IF ph \in Destroyed THEN removed \cup {i} ELSE removed

\* What a network event can make of a connection that asks nobody.  A stale
\* event can bring a connection that failed in DnsWait back to life.
AfterEvent(ph) ==
  CASE ph = "open"  -> {"open", "relay", "drain", "dead", "lost"}
    [] ph = "wait"  -> {"wait", "lost"}
    [] ph = "relay" -> {"relay", "drain", "dead"}
    [] ph = "drain" -> {"drain", "dead"}
    [] ph = "lost"  -> {"lost", "drain", "dead"}
    [] OTHER        -> {"dead"}

HandleEvent(i) ==
  /\ phase = "batch" /\ i \in events
  /\ events' = events \ {i}
  /\ \E ph \in AfterEvent(conns[i]) : Became(i, ph)
  /\ UNCHANGED <<resolverVars, next_id, arrived, backlog, accept, phase>>

\* The handshake names a domain: the cache answers, or the connection waits.
\* A client that closes behind its request is destroyed at once.
HandshakeDomain(i, d) ==
  /\ phase = "batch" /\ i \in events /\ conns[i] = "open"
  /\ events' = events \ {i}
  /\ \/ /\ R!AskCached(target_token(i), d)
        /\ \E ph \in {"relay", "drain", "dead", "lost"} : Became(i, ph)
     \/ /\ R!AskResolve(target_token(i), d)
        /\ \E ph \in {"wait", "lost"} : Became(i, ph)
  /\ UNCHANGED <<next_id, arrived, backlog, accept, phase>>

\* A loop that takes the resolver's event and does not drain the channel.
Consume_skipped ==
  /\ phase = "batch" /\ loop = "woken" /\ loop' = "poll"
  /\ UNCHANGED <<now, dns_cache, job, channel, waker, answer, looked, updated>>
  /\ UNCHANGED tableVars

Consume ==
  /\ phase = "batch" /\ R!Consume
  /\ UNCHANGED tableVars

\* A loop that takes the answer to be for the connection accepted last.
AnswerIndex_last(token) == next_id - 1

AnswerIndex(token) == token2index(token)

\* What an answer can make of a connection; only DnsWait listens to it.
AfterAnswer(ph, ip) ==
  CASE ph = "wait" /\ ip = NoAddress -> {"lost"}
    [] ph = "wait" /\ ip # NoAddress -> {"relay", "drain", "dead", "lost"}
    [] ph = "lost" /\ ip # NoAddress -> {"drain", "dead", "lost"}
    [] OTHER -> {ph}

\* The callback of consume(): an answer for a connection that is gone is
\* dropped.
HandleAnswer ==
  /\ phase = "batch" /\ R!ConsumeOne
  /\ LET m == Head(channel)
         i == AnswerIndex(m.token)
     IN  IF i \in DOMAIN conns
         THEN \E ph \in AfterAnswer(conns[i], m.ip) : Became(i, ph)
         ELSE UNCHANGED <<conns, removed>>
  /\ UNCHANGED <<next_id, arrived, backlog, events, accept, phase>>

ConsumeDone ==
  /\ phase = "batch" /\ R!ConsumeDone
  /\ UNCHANGED tableVars

\* The connections left after remove_closed, and after check_timeout closed
\* those in S for being idle.
Remaining(S) == {i \in DOMAIN conns : i \notin removed /\ i \notin S}

\* check_timeout also drops whatever it finds destroyed.
EndRound ==
  /\ phase = "batch" /\ events = {} /\ ~accept /\ loop = "poll"
  /\ \/ conns' = [i \in Remaining({}) |-> conns[i]]
     \/ \E S \in SUBSET DOMAIN conns :
          conns' = [i \in {j \in Remaining(S) : conns[j] \notin Destroyed} |-> conns[i]]
  /\ removed' = {} /\ phase' = "poll"
  /\ UNCHANGED <<resolverVars, next_id, arrived, backlog, events, accept>>

Round ==
  \/ Poll \/ Accept \/ AcceptDone \/ Consume \/ HandleAnswer \/ ConsumeDone \/ EndRound
  \/ \E i \in Indexes : HandleEvent(i) \/ \E d \in Domains : HandshakeDomain(i, d)

Next == Connect \/ Elsewhere \/ Round

Spec == Init /\ [][Next]_vars

\* One thread runs the loop; the resolver's threads are scheduled too.
Fairness ==
  /\ WF_vars(Accept) /\ WF_vars(AcceptDone) /\ WF_vars(Consume)
  /\ WF_vars(HandleAnswer) /\ WF_vars(ConsumeDone) /\ WF_vars(EndRound)
  /\ WF_vars(waker /\ Poll)
  /\ \A i \in Indexes : WF_vars(HandleEvent(i) \/ \E d \in Domains : HandshakeDomain(i, d))
  /\ \A t \in TargetTokens : WF_vars(R!Thread(t) /\ UNCHANGED tableVars)

LiveSpec == Spec /\ Fairness

-----------------------------------------------------------------------------
(* Properties *)

\* Every variable has its type: the table and the list of removed connections
\* only hold indexes that were given out.
TypeOK ==
  /\ R!TypeOK
  /\ DOMAIN conns \subseteq MIN_INDEX .. next_id - 1
  /\ \A i \in DOMAIN conns : conns[i] \in Phases
  /\ next_id \in Indexes
  /\ removed \subseteq DOMAIN conns
  /\ arrived \in 0 .. MaxClients /\ backlog \in 0 .. arrived
  /\ events \subseteq DOMAIN conns
  /\ accept \in BOOLEAN /\ phase \in {"poll", "batch"}

\* A connection that waits for an address has its question open at the
\* resolver, and with it an answer on its way (OneAnswerEach): no batch order,
\* closed neighbour or answer to somebody else leaves it in DnsWait for ever.
WaitingIsAsked ==
  \A i \in DOMAIN conns : conns[i] = "wait" => answer[target_token(i)].st = "asked"

\* Every connection that waits gets its answer or goes away.
WaitEnds ==
  \A i \in Indexes :
    i \in DOMAIN conns /\ conns[i] = "wait" ~> i \notin DOMAIN conns \/ conns[i] # "wait"

\* Nothing of t is asked, looked up or on its way.
Untouched(t) == answer[t].st = "unasked" /\ job[t].pc = "none" /\ ~R!InChannel(t)

\* A connection that has not asked yet is not given an answer to the question
\* of an earlier one: when a connection times out or closes in DnsWait its
\* thread goes on, and the index it had, which is all the answer is addressed
\* to, is in no later connection's token.  This is also what allows the
\* connection to ask at all, as DnsResolver takes one question per token.
NoStaleAnswer ==
  \A i \in DOMAIN conns : conns[i] = "open" => Untouched(target_token(i))
=============================================================================
