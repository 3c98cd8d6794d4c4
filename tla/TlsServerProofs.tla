-------------------------- MODULE TlsServerProofs --------------------------
(***************************************************************************)
(* Proofs about TlsServer, for every number of indexes and clients, and    *)
(* for every set of domains and addresses: indexes are not reused, a       *)
(* connection that waits is owed an answer, and one that has not asked yet *)
(* is given none.                                                          *)
(***************************************************************************)
EXTENDS TlsServer, TLAPS

\* The tokens of different connections are different, and a token leads back
\* to its connection.
LEMMA TokenOfIndex ==
  /\ \A i \in Indexes : target_token(i) \in TargetTokens /\ token2index(target_token(i)) = i
  /\ \A i, j \in Indexes : target_token(i) = target_token(j) => i = j
<1>1. \A i \in Indexes : i \in Int
  BY IndexAssumption DEF Indexes, MIN_INDEX
<1>2. \A i \in Indexes : token2index(target_token(i)) = i
  BY <1>1 DEF token2index, target_token, CHANNEL_CNT, CHANNEL_BACKEND
<1>3. \A i \in Indexes : target_token(i) \in TargetTokens
  BY DEF TargetTokens
<1>4. \A i, j \in Indexes : target_token(i) = target_token(j) => i = j
  BY <1>1 DEF target_token, CHANNEL_CNT, CHANNEL_BACKEND
<1> QED
  BY <1>2, <1>3, <1>4

\* Every step of the server is a step of the resolver or leaves it alone.
LEMMA ResolverStep == [Next]_vars => [R!Next]_(R!resolverVars)
<1> SUFFICES ASSUME [Next]_vars PROVE [R!Next]_(R!resolverVars)
  OBVIOUS
<1> USE DEF R!resolverVars, resolverVars
<1>1. CASE Connect
  BY <1>1 DEF Connect
<1>2. CASE Elsewhere
  BY <1>2 DEF Elsewhere, R!Next
<1>3. CASE Poll
  BY <1>3 DEF Poll, R!Next
<1>4. CASE Accept \/ AcceptDone \/ EndRound
  BY <1>4 DEF Accept, AcceptDone, EndRound
<1>5. CASE Consume \/ HandleAnswer \/ ConsumeDone
  BY <1>5 DEF Consume, HandleAnswer, ConsumeDone, R!Next
<1>6. ASSUME NEW i \in Indexes, HandleEvent(i) PROVE UNCHANGED R!resolverVars
  BY <1>6 DEF HandleEvent
<1>7. ASSUME NEW i \in Indexes, NEW d \in Domains, HandshakeDomain(i, d) PROVE R!Next
  BY <1>7, TokenOfIndex DEF HandshakeDomain, R!Next, R!Ask
<1>8. CASE UNCHANGED vars
  BY <1>8 DEF vars
<1> QED
  BY <1>1, <1>2, <1>3, <1>4, <1>5, <1>6, <1>7, <1>8 DEF Next, Round

-----------------------------------------------------------------------------
\* The indexes in use were given out, and there are not more of them than
\* connections were accepted: next_id never gets to where it would start again.
Table ==
  /\ arrived \in 0 .. MaxClients /\ backlog \in 0 .. arrived
  /\ next_id \in MIN_INDEX .. MIN_INDEX + arrived - backlog
  /\ DOMAIN conns \subseteq MIN_INDEX .. next_id - 1
  /\ events \subseteq DOMAIN conns

\* The index that the next connection gets is not the index of another.
LEMMA TableStep == Table /\ [Next]_vars => Table'
<1> SUFFICES ASSUME Table, [Next]_vars PROVE Table'
  OBVIOUS
<1> USE DEF Table, MIN_INDEX
<1>0. MaxClients \in Nat /\ MaxIndex \in Nat /\ MaxClients <= MaxIndex - 2
  BY IndexAssumption, ClientsAssumption
<1>1. CASE Connect
  BY <1>0, <1>1 DEF Connect
<1>2. CASE Elsewhere
  BY <1>2 DEF Elsewhere, tableVars
<1>3. CASE Poll
  BY <1>3 DEF Poll
<1>4. CASE Accept
  <2>1. backlog' = backlog - 1 /\ arrived' = arrived /\ events' = events /\ backlog > 0
    BY <1>4 DEF Accept
  <2>2. next_index(next_id) = next_id + 1
    BY <1>0, <2>1 DEF next_index
  <2>3. \/ next_id' = next_id + 1 /\ DOMAIN conns' = DOMAIN conns \cup {next_id}
        \/ next_id' = next_id + 1 /\ conns' = conns
        \/ next_id' = next_id /\ conns' = conns
    BY <1>4, <2>2 DEF Accept
  <2> QED
    BY <2>1, <2>3
<1>5. CASE AcceptDone \/ Consume \/ ConsumeDone
  BY <1>5 DEF AcceptDone, Consume, ConsumeDone, tableVars
<1>6. CASE HandleAnswer
  <2>1. UNCHANGED <<next_id, arrived, backlog, events>> /\ DOMAIN conns' = DOMAIN conns
    BY <1>6 DEF HandleAnswer, Became
  <2> QED
    BY <2>1
<1>7. CASE EndRound
  <2>1. UNCHANGED <<next_id, arrived, backlog>> /\ DOMAIN conns' \subseteq DOMAIN conns
    BY <1>7 DEF EndRound, Remaining
  <2>2. events' = {}
    BY <1>7 DEF EndRound
  <2> QED
    BY <2>1, <2>2
<1>8. ASSUME NEW i \in Indexes, HandleEvent(i) \/ \E d \in Domains : HandshakeDomain(i, d)
      PROVE  Table'
  <2>1. /\ UNCHANGED <<next_id, arrived, backlog>> /\ DOMAIN conns' = DOMAIN conns
        /\ events' \subseteq events
    BY <1>8 DEF HandleEvent, HandshakeDomain, Became
  <2> QED
    BY <2>1
<1>9. CASE UNCHANGED vars
  BY <1>9 DEF vars, tableVars
<1> QED
  BY <1>1, <1>2, <1>3, <1>4, <1>5, <1>6, <1>7, <1>8, <1>9 DEF Next, Round

\* alloc_index gives a new connection an index that no connection in the table
\* has, whatever accepts failed half-way: as long as no more than usize::MAX / 2
\* clients have come, insert never replaces a connection.
THEOREM IndexesUnique == Spec => [](next_id \notin DOMAIN conns)
<1>1. Init => Table
  BY ClientsAssumption DEF Init, Table, MIN_INDEX
<1>2. Table => next_id \notin DOMAIN conns
  BY ClientsAssumption DEF Table, MIN_INDEX
<1> QED
  BY <1>1, <1>2, TableStep, PTL DEF Spec

-----------------------------------------------------------------------------
Mail == [token : TargetTokens, domain : Domains \cup {NoDomain}, ip : R!Results]

\* Only connections ask: threads, results and answers are for target tokens.
Asking ==
  /\ job \in [TargetTokens -> R!Jobs]
  /\ channel \in Seq(Mail)
  /\ DOMAIN answer = TargetTokens

\* Every step of the resolver keeps threads, results and answers with their
\* tokens.
LEMMA AskingStep == Asking /\ [R!Next]_(R!resolverVars) => Asking'
<1> SUFFICES ASSUME Asking, [R!Next]_(R!resolverVars) PROVE Asking'
  OBVIOUS
<1> USE DEF Asking
<1>1. ASSUME NEW t \in TargetTokens, NEW d \in Domains, R!AskCached(t, d) PROVE Asking'
  BY <1>1 DEF R!AskCached
<1>2. ASSUME NEW t \in TargetTokens, NEW d \in Domains, R!AskResolve(t, d) PROVE Asking'
  <2>1. [pc |-> "lookup", domain |-> d, ip |-> NoAddress] \in R!Jobs
    BY DEF R!Jobs, R!Results
  <2> QED
    BY <1>2, <2>1 DEF R!AskResolve
<1>3. ASSUME NEW t \in TargetTokens, R!Lookup(t) PROVE Asking'
  <2>1. PICK ip \in R!Results : job' = [job EXCEPT ![t] = [@ EXCEPT !.pc = "send", !.ip = ip]]
    BY <1>3 DEF R!Lookup
  <2>2. [job[t] EXCEPT !.pc = "send", !.ip = ip] \in R!Jobs
    BY <2>1 DEF R!Jobs
  <2> QED
    BY <1>3, <2>1, <2>2 DEF R!Lookup
<1>4. ASSUME NEW t \in TargetTokens, R!Send(t) PROVE Asking'
  <2>1. job[t] \in R!Jobs
    OBVIOUS
  <2>2. [job[t] EXCEPT !.pc = "wake"] \in R!Jobs
    BY <2>1 DEF R!Jobs
  <2>3. [token |-> t, domain |-> job[t].domain, ip |-> job[t].ip] \in Mail
    BY <2>1 DEF R!Jobs, Mail
  <2> QED
    BY <1>4, <2>2, <2>3 DEF R!Send
<1>5. ASSUME NEW t \in TargetTokens, R!Wake(t) PROVE Asking'
  <2>1. [job[t] EXCEPT !.pc = "done"] \in R!Jobs
    BY DEF R!Jobs
  <2> QED
    BY <1>5, <2>1 DEF R!Wake
<1>6. CASE R!ConsumeOne
  <2>1. UNCHANGED job /\ channel # <<>> /\ channel' = Tail(channel)
    BY <1>6 DEF R!ConsumeOne
  <2>2. DOMAIN answer' = DOMAIN answer
    BY <1>6 DEF R!ConsumeOne
  <2> QED
    BY <2>1, <2>2
<1>7. CASE R!Poll \/ R!Consume \/ R!ConsumeDone \/ R!Tick
  BY <1>7 DEF R!Poll, R!Consume, R!ConsumeDone, R!Tick
<1>8. CASE UNCHANGED R!resolverVars
  BY <1>8 DEF R!resolverVars
<1> QED
  BY <1>1, <1>2, <1>3, <1>4, <1>5, <1>6, <1>7, <1>8 DEF R!Next, R!Ask, R!Thread

\* A step changes the phase and the question of one connection at most, and
\* makes it wait only with the question it then asks.
LEMMA WaitingStep ==
  Table /\ Asking /\ WaitingIsAsked /\ [Next]_vars => WaitingIsAsked'
<1> SUFFICES ASSUME Table, Asking, WaitingIsAsked, [Next]_vars PROVE WaitingIsAsked'
  OBVIOUS
<1> USE DEF WaitingIsAsked
<1>0. \A i \in DOMAIN conns : i \in Indexes
  BY IndexAssumption, ClientsAssumption DEF Table, Indexes, MIN_INDEX
<1>1. CASE Connect \/ AcceptDone
  BY <1>1 DEF Connect, AcceptDone, resolverVars
<1>2. CASE Elsewhere
  <2>1. UNCHANGED <<conns, answer>>
    BY <1>2 DEF Elsewhere, tableVars, R!Tick, R!Thread, R!Lookup, R!Send, R!Wake
  <2> QED
    BY <2>1
<1>3. CASE Poll \/ Consume \/ ConsumeDone
  <2>1. UNCHANGED <<conns, answer>>
    BY <1>3 DEF Poll, Consume, ConsumeDone, tableVars, resolverVars, R!Poll, R!Consume, R!ConsumeDone
  <2> QED
    BY <2>1
<1>4. CASE Accept
  <2>1. answer' = answer
    BY <1>4 DEF Accept, resolverVars
  <2>2. \A i \in DOMAIN conns' : conns'[i] = "wait" => i \in DOMAIN conns /\ conns[i] = "wait"
    BY <1>4 DEF Accept
  <2> QED
    BY <2>1, <2>2
<1>5. CASE EndRound
  <2>1. answer' = answer
    BY <1>5 DEF EndRound, resolverVars
  <2>2. \A i \in DOMAIN conns' : i \in DOMAIN conns /\ conns'[i] = conns[i]
    BY <1>5 DEF EndRound, Remaining
  <2> QED
    BY <2>1, <2>2
<1>6. ASSUME NEW i \in Indexes, HandleEvent(i) PROVE WaitingIsAsked'
  <2>1. answer' = answer /\ i \in DOMAIN conns
    BY <1>6 DEF HandleEvent, resolverVars, Table
  <2>2. PICK ph \in AfterEvent(conns[i]) : conns' = [conns EXCEPT ![i] = ph]
    BY <1>6 DEF HandleEvent, Became
  <2>3. ph = "wait" => conns[i] = "wait"
    BY <2>2 DEF AfterEvent
  <2> QED
    BY <2>1, <2>2, <2>3
<1>7. ASSUME NEW i \in Indexes, NEW d \in Domains, HandshakeDomain(i, d) PROVE WaitingIsAsked'
  <2>1. i \in DOMAIN conns /\ conns[i] = "open" /\ target_token(i) \in TargetTokens
    BY <1>7, TokenOfIndex DEF HandshakeDomain, Table
  <2>2. \A j \in DOMAIN conns : j # i => target_token(j) # target_token(i)
    BY <1>0, TokenOfIndex
  <2>3. CASE R!AskCached(target_token(i), d) /\ \E ph \in {"relay", "drain", "dead", "lost"} : Became(i, ph)
    <3>1. PICK ph \in {"relay", "drain", "dead", "lost"} : conns' = [conns EXCEPT ![i] = ph]
      BY <2>3 DEF Became
    <3>2. \A j \in DOMAIN conns : j # i => answer'[target_token(j)] = answer[target_token(j)]
      BY <1>0, <2>2, <2>3, TokenOfIndex DEF R!AskCached, Asking
    <3> QED
      BY <2>1, <3>1, <3>2
  <2>4. CASE R!AskResolve(target_token(i), d) /\ \E ph \in {"wait", "lost"} : Became(i, ph)
    <3>1. PICK ph \in {"wait", "lost"} : conns' = [conns EXCEPT ![i] = ph]
      BY <2>4 DEF Became
    <3>2. /\ answer'[target_token(i)].st = "asked"
          /\ \A j \in DOMAIN conns : j # i => answer'[target_token(j)] = answer[target_token(j)]
      BY <1>0, <2>1, <2>2, <2>4, TokenOfIndex DEF R!AskResolve, Asking
    <3> QED
      BY <3>1, <3>2
  <2> QED
    BY <1>7, <2>3, <2>4 DEF HandshakeDomain
<1>8. CASE HandleAnswer
  <2> DEFINE m == Head(channel)
             i == token2index(m.token)
  <2>1. channel \in Seq(Mail) /\ channel # <<>>
    BY <1>8 DEF HandleAnswer, R!ConsumeOne, Asking
  <2>2. m \in Mail
    BY <2>1
  <2>3. m.token \in TargetTokens
    BY <2>2 DEF Mail
  <2>4. PICK k \in Indexes : m.token = target_token(k)
    BY <2>3 DEF TargetTokens
  <2>5. i = k
    BY <2>4, TokenOfIndex
  <2>6. \A j \in DOMAIN conns : j # i => answer'[target_token(j)] = answer[target_token(j)]
    BY <1>0, <1>8, <2>4, <2>5, TokenOfIndex DEF HandleAnswer, R!ConsumeOne, Asking
  <2>7. CASE i \in DOMAIN conns
    <3>1. PICK ph \in AfterAnswer(conns[i], m.ip) : conns' = [conns EXCEPT ![i] = ph]
      BY <1>8, <2>7 DEF HandleAnswer, AnswerIndex, Became
    <3>2. ph # "wait"
      BY <3>1 DEF AfterAnswer
    <3> QED
      BY <2>6, <3>1, <3>2
  <2>8. CASE i \notin DOMAIN conns
    <3>1. conns' = conns
      BY <1>8, <2>8 DEF HandleAnswer, AnswerIndex
    <3> QED
      BY <2>6, <2>8, <3>1
  <2> QED
    BY <2>7, <2>8
<1>9. CASE UNCHANGED vars
  BY <1>9 DEF vars, tableVars, resolverVars
<1> QED
  BY <1>1, <1>2, <1>3, <1>4, <1>5, <1>6, <1>7, <1>8, <1>9 DEF Next, Round

\* A connection in DnsWait has its question open at the resolver, which answers
\* every question once: in no order of events, answers and removals does a
\* connection wait for an answer that was already given.
THEOREM WaitingHasQuestion == Spec => []WaitingIsAsked
<1>1. Init => Table
  BY ClientsAssumption DEF Init, Table, MIN_INDEX
<1>2. Init => Asking /\ WaitingIsAsked
  BY DEF Init, R!Init, R!NoJob, R!Jobs, R!Results, Asking, WaitingIsAsked
<1> QED
  BY <1>1, <1>2, TableStep, ResolverStep, AskingStep, WaitingStep, PTL DEF Spec

-----------------------------------------------------------------------------
\* Nobody has asked with the token of an index that is still to be given out,
\* nor with the token of a connection that is in its handshake.
Pristine ==
  \A i \in Indexes :
    i >= next_id \/ (i \in DOMAIN conns /\ conns[i] = "open") => Untouched(target_token(i))

\* A thread only works on the question of its own token, and an answer that is
\* taken was in the channel: what nobody asks stays untouched.
LEMMA UntouchedStays ==
  ASSUME Asking, NEW u \in TargetTokens, Untouched(u),
         \/ R!Poll \/ R!Consume \/ R!ConsumeOne \/ R!ConsumeDone \/ R!Tick
         \/ \E t \in TargetTokens : R!Thread(t)
         \/ \E t \in TargetTokens \ {u}, d \in Domains : R!AskCached(t, d) \/ R!AskResolve(t, d)
         \/ UNCHANGED resolverVars
  PROVE  Untouched(u)'
<1> USE DEF Asking
<1>1. answer[u].st = "unasked" /\ job[u].pc = "none" /\ ~R!InChannel(u)
  BY DEF Untouched
<1>2. CASE R!Poll \/ R!Consume \/ R!ConsumeDone \/ R!Tick \/ UNCHANGED resolverVars
  BY <1>1, <1>2 DEF R!Poll, R!Consume, R!ConsumeDone, R!Tick, resolverVars, Untouched, R!InChannel
<1>3. CASE R!ConsumeOne
  <2>1. PICK token : token = Head(channel).token
    OBVIOUS
  <2>2. /\ channel # <<>> /\ channel' = Tail(channel) /\ job' = job
        /\ DOMAIN answer' = DOMAIN answer
        /\ \A t \in TargetTokens : t # token => answer'[t] = answer[t]
    BY <1>3, <2>1 DEF R!ConsumeOne
  <2>3. token # u
    <3>1. 1 \in 1 .. Len(channel) /\ Head(channel) = channel[1]
      BY <2>2
    <3> QED
      BY <1>1, <2>1, <3>1 DEF R!InChannel
  <2>4. \A k \in 1 .. Len(channel') : k + 1 \in 1 .. Len(channel) /\ channel'[k] = channel[k + 1]
    BY <2>2
  <2> QED
    BY <1>1, <2>2, <2>3, <2>4 DEF Untouched, R!InChannel
<1>4. ASSUME NEW t \in TargetTokens, R!Thread(t) PROVE Untouched(u)'
  <2>1. job[t].pc \in {"lookup", "send", "wake"} /\ t # u
    BY <1>1, <1>4 DEF R!Thread, R!Lookup, R!Send, R!Wake
  <2>2. answer' = answer /\ job'[u] = job[u]
    BY <1>4, <2>1 DEF R!Thread, R!Lookup, R!Send, R!Wake
  <2>3. \/ channel' = channel
        \/ channel' = Append(channel, [token |-> t, domain |-> job[t].domain, ip |-> job[t].ip])
    BY <1>4 DEF R!Thread, R!Lookup, R!Send, R!Wake
  <2>4. \A k \in 1 .. Len(channel') :
          (k \in 1 .. Len(channel) /\ channel'[k] = channel[k]) \/ channel'[k].token = t
    BY <2>3
  <2> QED
    BY <1>1, <2>1, <2>2, <2>4 DEF Untouched, R!InChannel
<1>5. ASSUME NEW t \in TargetTokens \ {u}, NEW d \in Domains,
             R!AskCached(t, d) \/ R!AskResolve(t, d)
      PROVE  Untouched(u)'
  <2>1. channel' = channel /\ job'[u] = job[u] /\ answer'[u] = answer[u]
    BY <1>5 DEF R!AskCached, R!AskResolve
  <2> QED
    BY <1>1, <2>1 DEF Untouched, R!InChannel
<1> QED
  BY <1>2, <1>3, <1>4, <1>5

\* A step that asks nothing and gives out no index.
LEMMA PristineStays ==
  ASSUME Asking, Pristine, next_id' = next_id,
         \/ R!Poll \/ R!Consume \/ R!ConsumeOne \/ R!ConsumeDone \/ R!Tick
         \/ \E t \in TargetTokens : R!Thread(t)
         \/ UNCHANGED resolverVars,
         \A i \in DOMAIN conns' : conns'[i] = "open" => i \in DOMAIN conns /\ conns[i] = "open"
  PROVE  Pristine'
<1> SUFFICES ASSUME NEW i \in Indexes,
                    i >= next_id' \/ (i \in DOMAIN conns' /\ conns'[i] = "open")
             PROVE  Untouched(target_token(i))'
  BY DEF Pristine
<1>1. Untouched(target_token(i)) /\ target_token(i) \in TargetTokens
  BY TokenOfIndex DEF Pristine
<1> QED
  BY <1>1, UntouchedStays

LEMMA PristineStep == Table /\ Asking /\ Pristine /\ [Next]_vars => Pristine'
<1> SUFFICES ASSUME Table, Asking, Pristine, [Next]_vars PROVE Pristine'
  OBVIOUS
<1>0. /\ \A i \in DOMAIN conns : i \in Indexes /\ i < next_id
      /\ next_id \in Indexes /\ next_id \in Nat
  BY IndexAssumption, ClientsAssumption DEF Table, Indexes, MIN_INDEX
<1>1. CASE Connect \/ AcceptDone
  BY <1>1, PristineStays DEF Connect, AcceptDone
<1>2. CASE Elsewhere
  BY <1>2, PristineStays DEF Elsewhere, tableVars
<1>3. CASE Poll
  BY <1>3, PristineStays DEF Poll
<1>4. CASE Consume \/ ConsumeDone
  BY <1>4, PristineStays DEF Consume, ConsumeDone, tableVars
<1>5. CASE Accept
  <2>1. UNCHANGED resolverVars /\ backlog > 0
    BY <1>5 DEF Accept
  <2>2. next_index(next_id) = next_id + 1
    BY <2>1, IndexAssumption, ClientsAssumption DEF next_index, Table, MIN_INDEX
  <2>3. \/ /\ next_id' = next_id + 1 /\ DOMAIN conns' = DOMAIN conns \cup {next_id}
           /\ \A i \in DOMAIN conns : i # next_id => conns'[i] = conns[i]
        \/ next_id' = next_id + 1 /\ conns' = conns
        \/ next_id' = next_id /\ conns' = conns
    BY <1>5, <2>2 DEF Accept
  <2>4. \A t : Untouched(t) => Untouched(t)'
    BY <2>1 DEF Untouched, R!InChannel, resolverVars
  <2>5. \A i \in Indexes : i \in Int
    BY IndexAssumption DEF Indexes, MIN_INDEX
  <2>6. ASSUME NEW i \in Indexes,
               i >= next_id' \/ (i \in DOMAIN conns' /\ conns'[i] = "open")
        PROVE  i >= next_id \/ (i \in DOMAIN conns /\ conns[i] = "open")
    BY <1>0, <2>3, <2>5, <2>6
  <2> QED
    BY <2>4, <2>6 DEF Pristine
<1>6. CASE EndRound
  <2>1. \A i \in DOMAIN conns' : i \in DOMAIN conns /\ conns'[i] = conns[i]
    BY <1>6 DEF EndRound, Remaining
  <2> QED
    BY <1>6, <2>1, PristineStays DEF EndRound
<1>7. ASSUME NEW i \in Indexes, HandleEvent(i) PROVE Pristine'
  <2>1. i \in DOMAIN conns
    BY <1>7 DEF HandleEvent, Table
  <2>2. PICK ph \in AfterEvent(conns[i]) : conns' = [conns EXCEPT ![i] = ph]
    BY <1>7 DEF HandleEvent, Became
  <2>3. ph = "open" => conns[i] = "open"
    BY <2>2 DEF AfterEvent
  <2>4. \A j \in DOMAIN conns' : conns'[j] = "open" => j \in DOMAIN conns /\ conns[j] = "open"
    BY <2>1, <2>2, <2>3
  <2> QED
    BY <1>7, <2>4, PristineStays DEF HandleEvent
<1>8. ASSUME NEW i \in Indexes, NEW d \in Domains, HandshakeDomain(i, d) PROVE Pristine'
  <2>1. i \in DOMAIN conns /\ next_id' = next_id
    BY <1>8 DEF HandshakeDomain, Table
  <2>2. PICK ph \in {"relay", "drain", "dead", "lost", "wait"} : conns' = [conns EXCEPT ![i] = ph]
    BY <1>8 DEF HandshakeDomain, Became
  <2>3. R!AskCached(target_token(i), d) \/ R!AskResolve(target_token(i), d)
    BY <1>8 DEF HandshakeDomain
  <2> SUFFICES ASSUME NEW j \in Indexes,
                      j >= next_id' \/ (j \in DOMAIN conns' /\ conns'[j] = "open")
               PROVE  Untouched(target_token(j))'
    BY DEF Pristine
  <2>4. j # i
    <3>1. i \in Int /\ i < next_id
      BY <1>0, <2>1, IndexAssumption DEF Indexes, MIN_INDEX
    <3> QED
      BY <1>0, <2>1, <2>2, <3>1
  <2>5. Untouched(target_token(j))
    BY <2>1, <2>2, <2>4 DEF Pristine
  <2>6. /\ target_token(j) \in TargetTokens
        /\ target_token(i) \in TargetTokens \ {target_token(j)}
    BY <2>4, TokenOfIndex
  <2> QED
    BY <2>3, <2>5, <2>6, UntouchedStays
<1>9. CASE HandleAnswer
  <2>1. PICK i, ip : i = AnswerIndex(Head(channel).token) /\ ip = Head(channel).ip
    OBVIOUS
  <2>2. \/ conns' = conns
        \/ i \in DOMAIN conns /\ \E ph \in AfterAnswer(conns[i], ip) : conns' = [conns EXCEPT ![i] = ph]
    BY <1>9, <2>1 DEF HandleAnswer, Became
  <2>3. \A ph \in AfterAnswer(conns[i], ip) : ph = "open" => conns[i] = "open"
    BY DEF AfterAnswer
  <2>4. \A j \in DOMAIN conns' : conns'[j] = "open" => j \in DOMAIN conns /\ conns[j] = "open"
    BY <2>2, <2>3
  <2> QED
    BY <1>9, <2>4, PristineStays DEF HandleAnswer
<1>10. CASE UNCHANGED vars
  BY <1>10, PristineStays DEF vars, tableVars
<1> QED
  BY <1>1, <1>2, <1>3, <1>4, <1>5, <1>6, <1>7, <1>8, <1>9, <1>10 DEF Next, Round

\* A connection that has not asked has no thread, no result in the channel and
\* no answer: whatever connections were closed or timed out while their lookup
\* went on, do_conn_event never hands the late answer to a newer connection.
THEOREM AnswersNotStale == Spec => []NoStaleAnswer
<1>1. Init => Table
  BY ClientsAssumption DEF Init, Table, MIN_INDEX
<1>2. Init => Asking
  BY DEF Init, R!Init, R!NoJob, R!Jobs, R!Results, Asking
<1>3. Init => Pristine
  <2> SUFFICES ASSUME Init, NEW i \in Indexes PROVE Untouched(target_token(i))
    BY DEF Pristine
  <2>1. target_token(i) \in TargetTokens
    BY TokenOfIndex
  <2> QED
    BY <2>1 DEF Init, R!Init, R!NoJob, R!Unasked, Untouched, R!InChannel
<1>4. Table /\ Pristine => NoStaleAnswer
  BY IndexAssumption, ClientsAssumption DEF Table, Pristine, NoStaleAnswer, Indexes, MIN_INDEX
<1> QED
  BY <1>1, <1>2, <1>3, <1>4, TableStep, ResolverStep, AskingStep, PristineStep, PTL DEF Spec
=============================================================================
