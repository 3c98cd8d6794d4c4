--------------------------- MODULE DnsRelayProofs ---------------------------
(***************************************************************************)
(* Proofs about DnsRelay, for any clients, questions, lists and replies.   *)
(***************************************************************************)
EXTENDS DnsRelay, SequenceTheorems, TLAPS

(* The block list *)

\* A domain has at least one label.
LEMMA LabelsType ==
  ASSUME NEW d \in Domain
  PROVE  Labels(d) \in Seq(STRING) /\ Len(Labels(d)) > 0
<1>1. d \in Seq(STRING) /\ Len(d) > 0
  BY DEF Domain
<1>2. ASSUME NEW e \in Seq(STRING), Len(e) > 0
      PROVE  Reverse(e) \in Seq(STRING) /\ Len(Reverse(e)) = Len(e)
  <2>1. \A i \in 1 .. Len(e) : e[Len(e) - i + 1] \in STRING
    BY <1>2
  <2> QED
    BY <2>1, <1>2 DEF Reverse
<1>3. CASE Len(d) > 1 /\ Last(d) = ""
  <2> DEFINE n == Len(d) - 1
  <2>1. Len(d) \in Nat /\ Len(d) > 1
    BY <1>1, <1>3, Zenon, LenProperties
  <2>2. n \in 1 .. Len(d)
    BY <2>1
  <2>3. SubSeq(d, 1, n) \in Seq(STRING) /\ Len(SubSeq(d, 1, n)) = n
    BY <1>1, <2>2
  <2>4. Front(d) \in Seq(STRING) /\ Len(Front(d)) > 0
    BY <2>2, <2>3 DEF Front
  <2> QED
    BY <1>2, <1>3, <2>4 DEF Labels
<1>4. CASE ~(Len(d) > 1 /\ Last(d) = "")
  BY <1>1, <1>2, <1>4 DEF Labels
<1> QED
  BY <1>3, <1>4

\* The map after the first n lines were added.
Added(lines, n) == UNION {Paths(Labels(lines[i])) : i \in 1 .. n}

\* A prefix of a sequence is the part of it up to its length.
LEMMA PrefixIsPart ==
  ASSUME NEW S, NEW s \in Seq(S), NEW t \in Seq(S)
  PROVE  IsPrefix(s, t) <=> (Len(s) <= Len(t) /\ \A i \in 1 .. Len(s) : s[i] = t[i])
<1>1. SubSeq(s, 1, Len(s)) = s
  OBVIOUS
<1>2. CASE Len(s) <= Len(t)
  <2>1. /\ SubSeq(t, 1, Len(s)) \in Seq(S) /\ Len(SubSeq(t, 1, Len(s))) = Len(s)
        /\ \A i \in 1 .. Len(s) : SubSeq(t, 1, Len(s))[i] = t[i]
    BY <1>2
  <2>2. (\A i \in 1 .. Len(s) : s[i] = t[i]) => s = SubSeq(t, 1, Len(s))
    BY <2>1
  <2> QED
    BY <1>1, <1>2, <2>1, <2>2 DEF IsPrefix
<1>3. CASE ~(Len(s) <= Len(t))
  BY <1>3 DEF IsPrefix
<1> QED
  BY <1>2, <1>3

\* The paths of some labels are their prefixes that are not empty.
LEMMA PathsArePrefixes ==
  ASSUME NEW l \in Seq(STRING), NEW p
  PROVE  p \in Paths(l) <=> (p \in Seq(STRING) /\ Len(p) > 0 /\ IsPrefix(p, l))
<1>1. ASSUME p \in Paths(l) PROVE p \in Seq(STRING) /\ Len(p) > 0 /\ IsPrefix(p, l)
  <2>1. PICK i \in 1 .. Len(l) : p = SubSeq(l, 1, i)
    BY <1>1 DEF Paths
  <2>2. p \in Seq(STRING) /\ Len(p) = i /\ \A j \in 1 .. i : p[j] = l[j]
    BY <2>1
  <2> QED
    BY <2>2, PrefixIsPart
<1>2. ASSUME p \in Seq(STRING), Len(p) > 0, IsPrefix(p, l) PROVE p \in Paths(l)
  <2>1. Len(p) \in 1 .. Len(l) /\ p = SubSeq(l, 1, Len(p))
    BY <1>2 DEF IsPrefix
  <2> QED
    BY <2>1 DEF Paths
<1> QED
  BY <1>1, <1>2

\* What the map holds: the prefixes, not empty, of what was added.
LEMMA AddedPaths ==
  ASSUME NEW lines \in Seq(Domain), NEW n \in 0 .. Len(lines), NEW p
  PROVE  p \in Added(lines, n)
           <=> /\ p \in Seq(STRING) /\ Len(p) > 0
               /\ \E i \in 1 .. n : IsPrefix(p, Labels(lines[i]))
<1>1. \A i \in 1 .. n : Labels(lines[i]) \in Seq(STRING)
  BY LabelsType
<1>2. p \in Added(lines, n) <=> \E i \in 1 .. n : p \in Paths(Labels(lines[i]))
  BY DEF Added
<1> QED
  BY <1>1, <1>2, PathsArePrefixes

\* add_domain adds the next line.
LEMMA AddedNext ==
  ASSUME NEW lines \in Seq(Domain), NEW n \in 0 .. Len(lines), n < Len(lines)
  PROVE  add_domain(Added(lines, n), lines[n + 1]) = Added(lines, n + 1)
<1>1. 1 .. (n + 1) = (1 .. n) \cup {n + 1}
  OBVIOUS
<1> QED
  BY <1>1 DEF Added, add_domain

\* The lookup agrees with the list: every name of a listed domain is found when
\* no domain of the list is below another, and a name that is found is that of a
\* listed domain or above one.
LEMMA ContainsIsListed ==
  ASSUME NEW lines \in Seq(Domain), NEW d \in Domain
  PROVE  /\ Flat(lines) /\ Listed(lines, d) => contains(Added(lines, Len(lines)), d)
         /\ contains(Added(lines, Len(lines)), d) => Listed(lines, d) \/ Above(lines, d)
<1> DEFINE n == Len(lines)
           map == Added(lines, n)
           L(i) == Labels(lines[i])
           D == Labels(d)
<1>1. \A i \in 1 .. n : L(i) \in Seq(STRING) /\ Len(L(i)) > 0
  BY LabelsType
<1>2. D \in Seq(STRING) /\ Len(D) > 0
  BY LabelsType
<1>3. \A p : p \in map <=> p \in Seq(STRING) /\ Len(p) > 0 /\ \E i \in 1 .. n : IsPrefix(p, L(i))
  BY AddedPaths
<1>4. \A p : p \in Paths(D) <=> p \in Seq(STRING) /\ Len(p) > 0 /\ IsPrefix(p, D)
  BY <1>2, PathsArePrefixes
<1>5. contains(map, d) <=> (\E p \in Paths(D) : IsLeaf(map, p)) \/ Paths(D) \subseteq map
  BY DEF contains
<1>6. ASSUME NEW s \in Seq(STRING) PROVE IsPrefix(s, s)
  BY PrefixIsPart
<1>7. ASSUME NEW s \in Seq(STRING), NEW t \in Seq(STRING), NEW u \in Seq(STRING),
             IsPrefix(s, t), IsPrefix(t, u)
      PROVE  IsPrefix(s, u)
  BY <1>7, PrefixIsPart
<1> HIDE DEF map, L, D
<1>8. ASSUME Flat(lines), Listed(lines, d) PROVE contains(map, d)
  <2>1. PICK i \in 1 .. n : IsPrefix(L(i), D)
    BY <1>8 DEF Listed, Below, L, D
  <2>2. L(i) \in Paths(D) /\ L(i) \in map
    BY <1>1, <1>3, <1>4, <1>6, <2>1
  <2>3. ASSUME NEW p \in map, Len(p) > Len(L(i)), IsPrefix(L(i), p) PROVE FALSE
    <3>1. PICK j \in 1 .. n : p \in Seq(STRING) /\ IsPrefix(p, L(j))
      BY <1>3
    <3>2. IsPrefix(L(i), L(j))
      BY <1>1, <1>7, <2>3, <3>1
    <3>3. L(i) = L(j)
      BY <1>8, <3>2 DEF Flat, Below, L
    <3>4. Len(p) <= Len(L(j))
      BY <3>1 DEF IsPrefix
    <3> QED
      BY <1>1, <2>3, <3>1, <3>3, <3>4
  <2> QED
    BY <1>5, <2>2, <2>3 DEF IsLeaf
<1>9. ASSUME contains(map, d) PROVE Listed(lines, d) \/ Above(lines, d)
  <2>1. CASE \E p \in Paths(D) : IsLeaf(map, p)
    <3>1. PICK p \in Paths(D) : IsLeaf(map, p)
      BY <2>1
    <3>2. PICK i \in 1 .. n : p \in Seq(STRING) /\ Len(p) > 0 /\ IsPrefix(p, L(i))
      BY <1>3, <3>1 DEF IsLeaf
    <3>3. L(i) \in map
      BY <1>1, <1>3, <1>6
    <3>4. ~(Len(L(i)) > Len(p)) /\ Len(p) <= Len(L(i))
      BY <3>1, <3>2, <3>3 DEF IsLeaf, IsPrefix
    <3>5. Len(L(i)) = Len(p)
      BY <1>1, <3>2, <3>4
    <3>6. \A k \in 1 .. Len(p) : p[k] = L(i)[k]
      BY <1>1, <3>2, PrefixIsPart
    <3>7. p = L(i)
      BY <1>1, <3>2, <3>5, <3>6
    <3>8. IsPrefix(L(i), D)
      BY <1>4, <3>1, <3>7
    <3> QED
      BY <3>8 DEF Listed, Below, L, D
  <2>2. CASE Paths(D) \subseteq map
    <3>1. D \in map
      BY <1>2, <1>4, <1>6, <2>2
    <3>2. PICK i \in 1 .. n : IsPrefix(D, L(i))
      BY <1>3, <3>1
    <3> QED
      BY <3>2 DEF Above, Below, L, D
  <2> QED
    BY <1>5, <1>9, <2>1, <2>2
<1> QED
  BY <1>8, <1>9 DEF map

-----------------------------------------------------------------------------
(* Types, and what a step does to a socket *)

LEMMA StraysAreNoQuestions == \A q \in Strays : q \notin Questions \cup {Ptr}
BY QuestionsAssumption DEF Strays, Garbled, Bare, Domain

SocketsOK ==
  /\ DOMAIN sockets = Sockets
  /\ \A s \in Sockets : sockets[s] \in [in : Seq(Datagrams(s)), edge : BOOLEAN]

\* A query that can be read comes from a client, and a reply from its server.
LEMMA DatagramKinds ==
  /\ \A d \in Datagrams("local") : d.q \notin Strays => d \in [from : Clients, id : Nat, q : Questions \cup {Ptr}]
  /\ \A s \in Servers : \A d \in Datagrams(s) : d.q \notin Strays => d \in [q : Questions, records : Replies[s]]
BY DEF Datagrams, Servers

\* Reading takes the first datagram away and leaves the other sockets alone.
LEMMA TakenStep ==
  ASSUME SocketsOK, NEW s \in Sockets, sockets[s].in # <<>>, Taken(s)
  PROVE  /\ SocketsOK'
         /\ Head(sockets[s].in) \in Datagrams(s) /\ Head(sockets[s].in) = sockets[s].in[1]
         /\ Len(sockets[s].in) \in Nat /\ Len(sockets[s].in) >= 1
         /\ Len(sockets'[s].in) = Len(sockets[s].in) - 1
         /\ \A i \in 1 .. Len(sockets'[s].in) : sockets'[s].in[i] = sockets[s].in[i + 1]
         /\ \A r \in Sockets \ {s} : sockets'[r] = sockets[r]
<1> DEFINE in == sockets[s].in
<1>1. in \in Seq(Datagrams(s)) /\ in # <<>>
  BY DEF SocketsOK
<1>2. /\ Head(in) \in Datagrams(s) /\ Head(in) = in[1] /\ Len(in) \in Nat /\ Len(in) >= 1
      /\ Tail(in) \in Seq(Datagrams(s)) /\ Len(Tail(in)) = Len(in) - 1
      /\ \A i \in 1 .. Len(Tail(in)) : Tail(in)[i] = in[i + 1]
  BY <1>1
<1>3. /\ DOMAIN sockets' = Sockets /\ sockets'[s] = [sockets[s] EXCEPT !.in = Tail(in)]
      /\ \A r \in Sockets \ {s} : sockets'[r] = sockets[r]
  BY DEF SocketsOK, Taken
<1>4. sockets'[s].in = Tail(in) /\ sockets'[s] \in [in : Seq(Datagrams(s)), edge : BOOLEAN]
  BY <1>2, <1>3 DEF SocketsOK
<1> QED
  BY <1>2, <1>3, <1>4 DEF SocketsOK

\* A datagram that arrives is the last one.
LEMMA ArrivedStep ==
  ASSUME SocketsOK, NEW s \in Sockets, NEW d \in Datagrams(s), Arrived(s, d)
  PROVE  /\ SocketsOK'
         /\ Len(sockets[s].in) \in Nat
         /\ Len(sockets'[s].in) = Len(sockets[s].in) + 1
         /\ \A i \in 1 .. Len(sockets[s].in) : sockets'[s].in[i] = sockets[s].in[i]
         /\ sockets'[s].in[Len(sockets[s].in) + 1] = d
         /\ \A r \in Sockets \ {s} : sockets'[r] = sockets[r]
<1> DEFINE in == sockets[s].in
           e == sockets[s].edge \/ loop.at # s
<1>1. in \in Seq(Datagrams(s))
  BY DEF SocketsOK
<1>2. /\ Append(in, d) \in Seq(Datagrams(s)) /\ Len(in) \in Nat /\ Len(Append(in, d)) = Len(in) + 1
      /\ \A i \in 1 .. Len(in) : Append(in, d)[i] = in[i]
      /\ Append(in, d)[Len(in) + 1] = d
  BY <1>1
<1>3. /\ DOMAIN sockets' = Sockets /\ sockets'[s] = [in |-> Append(in, d), edge |-> e]
      /\ \A r \in Sockets \ {s} : sockets'[r] = sockets[r]
  BY DEF SocketsOK, Arrived
<1>4. e \in BOOLEAN
  OBVIOUS
<1>5. sockets'[s].in = Append(in, d) /\ sockets'[s] \in [in : Seq(Datagrams(s)), edge : BOOLEAN]
  BY <1>2, <1>3, <1>4
<1> QED
  BY <1>2, <1>3, <1>5 DEF SocketsOK

\* Readiness that is reported or armed again leaves the datagrams alone.
LEMMA EdgeStep ==
  ASSUME SocketsOK, NEW s \in Sockets, NEW e \in BOOLEAN,
         sockets' = [sockets EXCEPT ![s].edge = e]
  PROVE  SocketsOK' /\ \A r \in Sockets : sockets'[r].in = sockets[r].in
BY DEF SocketsOK

\* The parts of TypeOK other than the sockets.
StoreOK == DOMAIN store \subseteq Questions /\ store \in [DOMAIN store -> QueryResult]

DoneOK ==
  done \in Seq([to : Clients, id : Nat, q : Questions \cup {Ptr}, response : Responses, sent : BOOLEAN])

LoopOK ==
  /\ list \in Lists /\ line \in 0 .. Len(list)
  /\ loop \in [at : Sockets \cup {"setup", "poll", "panicked"}, now : Nat, todo : Seq(Record)]
  /\ now \in Nat

WorldOK ==
  /\ lost \subseteq Questions
  /\ inflight \in [Servers -> [Questions -> Nat]]
  /\ script \in Seq([from : Clients, q : Questions \cup {Ptr}])
  /\ asked \in [Clients -> Seq(Questions \cup {Ptr})]

LEMMA TypeParts == TypeOK <=> SocketsOK /\ StoreOK /\ DoneOK /\ LoopOK /\ WorldOK
BY DEF TypeOK, SocketsOK, StoreOK, DoneOK, LoopOK, WorldOK

\* One more entry of the log is one more place at its end.
LEMMA AnsweredStep ==
  ASSUME DoneOK, NEW to \in Clients, NEW id \in Nat, NEW q \in Questions \cup {Ptr},
         NEW response \in Responses, NEW sent \in BOOLEAN,
         done' = Answered(to, id, q, response, sent)
  PROVE  /\ DoneOK' /\ Len(done) \in Nat /\ Len(done') = Len(done) + 1
         /\ \A i \in 1 .. Len(done) : done'[i] = done[i]
         /\ done'[Len(done) + 1] = [to |-> to, id |-> id, q |-> q, response |-> response, sent |-> sent]
BY DEF DoneOK, Answered

\* Those who wait are answered at the end of the log in the order they came.
LEMMA AllAnsweredStep ==
  ASSUME DoneOK, StoreOK, NEW q \in DOMAIN store, NEW response \in Responses, NEW unsent,
         done' = AllAnswered(q, response, unsent)
  PROVE  /\ DoneOK' /\ Len(done) \in Nat /\ Len(store[q].addresses) \in Nat
         /\ Len(done') = Len(done) + Len(store[q].addresses)
         /\ \A i \in 1 .. Len(done) : done'[i] = done[i]
         /\ \A i \in 1 .. Len(store[q].addresses) :
              LET x == done'[Len(done) + i]
              IN  /\ x.to = store[q].addresses[i].from /\ x.id = store[q].addresses[i].id
                  /\ x.q = q /\ x.response = response
<1> DEFINE a == store[q].addresses
           F == [to : Clients, id : Nat, q : Questions \cup {Ptr}, response : Responses, sent : BOOLEAN]
           new == [i \in 1 .. Len(a) |-> AnswerFor(q, i, response, i \notin unsent)]
<1>1. a \in Seq([from : Clients, id : Nat]) /\ q \in Questions
  BY DEF StoreOK, QueryResult
<1>2. ASSUME NEW i \in 1 .. Len(a) PROVE AnswerFor(q, i, response, i \notin unsent) \in F
  <2>1. a[i] \in [from : Clients, id : Nat]
    BY <1>1, ElementOfSeq
  <2>2. (i \notin unsent) \in BOOLEAN
    OBVIOUS
  <2> QED
    BY <1>1, <2>1, <2>2 DEF AnswerFor
<1>3. new \in Seq(F) /\ Len(new) = Len(a) /\ Len(a) \in Nat
  BY <1>1, <1>2
<1>4. done \in Seq(F) /\ done' = done \o new
  BY DEF DoneOK, AllAnswered
<1>5. ASSUME NEW i \in 1 .. Len(a)
      PROVE  new[i].to = a[i].from /\ new[i].id = a[i].id /\ new[i].q = q /\ new[i].response = response
  BY DEF AnswerFor
<1> HIDE DEF new, F, a
<1>6. /\ done' \in Seq(F) /\ Len(done) \in Nat /\ Len(done') = Len(done) + Len(new)
      /\ \A i \in 1 .. Len(done) : done'[i] = done[i]
      /\ \A i \in 1 .. Len(new) : done'[Len(done) + i] = new[i]
  <2>1. /\ done \o new \in Seq(F) /\ Len(done \o new) = Len(done) + Len(new)
        /\ \A i \in 1 .. Len(done) + Len(new) :
             (done \o new)[i] = IF i <= Len(done) THEN done[i] ELSE new[i - Len(done)]
    BY <1>3, <1>4, ConcatProperties
  <2>2. Len(done) \in Nat /\ Len(new) \in Nat
    BY <1>3, <1>4
  <2>3. ASSUME NEW i \in 1 .. Len(new) PROVE (done \o new)[Len(done) + i] = new[i]
    BY <2>1, <2>2
  <2> QED
    BY <1>4, <2>1, <2>2, <2>3
<1>7. DoneOK'
  BY <1>6 DEF DoneOK, F
<1> QED
  BY <1>3, <1>5, <1>6, <1>7 DEF a

\* The response a server gave, and the time until which it is kept.
LEMMA UpdatedStep ==
  ASSUME StoreOK, loop.now \in Nat, NEW q \in DOMAIN store, NEW response \in Responses,
         store' = [store EXCEPT ![q] = Updated(@, response)]
  PROVE  /\ StoreOK' /\ DOMAIN store' = DOMAIN store
         /\ store'[q].addresses = <<>> /\ store'[q].response = response
         /\ \A p \in DOMAIN store \ {q} : store'[p] = store[p]
<1>1. Ttl(response.records) \in Nat
  <2>1. response.records \in Seq(Record)
    BY DEF Responses
  <2>2. CASE response.records # <<>>
    <3>1. response.records[Len(response.records)] \in Record
      BY <2>1, <2>2
    <3> QED
      BY <2>2, <3>1 DEF Ttl, Record, Last
  <2> QED
    BY <2>2 DEF Ttl
<1>2. store[q] \in QueryResult
  BY DEF StoreOK
<1>3. loop.now + Ttl(response.records) \in Nat /\ <<>> \in Seq([from : Clients, id : Nat])
  BY <1>1
<1>4. /\ Updated(store[q], response) \in QueryResult
      /\ Updated(store[q], response).addresses = <<>> /\ Updated(store[q], response).response = response
  BY <1>2, <1>3 DEF Updated, QueryResult
<1> QED
  BY <1>4 DEF StoreOK

\* Who asks is recorded behind those who wait already.
LEMMA RequestStep ==
  ASSUME StoreOK, now \in Nat, NEW q \in Questions, NEW from \in Clients, NEW id \in Nat,
         store' = add_request(q, from, id)
  PROVE  /\ StoreOK' /\ DOMAIN store' = DOMAIN store \cup {q}
         /\ \A p \in DOMAIN store \ {q} : store'[p] = store[p]
         /\ q \in DOMAIN store =>
              /\ store'[q].addresses = Append(store[q].addresses, [from |-> from, id |-> id])
              /\ store'[q].response = store[q].response
         /\ q \notin DOMAIN store =>
              /\ store'[q].addresses = <<[from |-> from, id |-> id]>>
              /\ store'[q].response = NoResponse
<1> DEFINE old == IF q \in DOMAIN store THEN store[q]
                  ELSE [addresses |-> <<>>, response |-> NoResponse, expire_time |-> now + CacheTime]
           w == [from |-> from, id |-> id]
           new == [old EXCEPT !.addresses = Append(@, w)]
<1>1. NoResponse \in Responses
  BY DEF NoResponse, Responses
<1>2. old \in QueryResult
  <2>1. <<>> \in Seq([from : Clients, id : Nat]) /\ now + CacheTime \in Nat
    BY OptionAssumption
  <2> QED
    BY <1>1, <2>1 DEF StoreOK, QueryResult
<1>3. new \in QueryResult /\ new.addresses = Append(old.addresses, w) /\ new.response = old.response
  <2>1. w \in [from : Clients, id : Nat]
    OBVIOUS
  <2>2. Append(old.addresses, w) \in Seq([from : Clients, id : Nat])
    BY <1>2, <2>1 DEF QueryResult
  <2> HIDE DEF old, w
  <2> QED
    BY <1>2, <2>2 DEF QueryResult
<1>4. store' = [p \in DOMAIN store \cup {q} |-> IF p = q THEN new ELSE store[p]]
  BY DEF add_request
<1>5. /\ q \in DOMAIN store => old = store[q]
      /\ q \notin DOMAIN store => old.addresses = <<>> /\ old.response = NoResponse
  OBVIOUS
<1> HIDE DEF old, w, new
<1>6. /\ DOMAIN store' = DOMAIN store \cup {q} /\ store'[q] = new
      /\ \A p \in DOMAIN store \ {q} : store'[p] = store[p]
  BY <1>4
<1>7. StoreOK'
  BY <1>3, <1>4, <1>6 DEF StoreOK
<1>8. Append(<<>>, w) = <<w>>
  OBVIOUS
<1> QED
  BY <1>3, <1>5, <1>6, <1>7, <1>8 DEF w

\* The query or the reply that a handler has just received.
Query == Head(sockets["local"].in)

\* A query passed on leaves the counters counters.
LEMMA ForwardedStep ==
  ASSUME inflight \in [Servers -> [Questions -> Nat]], NEW q \in Questions, Forwarded(q)
  PROVE  /\ inflight' \in [Servers -> [Questions -> Nat]]
         /\ \A s \in Servers, p \in Questions :
              inflight'[s][p] > 0 =>
                \/ inflight[s][p] > 0
                \/ p = q /\ s = IF is_blocked(q.name) THEN "trusted" ELSE "poisoned"
<1> DEFINE t == IF is_blocked(q.name) THEN "trusted" ELSE "poisoned"
<1>1. t \in Servers
  BY DEF Servers
<1>2. inflight' = [inflight EXCEPT ![t][q] = @ + 1]
  BY DEF Forwarded
<1> HIDE DEF t
<1>3. inflight' \in [Servers -> [Questions -> Nat]]
  BY <1>1, <1>2
<1>4. \A s \in Servers, p \in Questions : inflight'[s][p] > 0 => inflight[s][p] > 0 \/ (p = q /\ s = t)
  BY <1>1, <1>2
<1> QED
  BY <1>3, <1>4 DEF t

\* Every step of the relay and of the world around it keeps the types.
LEMMA TypeStep == TypeOK /\ [Next]_vars => TypeOK'
<1> SUFFICES ASSUME TypeOK, [Next]_vars PROVE TypeOK'
  OBVIOUS
<1> USE TypeParts
<1>1. /\ SocketsOK /\ StoreOK /\ DoneOK /\ LoopOK /\ WorldOK
      /\ "local" \in Sockets /\ Servers \subseteq Sockets
  BY DEF Sockets
<1>2. CASE AddLine
  <2>1. LoopOK'
    BY <1>1, <1>2, ListsAssumption DEF AddLine, LoopOK
  <2> QED
    BY <1>1, <1>2, <2>1 DEF AddLine, world, SocketsOK, StoreOK, DoneOK, WorldOK, TypeOK
<1>3. CASE SetupEnds
  BY <1>1, <1>3 DEF SetupEnds, server, names, world, SocketsOK, StoreOK, DoneOK, WorldOK, LoopOK, TypeOK
<1>4. ASSUME NEW s \in Sockets, ready(s) PROVE TypeOK'
  <2>1. SocketsOK'
    BY <1>1, <1>4, EdgeStep DEF ready
  <2>2. LoopOK'
    BY <1>1, <1>4 DEF ready, server, names, LoopOK
  <2> QED
    BY <1>1, <1>4, <2>1, <2>2 DEF ready, server, world, StoreOK, DoneOK, WorldOK, TypeOK, SocketsOK, LoopOK
<1>5. ASSUME NEW s \in Sockets, Drained(s) PROVE TypeOK'
  BY <1>1, <1>5 DEF Drained, server, names, world, SocketsOK, StoreOK, DoneOK, WorldOK, LoopOK, TypeOK
<1>6. ASSUME NEW s \in Sockets, Ignore(s) \/ Panic(s) PROVE TypeOK'
  <2>1. SocketsOK'
    BY <1>1, <1>6, TakenStep DEF Ignore, Panic
  <2>2. LoopOK'
    BY <1>1, <1>6 DEF Ignore, Panic, server, names, LoopOK
  <2> QED
    BY <1>1, <1>6, <2>1, <2>2 DEF Ignore, Panic, server, names, world, StoreOK, DoneOK, WorldOK, TypeOK, SocketsOK, LoopOK
<1>7. ASSUME NEW s \in Sockets, RecvFails(s) PROVE TypeOK'
  <2>1. sockets' = [sockets EXCEPT ![s].edge = sockets[s].in # <<>>]
    BY <1>1, <1>7 DEF RecvFails, Reregistered
  <2>2. (sockets[s].in # <<>>) \in BOOLEAN
    OBVIOUS
  <2>3. SocketsOK'
    BY <1>1, <2>1, <2>2, EdgeStep
  <2> QED
    BY <1>1, <1>7, <2>3 DEF RecvFails, server, names, world, StoreOK, DoneOK, WorldOK, TypeOK, SocketsOK, LoopOK
<1>8. ASSUME NEW s \in Sockets, Garbage(s) PROVE TypeOK'
  <2>1. PICK q \in Strays : Arrived(s, [q |-> q])
    BY <1>8 DEF Garbage
  <2>2. [q |-> q] \in Datagrams(s)
    BY DEF Datagrams
  <2>3. SocketsOK'
    BY <1>1, <2>1, <2>2, ArrivedStep
  <2> QED
    BY <1>1, <1>8, <2>3 DEF Garbage, server, names, world, StoreOK, DoneOK, WorldOK, TypeOK, SocketsOK, LoopOK
<1>9. CASE Tick
  BY <1>1, <1>9 DEF Tick, server, names, world, SocketsOK, StoreOK, DoneOK, WorldOK, LoopOK, TypeOK
<1>10. ASSUME NEW s \in Servers, NEW q \in Questions, Lose(s, q) \/ Double(s, q) PROVE TypeOK'
  <2>1. inflight[s][q] \in Nat /\ inflight[s][q] > 0
    BY <1>1, <1>10 DEF Lose, Double, WorldOK
  <2>2. PICK n \in Nat : inflight' = [inflight EXCEPT ![s][q] = n]
    BY <1>10, <2>1 DEF Lose, Double
  <2>3. inflight' \in [Servers -> [Questions -> Nat]]
    BY <1>1, <2>2 DEF WorldOK
  <2>4. lost' \subseteq Questions
    BY <1>1, <1>10 DEF Lose, Double, WorldOK
  <2> QED
    BY <1>1, <1>10, <2>3, <2>4 DEF Lose, Double, server, names, SocketsOK, StoreOK, DoneOK, WorldOK, LoopOK, TypeOK
<1>11. ASSUME NEW s \in Servers, NEW q \in Questions, Reply(s, q) PROVE TypeOK'
  <2>1. inflight' \in [Servers -> [Questions -> Nat]]
    BY <1>1, <1>11 DEF Reply, WorldOK
  <2>2. PICK records \in Replies[s] : Arrived(s, [q |-> q, records |-> records])
    BY <1>11 DEF Reply
  <2>3. [q |-> q, records |-> records] \in Datagrams(s)
    BY DEF Datagrams, Servers
  <2>4. SocketsOK'
    BY <1>1, <2>2, <2>3, ArrivedStep
  <2> QED
    BY <1>1, <1>11, <2>1, <2>4 DEF Reply, server, names, SocketsOK, StoreOK, DoneOK, WorldOK, LoopOK, TypeOK
<1>12. CASE Ask
  <2> DEFINE c == Head(script).from
             q == Head(script).q
  <2>1. c \in Clients /\ q \in Questions \cup {Ptr} /\ Tail(script) \in Seq([from : Clients, q : Questions \cup {Ptr}])
    <3>1. script # <<>> /\ script \in Seq([from : Clients, q : Questions \cup {Ptr}])
      BY <1>1, <1>12 DEF Ask, WorldOK
    <3>2. Head(script) \in [from : Clients, q : Questions \cup {Ptr}]
      BY <3>1, HeadTailProperties
    <3> QED
      BY <3>1, <3>2
  <2>2. [from |-> c, id |-> Len(asked[c]) + 1, q |-> q] \in Datagrams("local")
    BY <1>1, <2>1 DEF Datagrams, WorldOK
  <2>3. SocketsOK'
    BY <1>1, <1>12, <2>2, ArrivedStep DEF Ask
  <2>4. asked' = [asked EXCEPT ![c] = Append(@, q)] /\ script' = Tail(script)
    BY <1>12 DEF Ask
  <2>5. asked' \in [Clients -> Seq(Questions \cup {Ptr})]
    BY <1>1, <2>1, <2>4 DEF WorldOK
  <2>6. WorldOK'
    BY <1>1, <1>12, <2>1, <2>4, <2>5 DEF Ask, WorldOK
  <2> QED
    <3>1. StoreOK' /\ DoneOK' /\ LoopOK'
      BY <1>1, <1>12 DEF Ask, server, names, StoreOK, DoneOK, LoopOK
    <3> QED
      BY <2>3, <2>6, <3>1 DEF StoreOK, DoneOK, LoopOK, SocketsOK, WorldOK, TypeOK
<1>13. CASE AnswerPtr
  <2>1. SocketsOK' /\ Query \in Datagrams("local") /\ Query.q = Ptr
    BY <1>1, <1>13, TakenStep DEF AnswerPtr, Query
  <2>2. Query.from \in Clients
    BY <2>1, StraysAreNoQuestions, DatagramKinds
  <2>3. PICK sent \in BOOLEAN : done' = Answered(Query.from, arp_data.id, arp_data.q, arp_data.response, sent)
    BY <1>13 DEF AnswerPtr, Query
  <2>4. arp_data.id \in Nat /\ arp_data.q \in Questions \cup {Ptr} /\ arp_data.response \in Responses
    BY DEF arp_data, NoResponse, Responses
  <2>5. DoneOK'
    BY <1>1, <2>2, <2>3, <2>4, AnsweredStep
  <2> QED
    BY <1>1, <1>13, <2>1, <2>5 DEF AnswerPtr, server, names, SocketsOK, StoreOK, DoneOK, WorldOK, LoopOK, TypeOK
<1>14. CASE AnswerCached
  <2>1. SocketsOK' /\ Query \in Datagrams("local") /\ Query.q \in DOMAIN store
    BY <1>1, <1>14, TakenStep DEF AnswerCached, Query, HasResponse
  <2>2. Query.q \in Questions /\ Query.from \in Clients /\ Query.id \in Nat
    BY <1>1, <2>1, StraysAreNoQuestions, DatagramKinds DEF StoreOK
  <2>3. PICK sent \in BOOLEAN : done' = Answered(Query.from, Query.id, Query.q, store[Query.q].response, sent)
    BY <1>14 DEF AnswerCached, Query
  <2>4. store[Query.q].response \in Responses
    BY <1>1, <2>1 DEF StoreOK, QueryResult
  <2>5. DoneOK'
    BY <1>1, <2>2, <2>3, <2>4, AnsweredStep
  <2>6. Forwarded(Query.q) \/ UNCHANGED inflight
    BY <1>14 DEF AnswerCached, Query
  <2>7. inflight' \in [Servers -> [Questions -> Nat]]
    BY <1>1, <2>2, <2>6, ForwardedStep DEF WorldOK
  <2> QED
    BY <1>1, <1>14, <2>1, <2>5, <2>7 DEF AnswerCached, server, names, SocketsOK, StoreOK, DoneOK, WorldOK, LoopOK, TypeOK
<1>15. CASE AskServer
  <2>1. lost' \subseteq Questions
    BY <1>1, <1>15 DEF AskServer, WorldOK
  <2>2. SocketsOK' /\ Query \in Datagrams("local") /\ Query.q \in Questions
    BY <1>1, <1>15, TakenStep DEF AskServer, Query
  <2>3. Query.from \in Clients /\ Query.id \in Nat
    BY <2>2, StraysAreNoQuestions, DatagramKinds
  <2>4. \/ /\ Forwarded(Query.q) /\ store' = add_request(Query.q, Query.from, Query.id)
           /\ UNCHANGED done
        \/ done' = Answered(Query.from, Query.id, Query.q, NoResponse, FALSE) /\ UNCHANGED <<inflight, store>>
    BY <1>15 DEF AskServer, Query
  <2>5. CASE Forwarded(Query.q) /\ store' = add_request(Query.q, Query.from, Query.id) /\ UNCHANGED done
    <3>1. StoreOK'
      BY <1>1, <2>2, <2>3, <2>5, RequestStep DEF LoopOK
    <3>2. inflight' \in [Servers -> [Questions -> Nat]]
      BY <1>1, <2>2, <2>5, ForwardedStep DEF WorldOK
    <3> QED
      BY <1>1, <1>15, <2>1, <2>2, <2>5, <3>1, <3>2 DEF AskServer, names, SocketsOK, StoreOK, DoneOK, WorldOK, LoopOK, TypeOK
  <2>6. CASE done' = Answered(Query.from, Query.id, Query.q, NoResponse, FALSE) /\ UNCHANGED <<inflight, store>>
    <3>1. NoResponse \in Responses
      BY DEF NoResponse, Responses
    <3>2. DoneOK'
      BY <1>1, <2>2, <2>3, <2>6, <3>1, AnsweredStep
    <3> QED
      BY <1>1, <1>15, <2>1, <2>2, <2>6, <3>2 DEF AskServer, names, SocketsOK, StoreOK, DoneOK, WorldOK, LoopOK, TypeOK
  <2> QED
    BY <2>4, <2>5, <2>6
<1>16. ASSUME NEW s \in Servers, HandleReply(s) PROVE TypeOK'
  <2> DEFINE d == Head(sockets[s].in)
             response == [src |-> s, records |-> d.records]
  <2>1. SocketsOK' /\ d \in Datagrams(s) /\ d.q \notin Strays
    BY <1>1, <1>16, TakenStep DEF HandleReply
  <2>2. d.q \in Questions /\ d.records \in Replies[s]
    BY <2>1, DatagramKinds
  <2>3. response \in Responses
    BY <2>2, RepliesAssumption DEF Responses
  <2>4. \/ /\ d.q \in DOMAIN store /\ \E unsent : done' = AllAnswered(d.q, response, unsent)
           /\ store' = [store EXCEPT ![d.q] = Updated(@, response)]
        \/ UNCHANGED <<done, store>>
    BY <1>16 DEF HandleReply
  <2> HIDE DEF response, d
  <2>5. DoneOK'
    BY <1>1, <2>3, <2>4, AllAnsweredStep DEF DoneOK
  <2>6. StoreOK'
    BY <1>1, <2>3, <2>4, UpdatedStep DEF StoreOK, LoopOK
  <2>7. LoopOK'
    <3>1. RoutesFor(s, d.records) \in Seq(Record)
      BY <2>2, RepliesAssumption DEF RoutesFor
    <3>2. loop' = loop \/ loop' = [loop EXCEPT !.todo = RoutesFor(s, d.records)]
      BY <1>16 DEF HandleReply, d
    <3> QED
      BY <1>1, <1>16, <3>1, <3>2 DEF HandleReply, names, LoopOK
  <2> QED
    BY <1>1, <1>16, <2>1, <2>5, <2>6, <2>7 DEF HandleReply, names, SocketsOK, StoreOK, DoneOK, WorldOK, LoopOK, TypeOK
<1>17. CASE RouteNext
  <2>1. loop.todo \in Seq(Record) /\ loop.todo # <<>>
    BY <1>1, <1>17 DEF RouteNext, LoopOK
  <2>2. Tail(loop.todo) \in Seq(Record) /\ loop' = [loop EXCEPT !.todo = Tail(loop.todo)]
    BY <1>17, <2>1 DEF RouteNext
  <2>3. LoopOK'
    BY <1>1, <1>17, <2>2 DEF RouteNext, names, LoopOK
  <2> QED
    BY <1>1, <1>17, <2>3 DEF RouteNext, names, world, SocketsOK, StoreOK, DoneOK, WorldOK, LoopOK, TypeOK
<1>18. CASE UNCHANGED vars
  BY <1>1, <1>18 DEF vars, server, names, world, SocketsOK, StoreOK, DoneOK, WorldOK, LoopOK, TypeOK
<1> QED
  BY <1>2, <1>3, <1>4, <1>5, <1>6, <1>7, <1>8, <1>9, <1>10, <1>11, <1>12, <1>13, <1>14, <1>15, <1>16, <1>18, <1>17
  DEF Next, Relay

\* Every variable of the relay keeps its type.
THEOREM TypeCorrect == Spec => []TypeOK
<1>1. Init => TypeOK
  <2> SUFFICES ASSUME Init PROVE TypeOK
    OBVIOUS
  <2>1. SocketsOK
    BY DEF Init, SocketsOK, Datagrams
  <2>2. StoreOK /\ DoneOK /\ LoopOK
    BY ListsAssumption DEF Init, StoreOK, DoneOK, LoopOK, QueryResult
  <2>3. WorldOK
    <3>1. script \in Seq([from : Clients, q : Questions \cup {Ptr}])
      BY ScriptsAssumption DEF Init
    <3>2. asked \in [Clients -> Seq(Questions \cup {Ptr})]
      BY DEF Init
    <3>3. inflight \in [Servers -> [Questions -> Nat]]
      BY DEF Init
    <3>4. lost \subseteq Questions
      BY DEF Init
    <3> QED
      BY <3>1, <3>2, <3>3, <3>4 DEF WorldOK
  <2> QED
    BY <2>1, <2>2, <2>3, TypeParts
<1> QED
  BY <1>1, TypeStep, PTL DEF Spec

-----------------------------------------------------------------------------
(* What a step does to the queries: each is at a position of the local      *)
(* socket, of those who wait for its question, or of the log.               *)

In == sockets["local"].in

TakesQuery ==
  /\ Len(In) \in Nat \ {0} /\ Len(In') = Len(In) - 1
  /\ \A i \in 1 .. Len(In') : In'[i] = In[i + 1]

AddsDatagram ==
  /\ Len(In) \in Nat /\ Len(In') = Len(In) + 1
  /\ \A i \in 1 .. Len(In) : In'[i] = In[i]

Logs(n) ==
  /\ Len(done) \in Nat /\ n \in Nat /\ Len(done') = Len(done) + n
  /\ \A i \in 1 .. Len(done) : done'[i] = done[i]

Quiet == In' = In /\ UNCHANGED <<store, done, asked>>

\* A datagram that is no query for a server is taken.
Drops ==
  /\ TakesQuery /\ In[1].q \notin Questions
  /\ UNCHANGED <<store, asked>>
  /\ done' = done \/ (Logs(1) /\ done'[Len(done) + 1].q = Ptr)

\* A query is taken and dealt with at once.
Closes ==
  /\ TakesQuery /\ In[1].q \in Questions
  /\ UNCHANGED <<store, asked>>
  /\ Logs(1)
  /\ LET a == done'[Len(done) + 1]
     IN  a.to = In[1].from /\ a.id = In[1].id /\ a.q = In[1].q

\* A query for q is taken and has to wait.
Queues(q) ==
  /\ TakesQuery /\ In[1].q = q
  /\ UNCHANGED <<done, asked>>
  /\ DOMAIN store' = DOMAIN store \cup {q}
  /\ \A p \in DOMAIN store \ {q} : store'[p] = store[p]
  /\ LET n == IF q \in DOMAIN store THEN Len(store[q].addresses) ELSE 0
     IN  /\ n \in Nat /\ Len(store'[q].addresses) = n + 1
         /\ \A i \in 1 .. n : store'[q].addresses[i] = store[q].addresses[i]
         /\ store'[q].addresses[n + 1].from = In[1].from /\ store'[q].addresses[n + 1].id = In[1].id

\* All who wait for q are dealt with.
Flushes(q) ==
  /\ In' = In /\ UNCHANGED asked
  /\ q \in DOMAIN store /\ DOMAIN store' = DOMAIN store
  /\ store'[q].addresses = <<>> /\ \A p \in DOMAIN store \ {q} : store'[p] = store[p]
  /\ Logs(Len(store[q].addresses))
  /\ \A i \in 1 .. Len(store[q].addresses) :
       LET a == done'[Len(done) + i]
       IN  a.to = store[q].addresses[i].from /\ a.id = store[q].addresses[i].id /\ a.q = q

\* A client asks.
Asks(c, q) ==
  /\ AddsDatagram /\ UNCHANGED <<store, done>>
  /\ Len(asked[c]) \in Nat
  /\ asked' = [asked EXCEPT ![c] = Append(@, q)]
  /\ LET d == In'[Len(In) + 1] IN d.from = c /\ d.id = Len(asked[c]) + 1 /\ d.q = q

Litters ==
  /\ AddsDatagram /\ UNCHANGED <<store, done, asked>>
  /\ In'[Len(In) + 1].q \in Strays

\* Every step of the relay is one of these.
LEMMA StepKinds ==
  TypeOK /\ [Next]_vars =>
    \/ Quiet \/ Drops \/ Closes \/ Litters
    \/ \E q \in Questions : Queues(q) \/ Flushes(q)
    \/ \E c \in Clients, q \in Questions \cup {Ptr} : Asks(c, q)
<1> SUFFICES ASSUME TypeOK, [Next]_vars
             PROVE  \/ Quiet \/ Drops \/ Closes \/ Litters
                    \/ \E q \in Questions : Queues(q) \/ Flushes(q)
                    \/ \E c \in Clients, q \in Questions \cup {Ptr} : Asks(c, q)
  OBVIOUS
<1>1. /\ SocketsOK /\ StoreOK /\ DoneOK /\ LoopOK /\ WorldOK
      /\ "local" \in Sockets /\ Servers \subseteq Sockets /\ "local" \notin Servers
  BY TypeParts DEF Sockets, Servers
<1>2. CASE AddLine \/ SetupEnds \/ RouteNext \/ Tick \/ UNCHANGED vars
  BY <1>2 DEF AddLine, SetupEnds, RouteNext, Tick, vars, server, world, Quiet, In
<1>3. ASSUME NEW s \in Sockets, ready(s) PROVE Quiet
  <2>1. In' = In
    BY <1>1, <1>3, EdgeStep DEF ready, In
  <2> QED
    BY <1>3, <2>1 DEF ready, server, world, Quiet
<1>4. ASSUME NEW s \in Sockets, Drained(s) PROVE Quiet
  BY <1>4 DEF Drained, server, world, Quiet, In
<1>5. ASSUME NEW s \in Sockets, RecvFails(s) PROVE Quiet
  <2>1. sockets' = [sockets EXCEPT ![s].edge = sockets[s].in # <<>>]
    BY <1>1, <1>5 DEF RecvFails, Reregistered
  <2>2. (sockets[s].in # <<>>) \in BOOLEAN
    OBVIOUS
  <2>3. In' = In
    BY <1>1, <2>1, <2>2, EdgeStep DEF In
  <2> QED
    BY <1>5, <2>3 DEF RecvFails, server, world, Quiet
<1>6. ASSUME NEW s \in Sockets, Ignore(s) \/ Panic(s) PROVE Quiet \/ Drops
  <2>1. CASE s = "local"
    <3>1. TakesQuery /\ In[1].q \in Strays
      BY <1>1, <1>6, <2>1, TakenStep DEF Ignore, InvalidRequest, Panic, TakesQuery, In
    <3> QED
      BY <1>6, <3>1, StraysAreNoQuestions DEF Ignore, Panic, server, world, Drops
  <2>2. CASE s # "local"
    <3>1. In' = In
      BY <1>1, <1>6, <2>2, TakenStep DEF Ignore, Panic, In
    <3> QED
      BY <1>6, <3>1 DEF Ignore, Panic, server, world, Quiet
  <2> QED
    BY <2>1, <2>2
<1>7. ASSUME NEW s \in Sockets, Garbage(s) PROVE Quiet \/ Litters
  <2>1. PICK q \in Strays : Arrived(s, [q |-> q]) /\ [q |-> q] \in Datagrams(s)
    BY <1>7 DEF Garbage, Datagrams
  <2>2. CASE s = "local"
    <3>1. AddsDatagram /\ In'[Len(In) + 1] = [q |-> q]
      BY <1>1, <2>1, <2>2, ArrivedStep DEF AddsDatagram, In
    <3> QED
      BY <1>7, <3>1 DEF Garbage, server, world, Litters
  <2>3. CASE s # "local"
    <3>1. In' = In
      BY <1>1, <2>1, <2>3, ArrivedStep DEF In
    <3> QED
      BY <1>7, <3>1 DEF Garbage, server, world, Quiet
  <2> QED
    BY <2>2, <2>3
<1>8. ASSUME NEW s \in Servers, NEW q \in Questions, Lose(s, q) \/ Double(s, q) PROVE Quiet
  BY <1>8 DEF Lose, Double, server, Quiet, In
<1>9. ASSUME NEW s \in Servers, NEW q \in Questions, Reply(s, q) PROVE Quiet
  <2>1. PICK records \in Replies[s] : Arrived(s, [q |-> q, records |-> records])
    BY <1>9 DEF Reply
  <2>2. [q |-> q, records |-> records] \in Datagrams(s)
    BY DEF Datagrams, Servers
  <2>3. In' = In
    BY <1>1, <2>1, <2>2, ArrivedStep DEF In
  <2> QED
    BY <1>9, <2>3 DEF Reply, server, Quiet
<1>10. ASSUME Ask PROVE \E c \in Clients, q \in Questions \cup {Ptr} : Asks(c, q)
  <2> DEFINE c == Head(script).from
             q == Head(script).q
             d == [from |-> c, id |-> Len(asked[c]) + 1, q |-> q]
  <2>1. script # <<>> /\ script \in Seq([from : Clients, q : Questions \cup {Ptr}])
    BY <1>1, <1>10 DEF Ask, WorldOK
  <2>2. Head(script) \in [from : Clients, q : Questions \cup {Ptr}]
    BY <2>1, HeadTailProperties
  <2>3. c \in Clients /\ q \in Questions \cup {Ptr}
    BY <2>2
  <2>4. Len(asked[c]) \in Nat
    BY <1>1, <2>3 DEF WorldOK
  <2>5. d \in Datagrams("local")
    BY <2>3, <2>4 DEF Datagrams
  <2>6. Arrived("local", d) /\ asked' = [asked EXCEPT ![c] = Append(@, q)]
    BY <1>10 DEF Ask
  <2> HIDE DEF c, q
  <2>7. AddsDatagram /\ In'[Len(In) + 1] = d
    BY <1>1, <2>5, <2>6, ArrivedStep DEF AddsDatagram, In
  <2>8. Asks(c, q)
    <3>1. UNCHANGED <<store, done>>
      BY <1>10 DEF Ask, server
    <3> QED
      BY <2>4, <2>6, <2>7, <3>1 DEF Asks
  <2> QED
    BY <2>3, <2>8
<1>11. ASSUME AnswerPtr PROVE Drops
  <2>1. TakesQuery /\ Query \in Datagrams("local") /\ Query = In[1] /\ Query.q = Ptr
    BY <1>1, <1>11, TakenStep DEF AnswerPtr, Query, In, TakesQuery
  <2>2. Query.from \in Clients
    BY <2>1, StraysAreNoQuestions, DatagramKinds
  <2>3. PICK sent \in BOOLEAN : done' = Answered(Query.from, arp_data.id, arp_data.q, arp_data.response, sent)
    BY <1>11 DEF AnswerPtr, Query
  <2>4. PICK id \in Nat, q \in Questions \cup {Ptr}, r \in Responses :
          id = arp_data.id /\ q = arp_data.q /\ r = arp_data.response
    <3>1. arp_data.id \in Nat /\ arp_data.q \in Questions \cup {Ptr} /\ arp_data.response \in Responses
      BY DEF arp_data, NoResponse, Responses
    <3> QED
      BY <3>1, Zenon
  <2>5. Logs(1) /\ done'[Len(done) + 1].q = Ptr
    <3>1. done' = Answered(Query.from, id, q, r, sent)
      BY <2>3, <2>4
    <3>2. /\ Len(done) \in Nat /\ Len(done') = Len(done) + 1
          /\ \A i \in 1 .. Len(done) : done'[i] = done[i]
          /\ done'[Len(done) + 1] = [to |-> Query.from, id |-> id, q |-> q, response |-> r, sent |-> sent]
      BY <1>1, <2>2, <3>1, AnsweredStep, ZenonT(60)
    <3>3. q = Ptr
      BY <2>4 DEF arp_data
    <3> QED
      BY <3>2, <3>3 DEF Logs
  <2> QED
    BY <1>11, <2>1, <2>5, QuestionsAssumption DEF AnswerPtr, server, Drops
<1>12. ASSUME AnswerCached PROVE Closes
  <2>1. TakesQuery /\ Query \in Datagrams("local") /\ Query = In[1] /\ Query.q \in Questions
    BY <1>1, <1>12, TakenStep DEF AnswerCached, Query, In, TakesQuery
  <2>2. Query.from \in Clients /\ Query.id \in Nat
    BY <2>1, StraysAreNoQuestions, DatagramKinds
  <2>3. PICK sent \in BOOLEAN : done' = Answered(Query.from, Query.id, Query.q, store[Query.q].response, sent)
    BY <1>12 DEF AnswerCached, Query
  <2>4. store[Query.q].response \in Responses
    BY <1>1, <1>12 DEF AnswerCached, HasResponse, Query, StoreOK, QueryResult
  <2>5. Logs(1) /\ LET a == done'[Len(done) + 1] IN a.to = Query.from /\ a.id = Query.id /\ a.q = Query.q
    <3>1. /\ Len(done) \in Nat /\ Len(done') = Len(done) + 1
          /\ \A i \in 1 .. Len(done) : done'[i] = done[i]
          /\ done'[Len(done) + 1] = [to |-> Query.from, id |-> Query.id, q |-> Query.q,
                                     response |-> store[Query.q].response, sent |-> sent]
      BY <1>1, <2>1, <2>2, <2>3, <2>4, AnsweredStep
    <3> QED
      BY <3>1 DEF Logs
  <2> QED
    BY <1>12, <2>1, <2>5 DEF AnswerCached, server, Closes
<1>13. ASSUME AskServer PROVE Closes \/ \E q \in Questions : Queues(q)
  <2>1. TakesQuery /\ Query \in Datagrams("local") /\ Query = In[1] /\ Query.q \in Questions
    BY <1>1, <1>13, TakenStep DEF AskServer, Query, In, TakesQuery
  <2>2. Query.from \in Clients /\ Query.id \in Nat
    BY <2>1, StraysAreNoQuestions, DatagramKinds
  <2>3. \/ store' = add_request(Query.q, Query.from, Query.id) /\ UNCHANGED done
        \/ /\ \E sent \in BOOLEAN : done' = Answered(Query.from, Query.id, Query.q, NoResponse, sent)
           /\ UNCHANGED store
    BY <1>13 DEF AskServer, Query
  <2>4. CASE store' = add_request(Query.q, Query.from, Query.id) /\ UNCHANGED done
    <3>1. PICK q \in Questions : q = Query.q
      BY <2>1
    <3> DEFINE w == [from |-> Query.from, id |-> Query.id]
    <3>2. store' = add_request(q, Query.from, Query.id) /\ now \in Nat
      BY <1>1, <2>4, <3>1 DEF LoopOK
    <3>3. /\ DOMAIN store' = DOMAIN store \cup {q}
          /\ \A p \in DOMAIN store \ {q} : store'[p] = store[p]
          /\ q \in DOMAIN store => store'[q].addresses = Append(store[q].addresses, w)
          /\ q \notin DOMAIN store => store'[q].addresses = <<w>>
      BY <1>1, <2>2, <3>2, RequestStep
    <3>4. ASSUME q \in DOMAIN store
          PROVE  LET n == Len(store[q].addresses)
                 IN  /\ n \in Nat /\ Len(store'[q].addresses) = n + 1
                     /\ \A i \in 1 .. n : store'[q].addresses[i] = store[q].addresses[i]
                     /\ store'[q].addresses[n + 1] = w
      <4>1. store[q].addresses \in Seq([from : Clients, id : Nat]) /\ w \in [from : Clients, id : Nat]
        BY <1>1, <2>2, <3>4 DEF StoreOK, QueryResult
      <4> HIDE DEF w
      <4> QED
        BY <3>3, <3>4, <4>1, AppendProperties, LenProperties
    <3>5. w.from = In[1].from /\ w.id = In[1].id /\ q = In[1].q
      BY <2>1, <3>1
    <3> HIDE DEF w
    <3>6. Len(<<w>>) = 1 /\ <<w>>[1] = w
      OBVIOUS
    <3>7. q \notin DOMAIN store => Len(store'[q].addresses) = 1 /\ store'[q].addresses[1] = w
      BY <3>3, <3>6
    <3>8. LET n == IF q \in DOMAIN store THEN Len(store[q].addresses) ELSE 0
          IN  /\ n \in Nat /\ Len(store'[q].addresses) = n + 1
              /\ \A i \in 1 .. n : store'[q].addresses[i] = store[q].addresses[i]
              /\ store'[q].addresses[n + 1] = w
      <4>1. CASE q \in DOMAIN store
        BY <3>4, <4>1
      <4>2. CASE q \notin DOMAIN store
        BY <3>7, <4>2
      <4> QED
        BY <4>1, <4>2
    <3>9. UNCHANGED asked
      BY <1>13 DEF AskServer
    <3>10. Queues(q)
      BY <2>1, <2>4, <3>3, <3>5, <3>8, <3>9 DEF Queues
    <3> QED
      BY <3>10
  <2>5. CASE /\ \E sent \in BOOLEAN : done' = Answered(Query.from, Query.id, Query.q, NoResponse, sent)
             /\ UNCHANGED store
    <3>1. PICK sent \in BOOLEAN : done' = Answered(Query.from, Query.id, Query.q, NoResponse, sent)
      BY <2>5
    <3>2. NoResponse \in Responses
      BY DEF NoResponse, Responses
    <3>3. Logs(1) /\ LET a == done'[Len(done) + 1] IN a.to = Query.from /\ a.id = Query.id /\ a.q = Query.q
      <4>1. /\ Len(done) \in Nat /\ Len(done') = Len(done) + 1
            /\ \A i \in 1 .. Len(done) : done'[i] = done[i]
            /\ done'[Len(done) + 1] = [to |-> Query.from, id |-> Query.id, q |-> Query.q,
                                       response |-> NoResponse, sent |-> sent]
        BY <1>1, <2>1, <2>2, <3>1, <3>2, AnsweredStep
      <4> QED
        BY <4>1 DEF Logs
    <3> QED
      BY <1>13, <2>1, <2>5, <3>3 DEF AskServer, Closes
  <2> QED
    BY <2>3, <2>4, <2>5
<1>14. ASSUME NEW s \in Servers, HandleReply(s) PROVE Quiet \/ \E q \in Questions : Flushes(q)
  <2> DEFINE d == Head(sockets[s].in)
             response == [src |-> s, records |-> d.records]
  <2>1. In' = In /\ d \in Datagrams(s) /\ d.q \notin Strays
    BY <1>1, <1>14, TakenStep DEF HandleReply, In
  <2>2. d.q \in Questions /\ d.records \in Replies[s]
    BY <2>1, DatagramKinds
  <2>3. response \in Responses
    BY <2>2, RepliesAssumption DEF Responses
  <2>4. \/ /\ d.q \in DOMAIN store /\ \E unsent : done' = AllAnswered(d.q, response, unsent)
           /\ store' = [store EXCEPT ![d.q] = Updated(@, response)]
        \/ UNCHANGED <<done, store>>
    BY <1>14 DEF HandleReply
  <2> HIDE DEF response, d
  <2>5. CASE UNCHANGED <<done, store>>
    BY <1>14, <2>1, <2>5 DEF HandleReply, Quiet
  <2>6. CASE /\ d.q \in DOMAIN store /\ \E unsent : done' = AllAnswered(d.q, response, unsent)
             /\ store' = [store EXCEPT ![d.q] = Updated(@, response)]
    <3>1. PICK unsent : done' = AllAnswered(d.q, response, unsent)
      BY <2>6
    <3>2. /\ DOMAIN store' = DOMAIN store /\ store'[d.q].addresses = <<>>
          /\ \A p \in DOMAIN store \ {d.q} : store'[p] = store[p]
      BY <1>1, <2>3, <2>6, UpdatedStep, ZenonT(60) DEF LoopOK
    <3>3. /\ Len(done) \in Nat /\ Len(store[d.q].addresses) \in Nat
          /\ Len(done') = Len(done) + Len(store[d.q].addresses)
          /\ \A i \in 1 .. Len(done) : done'[i] = done[i]
          /\ \A i \in 1 .. Len(store[d.q].addresses) :
               LET x == done'[Len(done) + i]
               IN  /\ x.to = store[d.q].addresses[i].from /\ x.id = store[d.q].addresses[i].id
                   /\ x.q = d.q
      BY <1>1, <2>3, <2>6, <3>1, AllAnsweredStep, SMTT(30)
    <3>4. UNCHANGED asked
      BY <1>14 DEF HandleReply
    <3>5. PICK q \in Questions : q = d.q
      BY <2>2
    <3>6. Flushes(q)
      BY <2>1, <2>6, <3>2, <3>3, <3>4, <3>5 DEF Flushes, Logs
    <3> QED
      BY <3>6
  <2> QED
    BY <2>4, <2>5, <2>6
<1> QED
  BY <1>2, <1>3, <1>4, <1>5, <1>6, <1>7, <1>8, <1>9, <1>10, <1>11, <1>12, <1>13, <1>14 DEF Next, Relay

-----------------------------------------------------------------------------
(* Answers match questions *)

IsAsked(c, id, q) == id \in 1 .. Len(asked[c]) /\ asked[c][id] = q

\* Whatever is unread, waits or is dealt with was asked under its id.
Matching ==
  /\ \A i \in 1 .. Len(In) : In[i].q \notin Strays => IsAsked(In[i].from, In[i].id, In[i].q)
  /\ \A q \in DOMAIN store : \A i \in 1 .. Len(store[q].addresses) :
       IsAsked(store[q].addresses[i].from, store[q].addresses[i].id, q)
  /\ \A i \in 1 .. Len(done) : done[i].q # Ptr => IsAsked(done[i].to, done[i].id, done[i].q)

\* The types of what these are made of.
LEMMA Parts ==
  ASSUME TypeOK
  PROVE  /\ \A i \in 1 .. Len(In) : In[i].q \notin Strays => In[i].from \in Clients /\ In[i].id \in Nat
         /\ \A q \in DOMAIN store : \A i \in 1 .. Len(store[q].addresses) :
              store[q].addresses[i].from \in Clients
         /\ \A i \in 1 .. Len(done) : done[i].to \in Clients
         /\ Len(In) \in Nat /\ Len(done) \in Nat
         /\ \A q \in DOMAIN store : q \in Questions /\ Len(store[q].addresses) \in Nat
         /\ \A c \in Clients : asked[c] \in Seq(Questions \cup {Ptr})
<1>1. SocketsOK /\ StoreOK /\ DoneOK /\ WorldOK /\ "local" \in Sockets
  BY TypeParts DEF Sockets
<1>2. In \in Seq(Datagrams("local"))
  BY <1>1 DEF SocketsOK, In
<1>3. \A i \in 1 .. Len(In) : In[i] \in Datagrams("local")
  BY <1>2, ElementOfSeq
<1>4. \A i \in 1 .. Len(In) : In[i].q \notin Strays => In[i].from \in Clients /\ In[i].id \in Nat
  BY <1>3, DatagramKinds
<1>5. \A q \in DOMAIN store : store[q].addresses \in Seq([from : Clients, id : Nat])
  BY <1>1 DEF StoreOK, QueryResult
<1>6. \A q \in DOMAIN store : \A i \in 1 .. Len(store[q].addresses) :
        store[q].addresses[i] \in [from : Clients, id : Nat]
  BY <1>5, ElementOfSeq
<1>7. \A i \in 1 .. Len(done) : done[i].to \in Clients
  <2>1. \A i \in 1 .. Len(done) :
          done[i] \in [to : Clients, id : Nat, q : Questions \cup {Ptr}, response : Responses, sent : BOOLEAN]
    BY <1>1, ElementOfSeq DEF DoneOK
  <2> QED
    BY <2>1
<1>8. Len(In) \in Nat /\ Len(done) \in Nat /\ \A q \in DOMAIN store : Len(store[q].addresses) \in Nat
  BY <1>1, <1>2, <1>5, LenProperties DEF DoneOK
<1> QED
  BY <1>1, <1>4, <1>6, <1>7, <1>8 DEF StoreOK, WorldOK

\* What was asked stays asked, and the new question is asked under its id.
LEMMA AskedStays ==
  ASSUME TypeOK, NEW c \in Clients, NEW q \in Questions \cup {Ptr}, Asks(c, q)
  PROVE  /\ \A b \in Clients : \A id, p : IsAsked(b, id, p) => IsAsked(b, id, p)'
         /\ Len(asked'[c]) = Len(asked[c]) + 1 /\ asked'[c][Len(asked[c]) + 1] = q
         /\ \A b \in Clients \ {c} : asked'[b] = asked[b]
         /\ \A id \in 1 .. Len(asked[c]) : asked'[c][id] = asked[c][id]
         /\ Len(asked[c]) \in Nat
<1>1. asked[c] \in Seq(Questions \cup {Ptr}) /\ asked' = [asked EXCEPT ![c] = Append(@, q)] /\ c \in DOMAIN asked
  BY DEF TypeOK, Asks
<1>2. \A b \in Clients \ {c} : asked'[b] = asked[b]
  BY <1>1 DEF TypeOK
<1>3. /\ asked'[c] = Append(asked[c], q) /\ Len(asked[c]) \in Nat
  BY <1>1
<1>4. /\ Len(asked'[c]) = Len(asked[c]) + 1 /\ asked'[c][Len(asked[c]) + 1] = q
      /\ \A id \in 1 .. Len(asked[c]) : asked'[c][id] = asked[c][id]
  BY <1>1, <1>3
<1>5. ASSUME NEW b \in Clients, NEW id, NEW p, IsAsked(b, id, p) PROVE IsAsked(b, id, p)'
  <2>1. CASE b = c
    BY <1>3, <1>4, <1>5, <2>1 DEF IsAsked
  <2>2. CASE b # c
    BY <1>2, <1>5, <2>2 DEF IsAsked
  <2> QED
    BY <2>1, <2>2
<1> QED
  BY <1>2, <1>3, <1>4, <1>5

LEMMA MatchingStep == TypeOK /\ Matching /\ [Next]_vars => Matching'
<1> SUFFICES ASSUME TypeOK, Matching, [Next]_vars PROVE Matching'
  OBVIOUS
<1> DEFINE M1 == \A i \in 1 .. Len(In) : In[i].q \notin Strays => IsAsked(In[i].from, In[i].id, In[i].q)
           M2 == \A q \in DOMAIN store : \A i \in 1 .. Len(store[q].addresses) :
                   IsAsked(store[q].addresses[i].from, store[q].addresses[i].id, q)
           M3 == \A i \in 1 .. Len(done) : done[i].q # Ptr => IsAsked(done[i].to, done[i].id, done[i].q)
<1>1. M1 /\ M2 /\ M3
  BY DEF Matching
<1>2. ASSUME asked' = asked PROVE \A b, id, p : IsAsked(b, id, p)' <=> IsAsked(b, id, p)
  BY <1>2 DEF IsAsked
<1>3. ASSUME TakesQuery, asked' = asked PROVE M1'
  BY <1>1, <1>2, <1>3 DEF TakesQuery
<1>4. CASE Quiet
  BY <1>4 DEF Quiet, Matching, IsAsked
<1>5. CASE Drops
  <2>1. M1' /\ M2'
    BY <1>1, <1>2, <1>3, <1>5 DEF Drops
  <2>2. M3'
    BY <1>1, <1>2, <1>5 DEF Drops, Logs
  <2> QED
    BY <2>1, <2>2 DEF Matching
<1>6. CASE Closes
  <2>1. M1' /\ M2'
    BY <1>1, <1>2, <1>3, <1>6 DEF Closes
  <2>2. IsAsked(In[1].from, In[1].id, In[1].q)
    BY <1>1, <1>6, StraysAreNoQuestions DEF Closes, TakesQuery
  <2>3. M3'
    BY <1>1, <1>2, <1>6, <2>2 DEF Closes, Logs
  <2> QED
    BY <2>1, <2>3 DEF Matching
<1>7. CASE Litters
  <2>1. M1'
    BY <1>1, <1>2, <1>7 DEF Litters, AddsDatagram
  <2> QED
    BY <1>1, <1>2, <1>7, <2>1 DEF Litters, Matching
<1>8. ASSUME NEW q \in Questions, Queues(q) PROVE Matching'
  <2>1. M1' /\ M3'
    BY <1>1, <1>2, <1>3, <1>8 DEF Queues
  <2>2. IsAsked(In[1].from, In[1].id, q)
    BY <1>1, <1>8, StraysAreNoQuestions DEF Queues, TakesQuery
  <2>3. ASSUME NEW p \in DOMAIN store', NEW i \in 1 .. Len(store'[p].addresses)
        PROVE  IsAsked(store'[p].addresses[i].from, store'[p].addresses[i].id, p)
    <3>1. CASE p # q
      BY <1>1, <1>8, <2>3, <3>1 DEF Queues
    <3>2. CASE p = q
      <4>1. i \in 1 .. (Len(store'[p].addresses) - 1) \/ i = Len(store'[p].addresses)
        BY <1>8, <2>3, <3>2 DEF Queues
      <4> QED
        BY <1>1, <1>8, <2>2, <2>3, <3>2, <4>1, SMTT(30) DEF Queues
    <3> QED
      BY <3>1, <3>2
  <2>4. M2'
    BY <1>2, <1>8, <2>3 DEF Queues
  <2> QED
    BY <2>1, <2>4 DEF Matching
<1>9. ASSUME NEW q \in Questions, Flushes(q) PROVE Matching'
  <2>1. M1'
    BY <1>1, <1>2, <1>9 DEF Flushes
  <2>2. M2'
    BY <1>1, <1>2, <1>9 DEF Flushes
  <2>3. ASSUME NEW i \in 1 .. Len(done'), done'[i].q # Ptr
        PROVE  IsAsked(done'[i].to, done'[i].id, done'[i].q)
    <3>1. CASE i <= Len(done)
      BY <1>1, <1>9, <2>3, <3>1 DEF Flushes, Logs
    <3>2. CASE i > Len(done)
      <4>1. PICK j \in 1 .. Len(store[q].addresses) : i = Len(done) + j
        <5>1. i - Len(done) \in 1 .. Len(store[q].addresses) /\ i = Len(done) + (i - Len(done))
          BY <1>9, <3>2 DEF Flushes, Logs
        <5> QED
          BY <5>1
      <4> QED
        BY <1>1, <1>9, <4>1 DEF Flushes
    <3> QED
      BY <1>9, <3>1, <3>2 DEF Flushes, Logs
  <2>4. M3'
    BY <1>2, <1>9, <2>3 DEF Flushes
  <2> QED
    BY <2>1, <2>2, <2>4 DEF Matching
<1>10. ASSUME NEW c \in Clients, NEW q \in Questions \cup {Ptr}, Asks(c, q) PROVE Matching'
  <2>1. \A b \in Clients : \A id, p : IsAsked(b, id, p) => IsAsked(b, id, p)'
    BY <1>10, AskedStays
  <2>2. PICK new \in Nat : new = Len(asked[c]) + 1 /\ IsAsked(c, new, q)'
    <3>1. /\ Len(asked[c]) \in Nat /\ Len(asked'[c]) = Len(asked[c]) + 1
          /\ asked'[c][Len(asked[c]) + 1] = q
      BY <1>10, AskedStays
    <3>2. PICK n \in Nat : n = Len(asked[c]) + 1
      BY <3>1
    <3>3. IsAsked(c, n, q)'
      BY <3>1, <3>2 DEF IsAsked
    <3> QED
      BY <3>2, <3>3
  <2>3. M2'
    BY <1>1, <1>10, <2>1, Parts DEF Asks
  <2>4. M3'
    BY <1>1, <1>10, <2>1, Parts DEF Asks
  <2>5. M1'
    <3>1. ASSUME NEW i \in 1 .. Len(In'), In'[i].q \notin Strays
          PROVE  IsAsked(In[i].from, In[i].id, In[i].q)'
      <4>1. CASE i \in 1 .. Len(In)
        <5>1. PICK d : d = In[i] /\ d = In'[i]
          BY <1>10, <4>1 DEF Asks, AddsDatagram
        <5>2. d.from \in Clients /\ IsAsked(d.from, d.id, d.q)
          BY <1>1, <3>1, <4>1, <5>1, Parts
        <5>3. IsAsked(d.from, d.id, d.q)'
          BY <2>1, <5>2
        <5> QED
          BY <5>1, <5>3
      <4>2. CASE i = Len(In) + 1
        <5>1. PICK d : d = In'[i] /\ d.from = c /\ d.id = new /\ d.q = q
          BY <1>10, <2>2, <4>2 DEF Asks
        <5>2. IsAsked(d.from, d.id, d.q)'
          BY <2>2, <5>1
        <5> QED
          BY <5>1, <5>2
      <4> QED
        BY <1>10, <3>1, <4>1, <4>2 DEF Asks, AddsDatagram
    <3> QED
      BY <3>1
  <2> QED
    BY <2>3, <2>4, <2>5 DEF Matching
<1> QED
  BY <1>4, <1>5, <1>6, <1>7, <1>8, <1>9, <1>10, StepKinds

\* An answer, other than the one for the relay's own name, carries the id of a
\* query that its receiver sent for this very question, whoever's query the
\* response was fetched for.
THEOREM AnswersTheirQuestion == Spec => []AnswersMatch
<1>1. Init => Matching
  BY DEF Init, Matching, In, Sockets
<1>2. Matching => AnswersMatch
  BY DEF Matching, AnswersMatch, IsAsked
<1> QED
  BY <1>1, <1>2, TypeCorrect, MatchingStep, PTL DEF Spec

-----------------------------------------------------------------------------
(* The server that is asked *)

Chosen(q) == IF contains(Added(list, Len(list)), q.name) THEN "trusted" ELSE "poisoned"

\* The list is read before anyone is asked, and queries, replies and kept
\* responses are those of the server that it prescribes.
Choice ==
  /\ blocked_domains = Added(list, line)
  /\ loop.at # "setup" => line = Len(list)
  /\ \A s \in Servers, q \in Questions : inflight[s][q] > 0 => s = Chosen(q)
  /\ \A s \in Servers : \A i \in 1 .. Len(sockets[s].in) :
       sockets[s].in[i].q \notin Strays => s = Chosen(sockets[s].in[i].q)
  /\ \A q \in DOMAIN store : store[q].response.src \in {"none", Chosen(q)}

LEMMA ChoiceStep == TypeOK /\ Choice /\ [Next]_vars => Choice'
<1> SUFFICES ASSUME TypeOK, Choice, [Next]_vars PROVE Choice'
  OBVIOUS
<1> DEFINE C1 == blocked_domains = Added(list, line) /\ (loop.at # "setup" => line = Len(list))
           C2 == \A s \in Servers, q \in Questions : inflight[s][q] > 0 => s = Chosen(q)
           C3 == \A s \in Servers : \A i \in 1 .. Len(sockets[s].in) :
                   sockets[s].in[i].q \notin Strays => s = Chosen(sockets[s].in[i].q)
           C4 == \A q \in DOMAIN store : store[q].response.src \in {"none", Chosen(q)}
<1>1. /\ SocketsOK /\ StoreOK /\ DoneOK /\ LoopOK /\ WorldOK
      /\ "local" \in Sockets /\ Servers \subseteq Sockets /\ "local" \notin Servers
      /\ \A s \in Sockets : s # "setup"
  BY TypeParts DEF Sockets, Servers
<1>2. C1 /\ C2 /\ C3 /\ C4
  BY DEF Choice
<1>3. list' = list
  BY DEF Next, Relay, AddLine, SetupEnds, ready, Drained, Ignore, AnswerPtr, AnswerCached, AskServer,
         Panic, HandleReply, RouteNext, RecvFails, Garbage, Ask, Reply, Lose, Double, Tick, vars, server, names
<1>4. \A q : Chosen(q)' = Chosen(q)
  BY <1>3 DEF Chosen
<1>5. ASSUME C1', C2', C3', C4' PROVE Choice'
  BY <1>5 DEF Choice
<1>6. ASSUME UNCHANGED <<line, blocked_domains>>, loop'.at = loop.at \/ line = Len(list) PROVE C1'
  BY <1>2, <1>3, <1>6
<1>7. ASSUME UNCHANGED inflight PROVE C2'
  BY <1>2, <1>4, <1>7
<1>8. ASSUME \A s \in Servers : sockets'[s].in = sockets[s].in PROVE C3'
  BY <1>2, <1>4, <1>8
<1>9. ASSUME UNCHANGED store PROVE C4'
  BY <1>2, <1>4, <1>9
<1>10. ASSUME NEW s \in Sockets, sockets[s].in # <<>>, Taken(s) PROVE C3'
  <2>1. /\ Len(sockets'[s].in) = Len(sockets[s].in) - 1 /\ Len(sockets[s].in) \in Nat
        /\ \A i \in 1 .. Len(sockets'[s].in) : sockets'[s].in[i] = sockets[s].in[i + 1]
        /\ \A r \in Sockets \ {s} : sockets'[r] = sockets[r]
    BY <1>1, <1>10, TakenStep
  <2>2. ASSUME NEW r \in Servers, NEW i \in 1 .. Len(sockets'[r].in), sockets'[r].in[i].q \notin Strays
        PROVE  r = Chosen(sockets'[r].in[i].q)
    <3>1. CASE r = s
      <4>1. i + 1 \in 1 .. Len(sockets[s].in) /\ sockets'[r].in[i] = sockets[s].in[i + 1]
        BY <2>1, <2>2, <3>1
      <4> QED
        BY <1>2, <2>2, <3>1, <4>1
    <3>2. CASE r # s
      BY <1>1, <1>2, <2>1, <2>2, <3>2
    <3> QED
      BY <3>1, <3>2
  <2> QED
    BY <1>3, <2>2 DEF Chosen
<1>11. ASSUME NEW s \in Sockets, NEW d \in Datagrams(s), Arrived(s, d),
             s \in Servers => d.q \in Strays \/ s = Chosen(d.q)
      PROVE  C3'
  <2>1. /\ Len(sockets'[s].in) = Len(sockets[s].in) + 1 /\ Len(sockets[s].in) \in Nat
        /\ \A i \in 1 .. Len(sockets[s].in) : sockets'[s].in[i] = sockets[s].in[i]
        /\ sockets'[s].in[Len(sockets[s].in) + 1] = d
        /\ \A r \in Sockets \ {s} : sockets'[r] = sockets[r]
    BY <1>1, <1>11, ArrivedStep
  <2>2. ASSUME NEW r \in Servers, NEW i \in 1 .. Len(sockets'[r].in), sockets'[r].in[i].q \notin Strays
        PROVE  r = Chosen(sockets'[r].in[i].q)
    <3>1. CASE r = s /\ i \in 1 .. Len(sockets[s].in)
      <4>1. sockets'[r].in[i] = sockets[r].in[i] /\ i \in 1 .. Len(sockets[r].in)
        BY <2>1, <3>1, Zenon
      <4> QED
        BY <1>2, <2>2, <4>1
    <3>2. CASE r = s /\ i = Len(sockets[s].in) + 1
      BY <1>11, <2>1, <2>2, <3>2
    <3>3. CASE r # s
      <4>1. sockets'[r] = sockets[r]
        BY <1>1, <2>1, <3>3
      <4> QED
        BY <1>2, <2>2, <4>1
    <3> QED
      BY <2>1, <2>2, <3>1, <3>2, <3>3
  <2> QED
    BY <1>3, <2>2 DEF Chosen
<1>12. ASSUME NEW q \in Questions, Forwarded(q), loop.at # "setup" PROVE C2'
  <2>1. is_blocked(q.name) <=> contains(Added(list, Len(list)), q.name)
    BY <1>2, <1>12 DEF is_blocked
  <2>2. \A s \in Servers, p \in Questions :
          inflight'[s][p] > 0 => inflight[s][p] > 0 \/ (p = q /\ s = Chosen(q))
    BY <1>1, <1>12, <2>1, ForwardedStep DEF WorldOK, Chosen
  <2> QED
    BY <1>2, <1>4, <2>2
<1> HIDE DEF C1, C2, C3, C4
<1>13. CASE AddLine
  <2>1. list \in Seq(Domain) /\ line \in 0 .. Len(list) /\ line < Len(list)
    BY <1>1, <1>13, ListsAssumption DEF LoopOK, AddLine
  <2>2. blocked_domains' = Added(list, line + 1) /\ line' = line + 1 /\ loop' = loop
    BY <1>2, <1>13, <2>1, AddedNext DEF AddLine, C1
  <2>3. C1'
    BY <1>13, <1>3, <2>2 DEF AddLine, C1
  <2> QED
    BY <1>13, <1>5, <1>7, <1>8, <1>9, <2>3 DEF AddLine, world
<1>14. CASE SetupEnds
  BY <1>14, <1>5, <1>6, <1>7, <1>8, <1>9 DEF SetupEnds, server, names, world
<1>15. ASSUME NEW s \in Sockets, ready(s) PROVE Choice'
  <2>1. \A r \in Servers : sockets'[r].in = sockets[r].in
    BY <1>1, <1>15, EdgeStep DEF ready
  <2>2. line = Len(list)
    BY <1>2, <1>15 DEF ready, C1
  <2> QED
    BY <1>15, <1>5, <1>6, <1>7, <1>8, <1>9, <2>1, <2>2 DEF ready, server, names, world
<1>16. ASSUME NEW s \in Sockets, Drained(s) PROVE Choice'
  <2>1. line = Len(list)
    BY <1>1, <1>2, <1>16 DEF Drained, Reads, C1
  <2> QED
    BY <1>16, <1>5, <1>6, <1>7, <1>8, <1>9, <2>1 DEF Drained, server, names, world
<1>17. ASSUME NEW s \in Sockets, Ignore(s) \/ Panic(s) PROVE Choice'
  <2>1. line = Len(list)
    BY <1>1, <1>2, <1>17 DEF Ignore, Panic, Reads, C1
  <2>2. C3'
    BY <1>17, <1>10 DEF Ignore, Panic
  <2> QED
    BY <1>17, <1>5, <1>6, <1>7, <1>9, <2>1, <2>2 DEF Ignore, Panic, server, names, world
<1>18. ASSUME NEW s \in Sockets, RecvFails(s) PROVE Choice'
  <2>1. line = Len(list)
    BY <1>1, <1>2, <1>18 DEF RecvFails, Reads, C1
  <2>2. sockets' = [sockets EXCEPT ![s].edge = sockets[s].in # <<>>]
    BY <1>1, <1>18 DEF RecvFails, Reregistered
  <2>3. (sockets[s].in # <<>>) \in BOOLEAN
    OBVIOUS
  <2>4. \A r \in Servers : sockets'[r].in = sockets[r].in
    BY <1>1, <2>2, <2>3, EdgeStep
  <2> QED
    BY <1>18, <1>5, <1>6, <1>7, <1>8, <1>9, <2>1, <2>4 DEF RecvFails, server, names, world
<1>19. ASSUME NEW s \in Sockets, Garbage(s) PROVE Choice'
  <2>1. PICK q \in Strays : Arrived(s, [q |-> q]) /\ [q |-> q] \in Datagrams(s)
    BY <1>19 DEF Garbage, Datagrams
  <2>2. C3'
    BY <1>11, <2>1
  <2> QED
    BY <1>19, <1>5, <1>6, <1>7, <1>9, <2>2 DEF Garbage, server, names, world
<1>20. CASE Tick
  BY <1>20, <1>5, <1>6, <1>7, <1>8, <1>9 DEF Tick, server, names, world
<1>21. ASSUME NEW s \in Servers, NEW q \in Questions, Lose(s, q) \/ Double(s, q) PROVE Choice'
  <2>1. inflight[s][q] \in Nat /\ inflight[s][q] > 0
    BY <1>1, <1>21 DEF Lose, Double, WorldOK
  <2>2. PICK n \in Nat : inflight' = [inflight EXCEPT ![s][q] = n]
    BY <1>21, <2>1 DEF Lose, Double
  <2>3. \A r \in Servers, p \in Questions : inflight'[r][p] > 0 => inflight[r][p] > 0
    BY <1>1, <2>1, <2>2 DEF WorldOK
  <2>4. C2'
    BY <1>2, <1>4, <2>3 DEF C2
  <2> QED
    BY <1>21, <1>5, <1>6, <1>8, <1>9, <2>4 DEF Lose, Double, server, names
<1>22. ASSUME NEW s \in Servers, NEW q \in Questions, Reply(s, q) PROVE Choice'
  <2>1. inflight[s][q] \in Nat /\ inflight[s][q] > 0
    BY <1>1, <1>22 DEF Reply, WorldOK
  <2>2. \A r \in Servers, p \in Questions : inflight'[r][p] > 0 => inflight[r][p] > 0
    BY <1>1, <1>22, <2>1 DEF Reply, WorldOK
  <2>3. C2'
    BY <1>2, <1>4, <2>2 DEF C2
  <2>4. PICK records \in Replies[s] : Arrived(s, [q |-> q, records |-> records])
    BY <1>22 DEF Reply
  <2>5. [q |-> q, records |-> records] \in Datagrams(s) /\ s \in Sockets
    BY <1>1 DEF Datagrams, Servers
  <2>6. s = Chosen(q)
    BY <1>2, <2>1 DEF C2
  <2>7. C3'
    BY <1>11, <2>4, <2>5, <2>6
  <2> QED
    BY <1>22, <1>5, <1>6, <1>9, <2>3, <2>7 DEF Reply, server, names
<1>23. CASE Ask
  <2>1. \E d \in Datagrams("local") : Arrived("local", d)
    <3> DEFINE c == Head(script).from
               q == Head(script).q
    <3>1. script # <<>> /\ script \in Seq([from : Clients, q : Questions \cup {Ptr}])
      BY <1>1, <1>23 DEF Ask, WorldOK
    <3>2. Head(script) \in [from : Clients, q : Questions \cup {Ptr}]
      BY <3>1, HeadTailProperties
    <3>3. [from |-> c, id |-> Len(asked[c]) + 1, q |-> q] \in Datagrams("local")
      BY <1>1, <3>2 DEF Datagrams, WorldOK
    <3> QED
      BY <1>23, <3>3 DEF Ask
  <2>2. C3'
    BY <1>1, <1>11, <2>1
  <2> QED
    BY <1>23, <1>5, <1>6, <1>7, <1>9, <2>2 DEF Ask, server, names
<1>24. CASE AnswerPtr
  BY <1>1, <1>24, <1>5, <1>6, <1>7, <1>10, <1>9 DEF AnswerPtr, server, names
<1>25. CASE AnswerCached
  <2>1. C3'
    BY <1>1, <1>25, <1>10 DEF AnswerCached
  <2>2. C2'
    <3>1. PICK q \in Questions : Forwarded(q) \/ UNCHANGED inflight
      BY <1>25 DEF AnswerCached
    <3> QED
      BY <1>1, <1>25, <1>7, <1>12, <3>1 DEF AnswerCached
  <2> QED
    BY <1>25, <1>5, <1>6, <1>9, <2>1, <2>2 DEF AnswerCached, server, names
<1>26. CASE AskServer
  <2>1. SocketsOK' /\ Query \in Datagrams("local") /\ Query.q \in Questions /\ C3'
    BY <1>1, <1>26, <1>10, TakenStep DEF AskServer, Query
  <2>2. Query.from \in Clients /\ Query.id \in Nat
    BY <2>1, StraysAreNoQuestions, DatagramKinds
  <2>3. \/ Forwarded(Query.q) /\ store' = add_request(Query.q, Query.from, Query.id)
        \/ UNCHANGED <<inflight, store>>
    BY <1>26 DEF AskServer, Query
  <2>4. CASE Forwarded(Query.q) /\ store' = add_request(Query.q, Query.from, Query.id)
    <3>1. C2'
      BY <1>1, <1>26, <1>12, <2>1, <2>4 DEF AskServer
    <3>2. \A q \in DOMAIN store' : \/ q \in DOMAIN store /\ store'[q].response = store[q].response
                                  \/ store'[q].response = NoResponse
      <4>1. PICK p \in Questions, from \in Clients, id \in Nat : store' = add_request(p, from, id) /\ now \in Nat
        BY <1>1, <2>1, <2>2, <2>4 DEF LoopOK
      <4>2. /\ DOMAIN store' = DOMAIN store \cup {p} /\ \A q \in DOMAIN store \ {p} : store'[q] = store[q]
            /\ p \in DOMAIN store => store'[p].response = store[p].response
            /\ p \notin DOMAIN store => store'[p].response = NoResponse
        BY <1>1, <4>1, RequestStep
      <4> QED
        BY <4>2
    <3>3. C4'
      BY <1>2, <1>4, <3>2 DEF C4, NoResponse
    <3> QED
      BY <1>26, <1>5, <1>6, <2>1, <3>1, <3>3 DEF AskServer, names
  <2>5. CASE UNCHANGED <<inflight, store>>
    BY <1>26, <1>5, <1>6, <1>7, <1>9, <2>1, <2>5 DEF AskServer, names
  <2> QED
    BY <2>3, <2>4, <2>5
<1>27. ASSUME NEW s \in Servers, HandleReply(s) PROVE Choice'
  <2> DEFINE d == Head(sockets[s].in)
             response == [src |-> s, records |-> d.records]
  <2>1. d \in Datagrams(s) /\ d = sockets[s].in[1] /\ 1 \in 1 .. Len(sockets[s].in) /\ d.q \notin Strays
    BY <1>1, <1>27, TakenStep DEF HandleReply
  <2>2. d.q \in Questions /\ d.records \in Replies[s]
    BY <2>1, DatagramKinds
  <2>3. response \in Responses /\ response.src = s
    BY <2>2, RepliesAssumption DEF Responses
  <2>4. s = Chosen(d.q)
    BY <1>2, <2>1 DEF C3
  <2>5. \/ d.q \in DOMAIN store /\ store' = [store EXCEPT ![d.q] = Updated(@, response)]
        \/ UNCHANGED store
    BY <1>27 DEF HandleReply
  <2> HIDE DEF response, d
  <2>6. ASSUME d.q \in DOMAIN store, store' = [store EXCEPT ![d.q] = Updated(@, response)] PROVE C4'
    <3>1. loop.now \in Nat
      BY <1>1 DEF LoopOK
    <3>2. /\ DOMAIN store' = DOMAIN store /\ store'[d.q].response = response
          /\ \A p \in DOMAIN store \ {d.q} : store'[p] = store[p]
      BY <1>1, <2>3, <2>6, <3>1, UpdatedStep, ZenonT(60)
    <3>3. \A q \in DOMAIN store' : store'[q].response.src \in {"none", Chosen(q)}
      BY <1>2, <2>3, <2>4, <3>2 DEF C4
    <3> QED
      BY <1>4, <3>3 DEF C4
  <2>7. C4'
    BY <1>9, <2>5, <2>6
  <2>8. C3'
    BY <1>1, <1>27, <1>10 DEF HandleReply
  <2>9. loop'.at = loop.at
    BY <1>1, <1>27 DEF HandleReply, LoopOK
  <2> QED
    BY <1>27, <1>5, <1>6, <1>7, <2>7, <2>8, <2>9 DEF HandleReply, names
<1>28. CASE RouteNext
  <2>1. loop'.at = loop.at
    BY <1>1, <1>28 DEF RouteNext, LoopOK
  <2> QED
    BY <1>28, <1>5, <1>6, <1>7, <1>8, <1>9, <2>1 DEF RouteNext, names, world
<1>29. CASE UNCHANGED vars
  BY <1>29, <1>5, <1>6, <1>7, <1>8, <1>9 DEF vars, server, names, world
<1> QED
  BY <1>13, <1>14, <1>15, <1>16, <1>17, <1>18, <1>19, <1>20, <1>21, <1>22, <1>23, <1>24, <1>25, <1>26, <1>27, <1>29, <1>28
  DEF Next, Relay

\* The poisoned server is never asked for, nor believed about, a listed domain
\* when no domain of the list is below another; and the trusted one is asked only
\* for what the list names, or for what is above it.
THEOREM AsksRightServer == Spec => []RightServer
<1>1. Init => Choice
  <2> SUFFICES ASSUME Init PROVE Choice
    OBVIOUS
  <2>1. blocked_domains = Added(list, line)
    BY DEF Init, Added
  <2> QED
    BY <2>1 DEF Init, Choice, Sockets
<1>2. TypeOK /\ Choice => RightServer
  <2> SUFFICES ASSUME TypeOK, Choice PROVE RightServer
    OBVIOUS
  <2>1. list \in Seq(Domain) /\ \A q \in Questions : q.name \in Domain
    BY ListsAssumption, QuestionsAssumption DEF TypeOK
  <2>2. \A s \in Servers, q \in Questions : AskedOf(s, q) => s = Chosen(q)
    BY DEF Choice, AskedOf, Servers
  <2>3. ASSUME NEW q \in Questions, AskedOf("poisoned", q), Flat(list) PROVE ~Listed(list, q.name)
    BY <2>1, <2>2, <2>3, ContainsIsListed DEF Chosen, Servers
  <2>4. ASSUME NEW q \in Questions, AskedOf("trusted", q)
        PROVE  Listed(list, q.name) \/ Above(list, q.name)
    BY <2>1, <2>2, <2>4, ContainsIsListed DEF Chosen, Servers
  <2> QED
    BY <2>3, <2>4 DEF RightServer, ListedAskTrusted
<1> QED
  BY <1>1, <1>2, TypeCorrect, ChoiceStep, PTL DEF Spec

-----------------------------------------------------------------------------
(* Routes *)

RoutedFor(response) ==
  response.src = "trusted"
    => V4(response.records) \subseteq route_added \cup refused \cup V4(loop.todo)

\* What the trusted server said is routed, was refused or is about to be, in the
\* cache as well as with the clients; only the handler of a server's socket has
\* routes to add, and they are for what the trusted server may say.
Routed ==
  /\ AddRoute => /\ \A q \in DOMAIN store : RoutedFor(store[q].response)
                 /\ \A i \in 1 .. Len(done) : RoutedFor(done[i].response)
  /\ route_added \cup V4(loop.todo) \subseteq UNION {V4(r) : r \in Replies["trusted"]}
  /\ loop.todo # <<>> => loop.at \in Servers

LEMMA V4None == V4(<<>>) = {}
BY DEF V4

\* The addresses of some records are that of the first and those of the others.
LEMMA V4Next ==
  ASSUME NEW records \in Seq(Record), records # <<>>
  PROVE  V4(records) = V4(Tail(records)) \cup IF Head(records).v4 THEN {Head(records).addr} ELSE {}
<1>1. /\ Len(records) \in Nat /\ Len(records) >= 1 /\ Head(records) = records[1]
      /\ Len(Tail(records)) = Len(records) - 1
      /\ \A i \in 1 .. Len(Tail(records)) : Tail(records)[i] = records[i + 1]
  OBVIOUS
<1>2. ASSUME NEW a \in V4(records)
      PROVE  a \in V4(Tail(records)) \cup IF Head(records).v4 THEN {Head(records).addr} ELSE {}
  <2>1. PICK i \in 1 .. Len(records) : records[i].v4 /\ a = records[i].addr
    BY <1>2 DEF V4
  <2>2. CASE i = 1
    BY <1>1, <2>1, <2>2
  <2>3. CASE i # 1
    <3>1. PICK j \in 1 .. Len(Tail(records)) : i = j + 1
      <4>1. i - 1 \in 1 .. Len(Tail(records)) /\ i = (i - 1) + 1
        BY <1>1, <2>3
      <4> QED
        BY <4>1
    <3>2. Tail(records)[j] = records[i]
      BY <1>1, <3>1
    <3> QED
      BY <2>1, <3>2 DEF V4
  <2> QED
    BY <2>2, <2>3
<1>3. ASSUME NEW a \in V4(Tail(records)) PROVE a \in V4(records)
  <2>1. PICK j \in 1 .. Len(Tail(records)) : Tail(records)[j].v4 /\ a = Tail(records)[j].addr
    BY <1>3 DEF V4
  <2>2. PICK i \in 1 .. Len(records) : Tail(records)[j] = records[i]
    BY <1>1, <2>1
  <2> QED
    BY <2>1, <2>2 DEF V4
<1>4. Head(records).v4 => Head(records).addr \in V4(records)
  BY <1>1 DEF V4
<1> QED
  BY <1>2, <1>3, <1>4

LEMMA RoutedStep == TypeOK /\ Routed /\ [Next]_vars => Routed'
<1> SUFFICES ASSUME TypeOK, Routed, [Next]_vars PROVE Routed'
  OBVIOUS
<1>1. /\ SocketsOK /\ StoreOK /\ DoneOK /\ LoopOK /\ WorldOK
      /\ "local" \in Sockets /\ Servers \subseteq Sockets
  BY TypeParts DEF Sockets
<1>2. ASSUME UNCHANGED <<store, done, route_added, refused>>, loop'.todo = loop.todo,
             loop'.at = loop.at \/ loop.todo = <<>>
      PROVE  Routed'
  BY <1>2 DEF Routed, RoutedFor
<1>3. RoutedFor(NoResponse)
  BY DEF RoutedFor, NoResponse
<1>4. ASSUME NEW to \in Clients, NEW id \in Nat, NEW q \in Questions \cup {Ptr}, NEW r \in Responses,
             NEW sent \in BOOLEAN, done' = Answered(to, id, q, r, sent),
             AddRoute => RoutedFor(r), UNCHANGED <<store, route_added, refused, loop>>
      PROVE  Routed'
  <2>1. /\ Len(done) \in Nat /\ Len(done') = Len(done) + 1
        /\ \A i \in 1 .. Len(done) : done'[i] = done[i]
        /\ done'[Len(done) + 1] = [to |-> to, id |-> id, q |-> q, response |-> r, sent |-> sent]
    BY <1>1, <1>4, AnsweredStep
  <2>2. done'[Len(done) + 1].response = r
    BY <2>1
  <2>3. AddRoute => \A i \in 1 .. Len(done') : RoutedFor(done'[i].response)
    BY <1>4, <2>1, <2>2 DEF Routed
  <2> QED
    BY <1>4, <2>3 DEF Routed, RoutedFor
<1>5. CASE AnswerPtr
  <2>1. Query \in Datagrams("local") /\ Query.q = Ptr
    BY <1>1, <1>5, TakenStep DEF AnswerPtr, Query
  <2>2. Query.from \in Clients
    BY <2>1, StraysAreNoQuestions, DatagramKinds
  <2>3. PICK sent \in BOOLEAN : done' = Answered(Query.from, arp_data.id, arp_data.q, arp_data.response, sent)
    BY <1>5 DEF AnswerPtr, Query
  <2>4. PICK id \in Nat, q \in Questions \cup {Ptr}, r \in Responses :
          id = arp_data.id /\ q = arp_data.q /\ r = arp_data.response
    <3>1. arp_data.id \in Nat /\ arp_data.q \in Questions \cup {Ptr} /\ arp_data.response \in Responses
      BY DEF arp_data, NoResponse, Responses
    <3> QED
      BY <3>1, Zenon
  <2>5. r = NoResponse
    BY <2>4 DEF arp_data
  <2>6. done' = Answered(Query.from, id, q, r, sent)
    BY <2>3, <2>4
  <2>7. UNCHANGED <<store, route_added, refused, loop>>
    BY <1>5 DEF AnswerPtr, server
  <2> QED
    BY <1>3, <1>4, <2>2, <2>5, <2>6, <2>7
<1>6. CASE AnswerCached
  <2>1. Query \in Datagrams("local") /\ Query.q \in DOMAIN store
    BY <1>1, <1>6, TakenStep DEF AnswerCached, Query, HasResponse
  <2>2. Query.q \in Questions /\ Query.from \in Clients /\ Query.id \in Nat
    BY <1>1, <2>1, StraysAreNoQuestions, DatagramKinds DEF StoreOK
  <2>3. PICK sent \in BOOLEAN : done' = Answered(Query.from, Query.id, Query.q, store[Query.q].response, sent)
    BY <1>6 DEF AnswerCached, Query
  <2>4. store[Query.q].response \in Responses /\ (AddRoute => RoutedFor(store[Query.q].response))
    BY <1>1, <2>1 DEF StoreOK, QueryResult, Routed
  <2>5. UNCHANGED <<store, route_added, refused, loop>>
    BY <1>6 DEF AnswerCached, server
  <2> QED
    BY <1>4, <2>2, <2>3, <2>4, <2>5
<1>7. CASE AskServer
  <2>1. Query \in Datagrams("local") /\ Query.q \in Questions
    BY <1>1, <1>7, TakenStep DEF AskServer, Query
  <2>2. Query.from \in Clients /\ Query.id \in Nat
    BY <2>1, StraysAreNoQuestions, DatagramKinds
  <2>3. \/ store' = add_request(Query.q, Query.from, Query.id) /\ UNCHANGED done
        \/ /\ \E sent \in BOOLEAN : done' = Answered(Query.from, Query.id, Query.q, NoResponse, sent)
           /\ UNCHANGED store
    BY <1>7 DEF AskServer, Query
  <2>4. UNCHANGED <<route_added, refused, loop>>
    BY <1>7 DEF AskServer
  <2>5. CASE store' = add_request(Query.q, Query.from, Query.id) /\ UNCHANGED done
    <3>1. PICK p \in Questions, from \in Clients, id \in Nat : store' = add_request(p, from, id) /\ now \in Nat
      BY <1>1, <2>1, <2>2, <2>5 DEF LoopOK
    <3>2. /\ DOMAIN store' = DOMAIN store \cup {p} /\ \A q \in DOMAIN store \ {p} : store'[q] = store[q]
          /\ p \in DOMAIN store => store'[p].response = store[p].response
          /\ p \notin DOMAIN store => store'[p].response = NoResponse
      BY <1>1, <3>1, RequestStep
    <3>3. AddRoute => \A q \in DOMAIN store' : RoutedFor(store'[q].response)
      BY <1>3, <3>2 DEF Routed
    <3> QED
      BY <2>4, <2>5, <3>3 DEF Routed, RoutedFor
  <2>6. CASE /\ \E sent \in BOOLEAN : done' = Answered(Query.from, Query.id, Query.q, NoResponse, sent)
             /\ UNCHANGED store
    <3>1. PICK sent \in BOOLEAN : done' = Answered(Query.from, Query.id, Query.q, NoResponse, sent)
      BY <2>6
    <3>2. NoResponse \in Responses
      BY DEF NoResponse, Responses
    <3> QED
      BY <1>3, <1>4, <2>1, <2>2, <2>4, <2>6, <3>1, <3>2
  <2> QED
    BY <2>3, <2>5, <2>6
<1>8. ASSUME NEW s \in Servers, HandleReply(s) PROVE Routed'
  <2> DEFINE d == Head(sockets[s].in)
             response == [src |-> s, records |-> d.records]
             todo == RoutesFor(s, d.records)
  <2>1. d \in Datagrams(s) /\ d.q \notin Strays
    BY <1>1, <1>8, TakenStep DEF HandleReply
  <2>2. d.q \in Questions /\ d.records \in Replies[s]
    BY <2>1, DatagramKinds
  <2>3. response \in Responses /\ response.src = s /\ response.records = d.records
    BY <2>2, RepliesAssumption DEF Responses
  <2>4. \/ \E unsent :
             /\ d.q \in DOMAIN store /\ done' = AllAnswered(d.q, response, unsent)
             /\ store' = [store EXCEPT ![d.q] = Updated(@, response)]
             /\ loop' = [loop EXCEPT !.todo = todo]
        \/ UNCHANGED <<done, store, loop>>
    BY <1>8 DEF HandleReply
  <2>5. /\ UNCHANGED <<route_added, refused>> /\ V4(loop.todo) = {}
        /\ loop.at = s
    BY <1>8, V4None DEF HandleReply, Reads
  <2>6. /\ V4(todo) \subseteq UNION {V4(r1) : r1 \in Replies["trusted"]}
        /\ AddRoute /\ s = "trusted" => V4(d.records) = V4(todo)
    BY <2>2, V4None DEF RoutesFor
  <2> HIDE DEF response, d, todo
  <2>7. CASE UNCHANGED <<done, store, loop>>
    BY <1>2, <2>5, <2>7
  <2>8. ASSUME NEW unsent, d.q \in DOMAIN store, done' = AllAnswered(d.q, response, unsent),
               store' = [store EXCEPT ![d.q] = Updated(@, response)],
               loop' = [loop EXCEPT !.todo = todo]
        PROVE  Routed'
    <3>1. loop.now \in Nat /\ loop'.todo = todo /\ loop'.at = s
      BY <1>1, <2>5, <2>8 DEF LoopOK
    <3>2. /\ DOMAIN store' = DOMAIN store /\ store'[d.q].response = response
          /\ \A p \in DOMAIN store \ {d.q} : store'[p] = store[p]
      BY <1>1, <2>3, <2>8, <3>1, UpdatedStep
    <3>3. /\ Len(done) \in Nat /\ Len(store[d.q].addresses) \in Nat
          /\ Len(done') = Len(done) + Len(store[d.q].addresses)
          /\ \A i \in 1 .. Len(done) : done'[i] = done[i]
          /\ \A i \in 1 .. Len(store[d.q].addresses) : done'[Len(done) + i].response = response
      BY <1>1, <2>3, <2>8, AllAnsweredStep
    <3>4. \A r : RoutedFor(r) => (RoutedFor(r))'
      BY <2>5 DEF RoutedFor
    <3>5. PICK r : r = response /\ (AddRoute => (RoutedFor(r))')
      BY <2>3, <2>6, <3>1 DEF RoutedFor
    <3>6. ASSUME AddRoute, NEW q \in DOMAIN store' PROVE \E x : x = store'[q].response /\ (RoutedFor(x))'
      BY <3>2, <3>4, <3>5, <3>6 DEF Routed
    <3>7. ASSUME AddRoute, NEW i \in 1 .. Len(done') PROVE \E x : x = done'[i].response /\ (RoutedFor(x))'
      <4>1. CASE i <= Len(done)
        BY <3>3, <3>4, <3>7, <4>1 DEF Routed
      <4>2. CASE i > Len(done)
        <5>1. i - Len(done) \in 1 .. Len(store[d.q].addresses) /\ i = Len(done) + (i - Len(done))
          BY <3>3, <4>2
        <5> QED
          BY <3>3, <3>5, <3>7, <5>1
      <4> QED
        BY <3>3, <4>1, <4>2
    <3>8. route_added' \cup V4(loop'.todo) \subseteq UNION {V4(r1) : r1 \in Replies["trusted"]}
      BY <2>5, <2>6, <3>1 DEF Routed
    <3> QED
      BY <3>1, <3>6, <3>7, <3>8 DEF Routed
  <2> QED
    BY <2>4, <2>7, <2>8
<1>9. CASE RouteNext
  <2> DEFINE r == Head(loop.todo)
             first == IF r.v4 THEN {r.addr} ELSE {}
  <2>1. loop.todo \in Seq(Record) /\ loop.todo # <<>>
    BY <1>1, <1>9 DEF RouteNext, LoopOK
  <2>2. loop'.todo = Tail(loop.todo) /\ loop'.at = loop.at /\ loop.at \in Servers
    BY <1>1, <1>9, <2>1 DEF RouteNext, LoopOK, Routed
  <2>3. V4(loop.todo) = V4(loop'.todo) \cup first
    BY <2>1, <2>2, V4Next
  <2>4. /\ route_added \subseteq route_added' /\ route_added' \subseteq route_added \cup first
        /\ refused \subseteq refused' /\ first \subseteq route_added' \cup refused'
    BY <1>9 DEF RouteNext
  <2> HIDE DEF first
  <2>5. ASSUME NEW x, RoutedFor(x) PROVE (RoutedFor(x))'
    BY <2>3, <2>4, <2>5 DEF RoutedFor
  <2>6. store' = store /\ done' = done
    BY <1>9 DEF RouteNext, world
  <2>7. route_added' \cup V4(loop'.todo) \subseteq UNION {V4(r1) : r1 \in Replies["trusted"]}
    BY <2>3, <2>4 DEF Routed
  <2>8. ASSUME AddRoute, NEW q \in DOMAIN store' PROVE \E x : x = store'[q].response /\ (RoutedFor(x))'
    BY <2>5, <2>6, <2>8 DEF Routed
  <2>9. ASSUME AddRoute, NEW i \in 1 .. Len(done') PROVE \E x : x = done'[i].response /\ (RoutedFor(x))'
    BY <2>5, <2>6, <2>9 DEF Routed
  <2> QED
    BY <2>2, <2>7, <2>8, <2>9 DEF Routed
<1>10. CASE UNCHANGED <<store, done, route_added, refused, loop>>
  BY <1>2, <1>10
<1>11. ASSUME SetupEnds \/ \E s \in Sockets : ready(s) \/ Drained(s) \/ RecvFails(s) \/ Panic(s)
       PROVE  Routed'
  <2>1. UNCHANGED <<store, done, route_added, refused>>
    BY <1>11 DEF SetupEnds, ready, Drained, RecvFails, Panic, server, world
  <2>2. loop.todo = <<>>
    BY <1>11 DEF SetupEnds, ready, Drained, RecvFails, Panic, Reads, Routed, Servers
  <2>3. loop'.todo = <<>>
    BY <1>1, <1>11, <2>2 DEF SetupEnds, ready, Drained, RecvFails, Panic, LoopOK
  <2> QED
    BY <1>2, <2>1, <2>2, <2>3
<1>12. \/ AnswerPtr \/ AnswerCached \/ AskServer \/ RouteNext \/ \E s \in Servers : HandleReply(s)
       \/ SetupEnds \/ \E s \in Sockets : ready(s) \/ Drained(s) \/ RecvFails(s) \/ Panic(s)
       \/ UNCHANGED <<store, done, route_added, refused, loop>>
  BY DEF Next, Relay, AddLine, Ignore, Garbage, Ask, Reply, Lose, Double, Tick, vars, server, world
<1> QED
  BY <1>5, <1>6, <1>7, <1>8, <1>9, <1>10, <1>11, <1>12

\* Whatever of the trusted server's a client was given has its routes, unless the
\* system refused them or the handler is about to add them, also when it came
\* from the cache; and no route is for an address that the trusted server cannot
\* have named.
THEOREM GivenHasRoutes == Spec => []GivenIsRouted
<1>1. Init => Routed
  BY V4None DEF Init, Routed
<1>2. Routed => GivenIsRouted
  BY DEF Routed, RoutedFor, GivenIsRouted
<1> QED
  BY <1>1, <1>2, TypeCorrect, RoutedStep, PTL DEF Spec

-----------------------------------------------------------------------------
(* Every query is in one place *)

\* No query is at two positions of the same kind, or of two kinds.
NoneTwice ==
  /\ \A c, id, i, j : Unread(i, c, id) /\ Unread(j, c, id) => i = j
  /\ \A c, id, q, i, p, j : Waits(q, i, c, id) /\ Waits(p, j, c, id) => q = p /\ i = j
  /\ \A c, id, i, j : Finished(i, c, id) /\ Finished(j, c, id) => i = j
  /\ \A c, id, i, q, j : ~(Unread(i, c, id) /\ Waits(q, j, c, id))
  /\ \A c, id, i, j : ~(Unread(i, c, id) /\ Finished(j, c, id))
  /\ \A c, id, q, i, j : ~(Waits(q, i, c, id) /\ Finished(j, c, id))

Somewhere(c, id) ==
  (\E i : Unread(i, c, id)) \/ (\E q, i : Waits(q, i, c, id)) \/ (\E i : Finished(i, c, id))

NoneForgotten ==
  \A c \in Clients : \A id \in 1 .. Len(asked[c]) : asked[c][id] # Ptr => Somewhere(c, id)

\* What a step does to the positions, for each of its kinds.
LEMMA TakenPositions ==
  ASSUME TakesQuery
  PROVE  \A c, id, i : Unread(i, c, id)' <=> i \in Nat \ {0} /\ Unread(i + 1, c, id)
<1> SUFFICES ASSUME NEW c, NEW id, NEW i
             PROVE  Unread(i, c, id)' <=> i \in Nat \ {0} /\ Unread(i + 1, c, id)
  OBVIOUS
<1>1. i \in 1 .. Len(In') <=> i \in Nat \ {0} /\ i + 1 \in 1 .. Len(In)
  BY DEF TakesQuery
<1>2. i \in 1 .. Len(In') => In'[i] = In[i + 1]
  BY DEF TakesQuery
<1> QED
  BY <1>1, <1>2 DEF Unread, In

LEMMA AddedPositions ==
  ASSUME AddsDatagram
  PROVE  \A c, id, i : Unread(i, c, id)' <=>
                         \/ Unread(i, c, id)
                         \/ /\ i = Len(In) + 1 /\ In'[i].q \in Questions
                            /\ In'[i].from = c /\ In'[i].id = id
<1> SUFFICES ASSUME NEW c, NEW id, NEW i
             PROVE  Unread(i, c, id)' <=>
                      \/ Unread(i, c, id)
                      \/ /\ i = Len(In) + 1 /\ In'[i].q \in Questions
                         /\ In'[i].from = c /\ In'[i].id = id
  OBVIOUS
<1>1. /\ i \in 1 .. Len(In') <=> i \in 1 .. Len(In) \/ i = Len(In) + 1
      /\ i \in 1 .. Len(In) => In'[i] = In[i] /\ i # Len(In) + 1
  BY DEF AddsDatagram
<1> QED
  BY <1>1 DEF Unread, In

LEMMA LoggedPositions ==
  ASSUME NEW n, Logs(n)
  PROVE  \A c, id, i :
           Finished(i, c, id)' <=>
             \/ Finished(i, c, id)
             \/ \E j \in 1 .. n : /\ i = Len(done) + j /\ done'[i].q \in Questions
                                  /\ done'[i].to = c /\ done'[i].id = id
<1> SUFFICES ASSUME NEW c, NEW id, NEW i
             PROVE  Finished(i, c, id)' <=>
                      \/ Finished(i, c, id)
                      \/ \E j \in 1 .. n : /\ i = Len(done) + j /\ done'[i].q \in Questions
                                           /\ done'[i].to = c /\ done'[i].id = id
  OBVIOUS
<1>1. i \in 1 .. Len(done') <=> i \in 1 .. Len(done) \/ \E j \in 1 .. n : i = Len(done) + j
  <2>1. ASSUME i \in 1 .. Len(done'), i \notin 1 .. Len(done) PROVE \E j \in 1 .. n : i = Len(done) + j
    <3>1. i - Len(done) \in 1 .. n /\ i = Len(done) + (i - Len(done))
      BY <2>1 DEF Logs
    <3> QED
      BY <3>1
  <2>2. ASSUME NEW j \in 1 .. n, i = Len(done) + j PROVE i \in 1 .. Len(done')
    BY <2>2 DEF Logs
  <2>3. i \in 1 .. Len(done) => i \in 1 .. Len(done')
    BY DEF Logs
  <2> QED
    BY <2>1, <2>2, <2>3
<1>2. i \in 1 .. Len(done) => done'[i] = done[i] /\ ~\E j \in 1 .. n : i = Len(done) + j
  BY DEF Logs
<1> QED
  BY <1>1, <1>2 DEF Finished

LEMMA OnceStep == TypeOK /\ Matching /\ NoneTwice /\ NoneForgotten /\ [Next]_vars => NoneTwice' /\ NoneForgotten'
<1> SUFFICES ASSUME TypeOK, Matching, NoneTwice, NoneForgotten, [Next]_vars
             PROVE  NoneTwice' /\ NoneForgotten'
  OBVIOUS
<1>1. /\ \A c, id, i : Unread(i, c, id) => i \in Nat \ {0}
      /\ Ptr \notin Questions /\ \A q \in Strays : q \notin Questions
  BY QuestionsAssumption, StraysAreNoQuestions DEF Unread
<1>2. ASSUME store' = store PROVE \A c, id, q, i : Waits(q, i, c, id)' <=> Waits(q, i, c, id)
  BY <1>2 DEF Waits
<1>3. ASSUME done' = done PROVE \A c, id, i : Finished(i, c, id)' <=> Finished(i, c, id)
  BY <1>3 DEF Finished
<1>4. ASSUME In' = In PROVE \A c, id, i : Unread(i, c, id)' <=> Unread(i, c, id)
  BY <1>4 DEF Unread, In
\* It is enough that everything keeps its one place.
<1>5. ASSUME asked' = asked, \A c, id : Somewhere(c, id) => Somewhere(c, id)'
      PROVE  NoneForgotten'
  BY <1>5 DEF NoneForgotten
<1>6. CASE Quiet
  <2>1. /\ \A c, id, i : Unread(i, c, id)' <=> Unread(i, c, id)
        /\ \A c, id, q, i : Waits(q, i, c, id)' <=> Waits(q, i, c, id)
        /\ \A c, id, i : Finished(i, c, id)' <=> Finished(i, c, id)
    BY <1>2, <1>3, <1>4, <1>6 DEF Quiet
  <2>2. NoneTwice'
    BY <2>1 DEF NoneTwice
  <2> QED
    BY <1>5, <1>6, <2>1, <2>2 DEF Quiet, Somewhere
<1>7. CASE Litters
  <2>1. \A c, id, i : Unread(i, c, id)' <=> Unread(i, c, id)
    BY <1>1, <1>7, AddedPositions DEF Litters
  <2>2. /\ \A c, id, q, i : Waits(q, i, c, id)' <=> Waits(q, i, c, id)
        /\ \A c, id, i : Finished(i, c, id)' <=> Finished(i, c, id)
    BY <1>2, <1>3, <1>7 DEF Litters
  <2>3. NoneTwice'
    BY <2>1, <2>2 DEF NoneTwice
  <2> QED
    BY <1>5, <1>7, <2>1, <2>2, <2>3 DEF Litters, Somewhere
<1>8. CASE Drops
  <2>1. /\ \A c, id, i : Unread(i, c, id)' <=> i \in Nat \ {0} /\ Unread(i + 1, c, id)
        /\ \A c, id : ~Unread(1, c, id)
    BY <1>8, TakenPositions DEF Drops, Unread, In
  <2>2. \A c, id, i : Finished(i, c, id)' <=> Finished(i, c, id)
    BY <1>1, <1>3, <1>8, LoggedPositions DEF Drops
  <2>3. \A c, id, q, i : Waits(q, i, c, id)' <=> Waits(q, i, c, id)
    BY <1>2, <1>8 DEF Drops
  <2>4. ASSUME NEW c, NEW id, NEW i, Unread(i, c, id) PROVE Unread(i - 1, c, id)'
    BY <1>1, <2>1, <2>4
  <2>5. NoneTwice'
    BY <2>1, <2>2, <2>3 DEF NoneTwice
  <2> QED
    BY <1>5, <1>8, <2>2, <2>3, <2>4, <2>5 DEF Drops, Somewhere
<1>9. CASE Closes
  <2> DEFINE F(i, c, id) == Finished(i, c, id) \/ (i = Len(done) + 1 /\ Unread(1, c, id))
  <2>1. \A c, id, i : Unread(i, c, id)' <=> i \in Nat \ {0} /\ Unread(i + 1, c, id)
    BY <1>9, TakenPositions DEF Closes
  <2>2. \A c, id : Unread(1, c, id) <=> In[1].from = c /\ In[1].id = id
    BY <1>9 DEF Closes, TakesQuery, Unread, In
  <2>3. ASSUME NEW c, NEW id, NEW i PROVE Finished(i, c, id)' <=> F(i, c, id)
    <3>1. Logs(1)
      BY <1>9 DEF Closes
    <3>2. Finished(i, c, id)' <=>
             \/ Finished(i, c, id)
             \/ \E j \in 1 .. 1 : /\ i = Len(done) + j /\ done'[i].q \in Questions
                                  /\ done'[i].to = c /\ done'[i].id = id
      BY <3>1, LoggedPositions
    <3>3. LET a == done'[Len(done) + 1] IN a.q \in Questions /\ (a.to = c /\ a.id = id <=> Unread(1, c, id))
      BY <1>9, <2>2 DEF Closes
    <3> QED
      BY <3>2, <3>3
  <2>4. \A c, id, q, i : Waits(q, i, c, id)' <=> Waits(q, i, c, id)
    BY <1>2, <1>9 DEF Closes
  <2>5. \A c, id : ~Finished(Len(done) + 1, c, id)
    BY <1>9 DEF Closes, Logs, Finished
  <2>6. ASSUME NEW c, NEW id, NEW i, Unread(i, c, id), i # 1 PROVE Unread(i - 1, c, id)'
    BY <1>1, <2>1, <2>6
  <2>7. NoneTwice'
    BY <2>1, <2>3, <2>4, <2>5 DEF NoneTwice
  <2>8. \A c, id : Somewhere(c, id) => Somewhere(c, id)'
    BY <2>3, <2>4, <2>6 DEF Somewhere
  <2> QED
    BY <1>5, <1>9, <2>7, <2>8 DEF Closes
<1>10. ASSUME NEW q \in Questions, Queues(q) PROVE NoneTwice' /\ NoneForgotten'
  <2> DEFINE n == IF q \in DOMAIN store THEN Len(store[q].addresses) ELSE 0
  <2>1. \A c, id, i : Unread(i, c, id)' <=> i \in Nat \ {0} /\ Unread(i + 1, c, id)
    BY <1>10, TakenPositions DEF Queues
  <2>2. \A c, id : Unread(1, c, id) <=> In[1].from = c /\ In[1].id = id
    BY <1>10 DEF Queues, TakesQuery, Unread, In
  <2>3. \A c, id, i : Finished(i, c, id)' <=> Finished(i, c, id)
    BY <1>3, <1>10 DEF Queues
  <2>4. /\ n \in Nat /\ DOMAIN store' = DOMAIN store \cup {q}
        /\ \A p \in DOMAIN store \ {q} : store'[p] = store[p]
        /\ Len(store'[q].addresses) = n + 1
        /\ \A i \in 1 .. n : store'[q].addresses[i] = store[q].addresses[i]
        /\ store'[q].addresses[n + 1].from = In[1].from /\ store'[q].addresses[n + 1].id = In[1].id
        /\ q \in DOMAIN store => n = Len(store[q].addresses)
        /\ q \notin DOMAIN store => n = 0
    BY <1>10 DEF Queues
  <2> HIDE DEF n
  <2>5. ASSUME NEW c, NEW id, NEW p, NEW i
        PROVE  Waits(p, i, c, id)' <=> Waits(p, i, c, id) \/ (p = q /\ i = n + 1 /\ Unread(1, c, id))
    <3>1. CASE p # q
      BY <2>4, <3>1 DEF Waits
    <3>2. CASE p = q /\ q \in DOMAIN store
      BY <2>2, <2>4, <3>2 DEF Waits
    <3>3. CASE p = q /\ q \notin DOMAIN store
      BY <2>2, <2>4, <3>3 DEF Waits
    <3> QED
      BY <3>1, <3>2, <3>3
  <2>6. \A c, id : ~Waits(q, n + 1, c, id)
    BY <2>4 DEF Waits
  <2>7. ASSUME NEW c, NEW id, NEW i, Unread(i, c, id), i # 1 PROVE Unread(i - 1, c, id)'
    BY <1>1, <2>1, <2>7
  <2>8. NoneTwice'
    BY <2>1, <2>3, <2>5, <2>6 DEF NoneTwice
  <2>9. \A c, id : Somewhere(c, id) => Somewhere(c, id)'
    BY <2>3, <2>5, <2>7 DEF Somewhere
  <2> QED
    BY <1>5, <1>10, <2>8, <2>9 DEF Queues
<1>11. ASSUME NEW q \in Questions, Flushes(q) PROVE NoneTwice' /\ NoneForgotten'
  <2>1. \A c, id, i : Unread(i, c, id)' <=> Unread(i, c, id)
    BY <1>4, <1>11 DEF Flushes
  <2>2. ASSUME NEW c, NEW id, NEW p, NEW i PROVE Waits(p, i, c, id)' <=> p # q /\ Waits(p, i, c, id)
    BY <1>11 DEF Flushes, Waits
  <2>3. ASSUME NEW c, NEW id, NEW i
        PROVE  Finished(i, c, id)' <=>
                 Finished(i, c, id) \/ \E j \in Nat : i = Len(done) + j /\ Waits(q, j, c, id)
    <3> DEFINE n == Len(store[q].addresses)
    <3>1. Logs(n) /\ q \in DOMAIN store
      BY <1>11 DEF Flushes
    <3>2. Finished(i, c, id)' <=>
             \/ Finished(i, c, id)
             \/ \E j \in 1 .. n : /\ i = Len(done) + j /\ done'[i].q \in Questions
                                  /\ done'[i].to = c /\ done'[i].id = id
      BY <3>1, LoggedPositions
    <3>3. ASSUME NEW j \in 1 .. n
          PROVE  LET a == done'[Len(done) + j]
                 IN  a.q \in Questions /\ (a.to = c /\ a.id = id <=> Waits(q, j, c, id))
      BY <1>11, <3>1 DEF Flushes, Waits
    <3>4. \A j : Waits(q, j, c, id) => j \in 1 .. n /\ j \in Nat
      BY <3>1 DEF Waits, Logs
    <3> QED
      BY <3>2, <3>3, <3>4
  <2>4. \A c, id, i, j : ~(j \in Nat /\ Waits(q, j, c, id) /\ i = Len(done) + j /\ Finished(i, c, id))
    BY <1>11 DEF Flushes, Logs, Finished, Waits
  <2>5. /\ Len(done) \in Nat
        /\ \A c, id, j : Waits(q, j, c, id) => j \in Nat
    BY <1>11 DEF Flushes, Logs, Waits
  <2>6. NoneTwice'
    BY <2>1, <2>2, <2>3, <2>4, <2>5 DEF NoneTwice
  <2>7. \A c, id : Somewhere(c, id) => Somewhere(c, id)'
    BY <2>1, <2>2, <2>3, <2>5 DEF Somewhere
  <2> QED
    BY <1>5, <1>11, <2>6, <2>7 DEF Flushes
<1>12. ASSUME NEW b \in Clients, NEW q \in Questions \cup {Ptr}, Asks(b, q) PROVE NoneTwice' /\ NoneForgotten'
  <2>1. PICK new \in Nat : new = Len(asked[b]) + 1
    BY <1>12 DEF Asks
  <2>2. ASSUME NEW c, NEW id, NEW i
        PROVE  Unread(i, c, id)' <=>
                 Unread(i, c, id) \/ (i = Len(In) + 1 /\ q \in Questions /\ c = b /\ id = new)
    BY <1>12, <2>1, AddedPositions DEF Asks
  <2>3. /\ \A c, id, p, i : Waits(p, i, c, id)' <=> Waits(p, i, c, id)
        /\ \A c, id, i : Finished(i, c, id)' <=> Finished(i, c, id)
    BY <1>2, <1>3, <1>12 DEF Asks
  <2>4. /\ \A i : ~Unread(i, b, new)
        /\ \A p, i : ~Waits(p, i, b, new)
        /\ \A i : ~Finished(i, b, new)
    <3>1. new \notin 1 .. Len(asked[b])
      BY <1>12, <2>1 DEF Asks
    <3>2. \A i : ~Unread(i, b, new)
      BY <1>1, <3>1 DEF Matching, IsAsked, Unread, In
    <3>3. \A p, i : ~Waits(p, i, b, new)
      BY <3>1 DEF Matching, IsAsked, Waits
    <3>4. \A i : ~Finished(i, b, new)
      BY <1>1, <3>1 DEF Matching, IsAsked, Finished
    <3> QED
      BY <3>2, <3>3, <3>4
  <2>5. NoneTwice'
    BY <2>2, <2>3, <2>4 DEF NoneTwice
  <2>6. \A c, id : Somewhere(c, id) => Somewhere(c, id)'
    BY <2>2, <2>3 DEF Somewhere
  <2>7. ASSUME NEW c \in Clients, NEW id \in 1 .. Len(asked'[c]), asked'[c][id] # Ptr PROVE Somewhere(c, id)'
    <3>1. /\ Len(asked'[b]) = new /\ asked'[b][new] = q
          /\ \A a \in Clients \ {b} : asked'[a] = asked[a]
          /\ \A k \in 1 .. Len(asked[b]) : asked'[b][k] = asked[b][k]
      BY <1>12, <2>1, AskedStays
    <3>2. CASE c = b /\ id = new
      <4>1. q \in Questions
        BY <2>7, <3>1, <3>2
      <4>2. PICK i \in Nat : i = Len(In) + 1
        BY <1>12 DEF Asks, AddsDatagram
      <4>3. Unread(i, c, id)'
        BY <2>2, <3>2, <4>1, <4>2
      <4> QED
        BY <4>3 DEF Somewhere
    <3>3. CASE ~(c = b /\ id = new)
      <4>1. id \in 1 .. Len(asked[c]) /\ asked[c][id] # Ptr
        BY <1>12, <2>1, <2>7, <3>1, <3>3 DEF Asks
      <4> QED
        BY <2>6, <4>1 DEF NoneForgotten
    <3> QED
      BY <3>2, <3>3
  <2> QED
    BY <2>5, <2>7 DEF NoneForgotten
<1> QED
  BY <1>6, <1>7, <1>8, <1>9, <1>10, <1>11, <1>12, StepKinds

\* Every query for a server is unread, waits or was dealt with, at one position
\* of one of these: nobody is forgotten and nobody is answered twice.
THEOREM QueriesOnce == Spec => []EachQueryOnce
<1>1. Init => NoneTwice /\ NoneForgotten /\ Matching
  BY DEF Init, NoneTwice, NoneForgotten, Matching, Somewhere, Unread, Waits, Finished, In, Sockets
<1>2. NoneTwice /\ NoneForgotten => EachQueryOnce
  <2> SUFFICES ASSUME NoneTwice, NoneForgotten, NEW c \in Clients, NEW id \in 1 .. Len(asked[c]),
                      asked[c][id] # Ptr
               PROVE  \E p \in Places(c, id) : Places(c, id) = {p}
    BY DEF EachQueryOnce
  <2>1. \A x : x \in Places(c, id) <=>
                 \/ \E i : Unread(i, c, id) /\ x = <<"unread", i>>
                 \/ \E q, i : Waits(q, i, c, id) /\ x = <<"waits", q, i>>
                 \/ \E i : Finished(i, c, id) /\ x = <<"finished", i>>
    <3>1. /\ \A i : Unread(i, c, id) => i \in 1 .. Len(sockets["local"].in)
          /\ \A q, i : Waits(q, i, c, id) => q \in DOMAIN store /\ i \in 1 .. Len(store[q].addresses)
          /\ \A i : Finished(i, c, id) => i \in 1 .. Len(done)
      BY DEF Unread, Waits, Finished
    <3>2. \A x : x \in UnreadPlaces(c, id) <=> \E i : Unread(i, c, id) /\ x = <<"unread", i>>
      BY <3>1 DEF UnreadPlaces
    <3>3. \A x : x \in WaitingPlaces(c, id) <=> \E q, i : Waits(q, i, c, id) /\ x = <<"waits", q, i>>
      BY <3>1 DEF WaitingPlaces
    <3>4. \A x : x \in FinishedPlaces(c, id) <=> \E i : Finished(i, c, id) /\ x = <<"finished", i>>
      BY <3>1 DEF FinishedPlaces
    <3> QED
      BY <3>2, <3>3, <3>4 DEF Places
  <2>2. ASSUME NEW i, Unread(i, c, id) PROVE Places(c, id) = {<<"unread", i>>}
    BY <2>1, <2>2 DEF NoneTwice
  <2>3. ASSUME NEW q, NEW i, Waits(q, i, c, id) PROVE Places(c, id) = {<<"waits", q, i>>}
    BY <2>1, <2>3 DEF NoneTwice
  <2>4. ASSUME NEW i, Finished(i, c, id) PROVE Places(c, id) = {<<"finished", i>>}
    BY <2>1, <2>4 DEF NoneTwice
  <2>5. Somewhere(c, id)
    BY DEF NoneForgotten
  <2> QED
    BY <2>2, <2>3, <2>4, <2>5 DEF Somewhere
<1> QED
  BY <1>1, <1>2, TypeCorrect, MatchingStep, OnceStep, PTL DEF Spec
=============================================================================
