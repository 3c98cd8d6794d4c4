------------------------- MODULE DnsResolverProofs -------------------------
(***************************************************************************)
(* Proofs about DnsResolver, for any number of askers and threads.         *)
(***************************************************************************)
EXTENDS DnsResolver, TLAPS

\* A token that has not asked has no thread.
UnaskedIdle == \A t \in Tokens : answer[t].st = "unasked" => job[t].pc = "none"

\* The domain of a question is the one its thread and its result carry, and
\* a thread's result is one that a lookup returned.
JobsAgree ==
  \A t \in Tokens :
    /\ job[t].pc \in {"lookup", "send"} => job[t].domain = answer[t].domain
    /\ job[t].pc = "send" => <<job[t].domain, job[t].ip>> \in looked

MessagesAgree ==
  \A i \in 1 .. Len(channel) : channel[i].domain = answer[channel[i].token].domain

\* The expiry time is counted from the last update.
CacheAges ==
  /\ \A d \in Domains : updated[d] <= now
  /\ \A d \in DOMAIN dns_cache : dns_cache[d].expired_time = updated[d] + CacheTime

USE DEF Results

\* Every step of the resolver keeps its variables in their types.
LEMMA TypeStep == TypeOK /\ [Next]_resolverVars => TypeOK'
<1> SUFFICES ASSUME TypeOK, [Next]_resolverVars PROVE TypeOK'
  OBVIOUS
<1>1. ASSUME NEW t \in Tokens, NEW d \in Domains, AskCached(t, d) PROVE TypeOK'
  BY <1>1 DEF AskCached, Fresh, TypeOK, Entries, Told, Answers
<1>2. ASSUME NEW t \in Tokens, NEW d \in Domains, AskResolve(t, d) PROVE TypeOK'
  BY <1>2 DEF AskResolve, TypeOK, Jobs, Answers
<1>3. ASSUME NEW t \in Tokens, Lookup(t) PROVE TypeOK'
  <2>1. PICK ip \in Results :
          /\ job' = [job EXCEPT ![t] = [@ EXCEPT !.pc = "send", !.ip = ip]]
          /\ looked' = looked \cup {<<job[t].domain, ip>>}
    BY <1>3 DEF Lookup
  <2>2. job[t] \in Jobs /\ job[t].domain \in Domains
    BY <1>3 DEF Lookup, TypeOK
  <2>3. [job[t] EXCEPT !.pc = "send", !.ip = ip] \in Jobs
    BY <2>2 DEF Jobs
  <2>4. [job[t] EXCEPT !.pc = "send", !.ip = ip].domain \in Domains
    BY <2>2 DEF Jobs
  <2>5. /\ job' \in [Tokens -> Jobs]
        /\ \A u \in Tokens : job'[u].pc # "none" => job'[u].domain \in Domains
    BY <2>1, <2>3, <2>4 DEF TypeOK
  <2> QED
    BY <1>3, <2>1, <2>2, <2>5 DEF Lookup, TypeOK
<1>4. ASSUME NEW t \in Tokens, Send(t) PROVE TypeOK'
  BY <1>4 DEF Send, TypeOK, Jobs, Messages
<1>5. ASSUME NEW t \in Tokens, Wake(t) PROVE TypeOK'
  BY <1>5 DEF Wake, TypeOK, Jobs
<1>6. CASE Poll
  BY <1>6 DEF Poll, TypeOK
<1>7. CASE Consume
  BY <1>7 DEF Consume, TypeOK
<1>8. CASE ConsumeOne
  <2> DEFINE m == Head(channel)
  <2>1. m \in Messages /\ channel' \in Seq(Messages)
    BY <1>8 DEF ConsumeOne, TypeOK
  <2>2. m.token \in Tokens /\ m.domain \in Domains /\ m.ip \in Results
    BY <2>1 DEF Messages
  <2> HIDE DEF m
  <2>3. answer' \in [Tokens -> Answers]
    BY <1>8, <2>2 DEF ConsumeOne, TypeOK, Answers, Told, m
  <2>4. updated' \in [Domains -> Nat]
    BY <1>8, <2>2 DEF ConsumeOne, TypeOK, m
  <2>5. /\ DOMAIN dns_cache' \subseteq Domains
        /\ \A d \in DOMAIN dns_cache' : dns_cache'[d] \in Entries
    BY <1>8, <2>2, TimeAssumption DEF ConsumeOne, TypeOK, Entries, m
  <2> QED
    BY <1>8, <2>1, <2>3, <2>4, <2>5 DEF ConsumeOne, TypeOK
<1>9. CASE ConsumeDone
  BY <1>9 DEF ConsumeDone, TypeOK
<1>10. CASE Tick
  BY <1>10 DEF Tick, TypeOK
<1>11. CASE UNCHANGED resolverVars
  BY <1>11 DEF resolverVars, TypeOK
<1> QED
  BY <1>1, <1>2, <1>3, <1>4, <1>5, <1>6, <1>7, <1>8, <1>9, <1>10, <1>11
  DEF Next, Ask, Thread

\* The resolver starts with every variable in its type.
LEMMA TypeInit == Init => TypeOK
<1> SUFFICES ASSUME Init PROVE TypeOK
  OBVIOUS
<1>1. NoJob \in Jobs /\ NoJob.pc = "none"
  BY DEF NoJob, Jobs
<1>2. Unasked \in Answers
  BY DEF Unasked, Answers
<1>3. DOMAIN dns_cache = {}
  BY DEF Init
<1>4. job \in [Tokens -> Jobs] /\ \A t \in Tokens : job[t].pc = "none"
  BY <1>1 DEF Init
<1>5. channel \in Seq(Messages)
  BY DEF Init
<1>6. answer \in [Tokens -> Answers]
  BY <1>2 DEF Init
<1>7. looked \subseteq Domains \X Results /\ updated \in [Domains -> Nat]
  BY DEF Init
<1> QED
  BY <1>3, <1>4, <1>5, <1>6, <1>7 DEF Init, TypeOK

\* The resolver's variables keep their types.
THEOREM Typed == Spec => []TypeOK
<1> QED
  BY TypeInit, TypeStep, PTL DEF Spec

-----------------------------------------------------------------------------
\* The thread that appends to the channel still has its wake() to do, only an
\* empty channel sends the loop back to poll, and asking restarts no thread.
Wakeup == UnaskedIdle /\ NoLostWakeup

\* No step of a thread or of the loop leaves a result without a wake-up.
LEMMA WakeupStep == TypeOK /\ Wakeup /\ [Next]_resolverVars => Wakeup'
<1> SUFFICES ASSUME TypeOK, Wakeup, [Next]_resolverVars PROVE Wakeup'
  OBVIOUS
<1> USE DEF Wakeup, UnaskedIdle, NoLostWakeup
<1>1. ASSUME NEW t \in Tokens, NEW d \in Domains, AskCached(t, d) PROVE Wakeup'
  BY <1>1 DEF AskCached, TypeOK, Answers, Told
<1>2. ASSUME NEW t \in Tokens, NEW d \in Domains, AskResolve(t, d) PROVE Wakeup'
  <2>1. \A u \in Tokens : job[u].pc = "wake" => job'[u].pc = "wake"
    BY <1>2 DEF AskResolve, TypeOK
  <2>2. \A u \in Tokens : answer'[u].st = "unasked" => u # t
    BY <1>2 DEF AskResolve, TypeOK
  <2>3. UnaskedIdle'
    BY <1>2, <2>2 DEF AskResolve, TypeOK
  <2> QED
    BY <1>2, <2>1, <2>3 DEF AskResolve
<1>3. ASSUME NEW t \in Tokens, Lookup(t) PROVE Wakeup'
  BY <1>3 DEF Lookup, TypeOK
<1>4. ASSUME NEW t \in Tokens, Send(t) PROVE Wakeup'
  <2>1. job'[t].pc = "wake"
    BY <1>4 DEF Send, TypeOK, Jobs
  <2>2. UnaskedIdle'
    BY <1>4 DEF Send, TypeOK
  <2> QED
    BY <2>1, <2>2
<1>5. ASSUME NEW t \in Tokens, Wake(t) PROVE Wakeup'
  BY <1>5 DEF Wake, TypeOK
<1>6. CASE Poll
  BY <1>6 DEF Poll
<1>7. CASE Consume
  BY <1>7 DEF Consume
<1>8. CASE ConsumeOne
  <2>1. Head(channel) \in Messages
    BY <1>8 DEF ConsumeOne, TypeOK
  <2>2. \A u \in Tokens : answer'[u].st = "unasked" => answer[u].st = "unasked"
    BY <1>8, <2>1 DEF ConsumeOne, TypeOK, Messages, Told
  <2> QED
    BY <1>8, <2>2 DEF ConsumeOne
<1>9. CASE ConsumeDone
  BY <1>9 DEF ConsumeDone, Drained
<1>10. CASE Tick
  BY <1>10 DEF Tick
<1>11. CASE UNCHANGED resolverVars
  BY <1>11 DEF resolverVars
<1> QED
  BY <1>1, <1>2, <1>3, <1>4, <1>5, <1>6, <1>7, <1>8, <1>9, <1>10, <1>11
  DEF Next, Ask, Thread

\* A result that a thread has sent is never left in the channel without a
\* wake-up: send() before wake() in resolve(), and consume() draining to the
\* end, suffice for any number of threads.
THEOREM WakeupNeverLost == Spec => []NoLostWakeup
<1>1. Init => Wakeup
  BY DEF Init, Wakeup, UnaskedIdle, NoLostWakeup, NoJob
<1>2. Wakeup => NoLostWakeup
  BY DEF Wakeup
<1> QED
  BY <1>1, <1>2, WakeupStep, Typed, PTL DEF Spec

-----------------------------------------------------------------------------
\* A step moves at most one answer: from its thread to the channel, or from
\* the channel to its asker.
LEMMA OneAnswerStep ==
  TypeOK /\ Wakeup /\ OneAnswerEach /\ [Next]_resolverVars => OneAnswerEach'
<1> SUFFICES ASSUME TypeOK, UnaskedIdle, OneAnswerEach, [Next]_resolverVars PROVE OneAnswerEach'
  BY DEF Wakeup
<1> USE DEF OneAnswerEach, InChannel
<1>1. ASSUME NEW t \in Tokens, NEW d \in Domains, AskCached(t, d) PROVE OneAnswerEach'
  BY <1>1 DEF AskCached, TypeOK, Answers, Told
<1>2. ASSUME NEW t \in Tokens, NEW d \in Domains, AskResolve(t, d) PROVE OneAnswerEach'
  BY <1>2 DEF AskResolve, TypeOK
<1>3. ASSUME NEW t \in Tokens, Lookup(t) PROVE OneAnswerEach'
  BY <1>3 DEF Lookup, TypeOK, Jobs
<1>4. ASSUME NEW t \in Tokens, Send(t) PROVE OneAnswerEach'
  <2> DEFINE m == [token |-> t, domain |-> job[t].domain, ip |-> job[t].ip]
  <2>1. answer[t].st = "asked" /\ ~InChannel(t)
    BY <1>4 DEF Send
  <2>2. channel' = Append(channel, m) /\ channel \in Seq(Messages)
    BY <1>4 DEF Send, TypeOK
  <2>3. /\ Len(channel') = Len(channel) + 1 /\ Len(channel) \in Nat
        /\ \A i \in 1 .. Len(channel) : channel'[i] = channel[i]
        /\ channel'[Len(channel) + 1].token = t
    BY <2>2
  <2>4. \A u \in Tokens : InChannel(u)' <=> InChannel(u) \/ u = t
    BY <2>3
  <2>5. \A u \in Tokens : u # t => job'[u] = job[u]
    BY <1>4 DEF Send, TypeOK
  <2>6. job'[t].pc = "wake" /\ answer' = answer
    BY <1>4 DEF Send, TypeOK, Jobs
  <2>7. \A i, j \in 1 .. Len(channel') : channel'[i].token = channel'[j].token => i = j
    BY <2>1, <2>3
  <2> HIDE DEF InChannel
  <2> QED
    BY <2>1, <2>4, <2>5, <2>6, <2>7
<1>5. ASSUME NEW t \in Tokens, Wake(t) PROVE OneAnswerEach'
  BY <1>5 DEF Wake, TypeOK, Jobs
<1>6. CASE Poll
  BY <1>6 DEF Poll
<1>7. CASE Consume
  BY <1>7 DEF Consume
<1>8. CASE ConsumeOne
  <2> DEFINE t == Head(channel).token
  <2>1. channel \in Seq(Messages) /\ channel # <<>> /\ channel' = Tail(channel)
    BY <1>8 DEF ConsumeOne, TypeOK
  <2>a. Len(channel) \in Nat \ {0} /\ Head(channel) = channel[1] /\ channel[1] \in Messages
    BY <2>1
  <2>b. /\ Len(channel') = Len(channel) - 1
        /\ \A i \in 1 .. Len(channel') : channel'[i] = channel[i + 1]
    BY <2>1
  <2>c. t \in Tokens
    BY <2>a DEF Messages
  <2>2. /\ Len(channel') = Len(channel) - 1 /\ Len(channel) \in Nat \ {0}
        /\ \A i \in 1 .. Len(channel') : channel'[i] = channel[i + 1]
        /\ Head(channel) = channel[1] /\ t \in Tokens
    BY <2>a, <2>b, <2>c
  <2>3. \A u \in Tokens : InChannel(u)' => InChannel(u) /\ u # t
    BY <2>2
  <2>4. \A u \in Tokens : InChannel(u) /\ u # t => InChannel(u)'
    <3> SUFFICES ASSUME NEW u \in Tokens, NEW i \in 1 .. Len(channel),
                        channel[i].token = u, u # t
                 PROVE  InChannel(u)'
      OBVIOUS
    <3>1. i # 1 /\ i - 1 \in 1 .. Len(channel') /\ channel'[i - 1] = channel[i]
      BY <2>2
    <3> QED
      BY <3>1
  <2>5. \A u \in Tokens : u # t => answer'[u] = answer[u]
    BY <1>8 DEF ConsumeOne, TypeOK
  <2>6. answer'[t].st = "told" /\ job' = job
    BY <1>8, <2>2 DEF ConsumeOne, TypeOK, Told
  <2>7. \A i, j \in 1 .. Len(channel') : channel'[i].token = channel'[j].token => i = j
    BY <2>2
  <2>8. InChannel(t)
    BY <2>2
  <2> HIDE DEF InChannel, t
  <2> QED
    BY <2>2, <2>3, <2>4, <2>5, <2>6, <2>7, <2>8
<1>9. CASE ConsumeDone
  BY <1>9 DEF ConsumeDone
<1>10. CASE Tick
  BY <1>10 DEF Tick
<1>11. CASE UNCHANGED resolverVars
  BY <1>11 DEF resolverVars
<1> QED
  BY <1>1, <1>2, <1>3, <1>4, <1>5, <1>6, <1>7, <1>8, <1>9, <1>10, <1>11
  DEF Next, Ask, Thread

\* Whatever the threads and the loop do, a waiting asker has exactly one answer
\* on its way and a told one has none.
THEOREM AnsweredOnce == Spec => []OneAnswerEach
<1>1. Init => Wakeup /\ OneAnswerEach
  BY DEF Init, Wakeup, UnaskedIdle, NoLostWakeup, NoJob, Unasked, OneAnswerEach, InChannel
<1> QED
  BY <1>1, WakeupStep, OneAnswerStep, Typed, PTL DEF Spec

-----------------------------------------------------------------------------
\* What is cached, sent or told belongs to the domain in question.
Agreement == JobsAgree /\ MessagesAgree /\ AddressesOfTheirDomain

\* Question, thread, result, cache entry and answer go on naming one domain.
LEMMA AgreementStep ==
  TypeOK /\ Wakeup /\ OneAnswerEach /\ Agreement /\ [Next]_resolverVars => Agreement'
<1> SUFFICES ASSUME TypeOK, UnaskedIdle, OneAnswerEach, Agreement, [Next]_resolverVars
             PROVE  Agreement'
  BY DEF Wakeup
<1> USE DEF Agreement, JobsAgree, MessagesAgree, AddressesOfTheirDomain
<1>t. /\ Len(channel) \in Nat
      /\ \A i \in 1 .. Len(channel) :
           channel[i].token \in Tokens /\ answer[channel[i].token].st = "asked"
  <2>1. Len(channel) \in Nat /\ \A i \in 1 .. Len(channel) : channel[i].token \in Tokens
    <3>1. Len(channel) \in Nat /\ \A i \in 1 .. Len(channel) : channel[i] \in Messages
      BY DEF TypeOK
    <3> QED
      BY <3>1 DEF Messages
  <2> QED
    BY <2>1 DEF OneAnswerEach, InChannel
<1>1. ASSUME NEW t \in Tokens, NEW d \in Domains, AskCached(t, d) PROVE Agreement'
  <2>1. /\ answer'[t] = Told(d, dns_cache[d].address) /\ d \in DOMAIN dns_cache
        /\ \A u \in Tokens : u # t => answer'[u] = answer[u]
        /\ answer[t].st = "unasked" /\ job[t].pc = "none"
    BY <1>1 DEF AskCached, Fresh, TypeOK, UnaskedIdle
  <2>2. JobsAgree'
    BY <1>1, <2>1 DEF AskCached
  <2>3. MessagesAgree'
    BY <1>1, <1>t, <2>1 DEF AskCached
  <2>4. AddressesOfTheirDomain'
    BY <1>1, <2>1 DEF AskCached, Told
  <2> QED
    BY <2>2, <2>3, <2>4
<1>2. ASSUME NEW t \in Tokens, NEW d \in Domains, AskResolve(t, d) PROVE Agreement'
  <2>1. /\ answer'[t].st = "asked" /\ answer'[t].domain = d /\ answer[t].st = "unasked"
        /\ \A u \in Tokens : u # t => answer'[u] = answer[u] /\ job'[u] = job[u]
        /\ job'[t].pc = "lookup" /\ job'[t].domain = d
        /\ \A e \in DOMAIN dns_cache' : e \in DOMAIN dns_cache /\ dns_cache'[e] = dns_cache[e]
    BY <1>2 DEF AskResolve, TypeOK
  <2>2. JobsAgree'
    BY <1>2, <2>1 DEF AskResolve
  <2>3. MessagesAgree'
    BY <1>2, <1>t, <2>1 DEF AskResolve
  <2>4. AddressesOfTheirDomain'
    BY <1>2, <2>1 DEF AskResolve
  <2> QED
    BY <2>2, <2>3, <2>4
<1>3. ASSUME NEW t \in Tokens, Lookup(t) PROVE Agreement'
  <2>1. PICK ip \in Results :
          /\ job' = [job EXCEPT ![t] = [@ EXCEPT !.pc = "send", !.ip = ip]]
          /\ looked' = looked \cup {<<job[t].domain, ip>>}
    BY <1>3 DEF Lookup
  <2>2. /\ job'[t].domain = job[t].domain /\ job'[t].ip = ip
        /\ \A u \in Tokens : u # t => job'[u] = job[u]
    BY <2>1 DEF TypeOK, Jobs
  <2>3. JobsAgree'
    BY <1>3, <2>1, <2>2 DEF Lookup
  <2>4. MessagesAgree' /\ AddressesOfTheirDomain'
    BY <1>3, <2>1 DEF Lookup
  <2> QED
    BY <2>3, <2>4
<1>4. ASSUME NEW t \in Tokens, Send(t) PROVE Agreement'
  <2> DEFINE m == [token |-> t, domain |-> job[t].domain, ip |-> job[t].ip]
  <2>1. channel' = Append(channel, m) /\ channel \in Seq(Messages)
    BY <1>4 DEF Send, TypeOK
  <2>2. /\ Len(channel') = Len(channel) + 1
        /\ \A i \in 1 .. Len(channel) : channel'[i] = channel[i]
        /\ channel'[Len(channel) + 1] = m
    BY <2>1
  <2>3. job[t].domain = answer[t].domain /\ <<job[t].domain, job[t].ip>> \in looked
    BY <1>4 DEF Send
  <2>4. /\ job'[t].pc = "wake" /\ \A u \in Tokens : u # t => job'[u] = job[u]
        /\ answer' = answer /\ looked' = looked /\ dns_cache' = dns_cache
    BY <1>4 DEF Send, TypeOK, Jobs
  <2>5. JobsAgree'
    BY <2>4
  <2>6. MessagesAgree'
    BY <1>t, <2>2, <2>3, <2>4
  <2>7. AddressesOfTheirDomain'
    BY <1>t, <2>2, <2>3, <2>4
  <2> QED
    BY <2>5, <2>6, <2>7
<1>5. ASSUME NEW t \in Tokens, Wake(t) PROVE Agreement'
  <2>1. job'[t].pc = "done" /\ \A u \in Tokens : u # t => job'[u] = job[u]
    BY <1>5 DEF Wake, TypeOK, Jobs
  <2> QED
    BY <1>5, <2>1 DEF Wake
<1>6. CASE Poll
  BY <1>6 DEF Poll
<1>7. CASE Consume
  BY <1>7 DEF Consume
<1>8. CASE ConsumeOne
  <2> DEFINE m == Head(channel)
  <2>1. channel \in Seq(Messages) /\ channel # <<>> /\ channel' = Tail(channel)
    BY <1>8 DEF ConsumeOne, TypeOK
  <2>2. m = channel[1] /\ 1 \in 1 .. Len(channel)
    BY <2>1
  <2>3. /\ Len(channel') = Len(channel) - 1
        /\ \A i \in 1 .. Len(channel') : channel'[i] = channel[i + 1]
    BY <2>1
  <2>4. /\ m.token \in Tokens /\ m.domain = answer[m.token].domain
        /\ <<m.domain, m.ip>> \in looked /\ answer[m.token].st = "asked"
    BY <2>2, <1>t
  <2>5. \A i \in 1 .. Len(channel') : channel'[i].token # m.token
    BY <1>t, <2>2, <2>3 DEF OneAnswerEach
  <2> HIDE DEF m
  <2>6. /\ answer'[m.token] = Told(m.domain, m.ip)
        /\ \A u \in Tokens : u # m.token => answer'[u] = answer[u]
        /\ job' = job /\ looked' = looked
    BY <1>8, <2>4 DEF ConsumeOne, TypeOK, m
  <2>a. /\ answer'[m.token].st = "told" /\ answer'[m.token].ip = m.ip
        /\ answer'[m.token].domain = m.domain
    BY <2>6 DEF Told
  <2>7. \A d \in DOMAIN dns_cache' :
          \/ d \in DOMAIN dns_cache /\ dns_cache'[d] = dns_cache[d]
          \/ d = m.domain /\ dns_cache'[d].address = m.ip
    BY <1>8 DEF ConsumeOne, m
  <2>8. JobsAgree'
    BY <2>4, <2>6, <2>a
  <2>9. MessagesAgree'
    BY <1>t, <2>3, <2>5, <2>6
  <2>10. AddressesOfTheirDomain'
    <3>1. \A d \in DOMAIN dns_cache' : <<d, dns_cache'[d].address>> \in looked'
      BY <2>4, <2>6, <2>7
    <3>2. \A i \in 1 .. Len(channel') : <<channel'[i].domain, channel'[i].ip>> \in looked'
      BY <1>t, <2>3, <2>6
    <3>3. \A u \in Tokens : answer'[u].st = "told" => <<answer'[u].domain, answer'[u].ip>> \in looked'
      BY <2>4, <2>6, <2>a
    <3> QED
      BY <3>1, <3>2, <3>3
  <2> QED
    BY <2>8, <2>9, <2>10
<1>9. CASE ConsumeDone
  BY <1>9 DEF ConsumeDone
<1>10. CASE Tick
  BY <1>10 DEF Tick
<1>11. CASE UNCHANGED resolverVars
  BY <1>11 DEF resolverVars
<1> QED
  BY <1>1, <1>2, <1>3, <1>4, <1>5, <1>6, <1>7, <1>8, <1>9, <1>10, <1>11
  DEF Next, Ask, Thread

\* No asker is ever told, and the cache never holds, an address that was not
\* looked up for the domain it asked for.
THEOREM NoMixedAddresses == Spec => []AddressesOfTheirDomain
<1>1. Init => Wakeup /\ OneAnswerEach /\ Agreement
  BY DEF Init, Wakeup, UnaskedIdle, NoLostWakeup, NoJob, Unasked, OneAnswerEach, InChannel,
         Agreement, JobsAgree, MessagesAgree, AddressesOfTheirDomain
<1>2. Agreement => AddressesOfTheirDomain
  BY DEF Agreement
<1> QED
  BY <1>1, <1>2, WakeupStep, OneAnswerStep, AgreementStep, Typed, PTL DEF Spec

-----------------------------------------------------------------------------
\* update_dns sets both times together, and the clock never goes back.
LEMMA AgesStep == TypeOK /\ CacheAges /\ [Next]_resolverVars => CacheAges'
<1> SUFFICES ASSUME TypeOK, CacheAges, [Next]_resolverVars PROVE CacheAges'
  OBVIOUS
<1> USE DEF CacheAges
<1>1. ASSUME NEW t \in Tokens, NEW d \in Domains, AskCached(t, d) PROVE CacheAges'
  BY <1>1 DEF AskCached
<1>2. ASSUME NEW t \in Tokens, NEW d \in Domains, AskResolve(t, d) PROVE CacheAges'
  BY <1>2 DEF AskResolve
<1>3. ASSUME NEW t \in Tokens, Lookup(t) PROVE CacheAges'
  BY <1>3 DEF Lookup
<1>4. ASSUME NEW t \in Tokens, Send(t) PROVE CacheAges'
  BY <1>4 DEF Send
<1>5. ASSUME NEW t \in Tokens, Wake(t) PROVE CacheAges'
  BY <1>5 DEF Wake
<1>6. CASE ConsumeOne
  <2> DEFINE m == Head(channel)
  <2>1. m \in Messages
    BY <1>6 DEF ConsumeOne, TypeOK
  <2>2. m.domain \in Domains
    BY <2>1 DEF Messages
  <2> HIDE DEF m
  <2>3. CASE m.ip = NoAddress
    BY <1>6, <2>3 DEF ConsumeOne, m
  <2>4. CASE m.ip # NoAddress
    <3>1. /\ updated'[m.domain] = now /\ now' = now /\ now \in Nat
          /\ \A d \in Domains : d # m.domain => updated'[d] = updated[d]
      BY <1>6, <2>2, <2>4 DEF ConsumeOne, TypeOK, m
    <3>2. /\ DOMAIN dns_cache' = DOMAIN dns_cache \cup {m.domain}
          /\ dns_cache'[m.domain].expired_time = now + CacheTime
          /\ \A d \in DOMAIN dns_cache : d # m.domain => dns_cache'[d] = dns_cache[d]
      BY <1>6, <2>4 DEF ConsumeOne, m
    <3> QED
      BY <2>2, <3>1, <3>2 DEF TypeOK
  <2> QED
    BY <2>3, <2>4
<1>7. CASE Tick
  BY <1>7 DEF Tick, TypeOK
<1>8. CASE Poll \/ Consume \/ ConsumeDone \/ UNCHANGED resolverVars
  BY <1>8 DEF Poll, Consume, ConsumeDone, resolverVars
<1> QED
  BY <1>1, <1>2, <1>3, <1>4, <1>5, <1>6, <1>7, <1>8 DEF Next, Ask, Thread

\* An asker that is answered out of the cache gets an address that update_dns
\* stored less than dns_cache_duration ago, for every duration and every
\* number of lookups that ran in between.
THEOREM CacheHitIsFresh == Spec => HitIsFresh
<1>1. Init => CacheAges
  BY DEF Init, CacheAges
<1>2. TypeOK /\ CacheAges =>
        [\A t \in Tokens, d \in Domains :
           AskCached(t, d) => d \in DOMAIN dns_cache /\ now - updated[d] < CacheTime]_resolverVars
  <2> SUFFICES ASSUME TypeOK, CacheAges, NEW t \in Tokens, NEW d \in Domains, AskCached(t, d)
               PROVE  d \in DOMAIN dns_cache /\ now - updated[d] < CacheTime
    OBVIOUS
  <2>1. d \in DOMAIN dns_cache /\ dns_cache[d].expired_time > now
    BY DEF AskCached, Fresh
  <2> QED
    BY <2>1, TimeAssumption DEF CacheAges, TypeOK
<1> QED
  BY <1>1, <1>2, AgesStep, Typed, PTL DEF Spec, HitIsFresh
============================================================================
