---------------------------- MODULE DnsResolver ----------------------------
(***************************************************************************)
(* The asynchronous resolver of resolver.rs.  The event loop asks it for a *)
(* domain on behalf of a token; a cached address that has not expired is   *)
(* the answer at once, otherwise a rayon thread looks the domain up, sends *)
(* the result over an mpsc channel and only then wakes the poll.  The      *)
(* event loop drains the channel when it handles the wake-up.  Threads     *)
(* interleave with the loop and with each other between any two steps.     *)
(*                                                                         *)
(* A token asks at most once (a server connection resolves its target once *)
(* in its life), so the thread that works for a token is named by it.      *)
(***************************************************************************)
EXTENDS Integers, Sequences

CONSTANTS
  Tokens,     \* who may ask
  Domains,
  Addresses,
  NoAddress,  \* the lookup's None
  NoDomain,   \* the domain of a token that has not asked
  CacheTime,  \* dns_cache_duration
  MaxTime     \* bound of the clock

ASSUME NoneAssumption == NoAddress \notin Addresses /\ NoDomain \notin Domains
ASSUME TimeAssumption == CacheTime \in Nat /\ MaxTime \in Nat

VARIABLES
  now,        \* Instant::now()
  dns_cache,  \* domain -> DnsEntry, for the domains that have one
  job,        \* token -> its thread: where it is, for which domain, with what
  channel,    \* results sent and not received yet
  waker,      \* an edge of the poll's Waker that poll has not reported yet
  loop,       \* "poll"; "woken", the event is reported; "drain", in consume()
  answer,     \* token -> what its asker was told, a history variable
  looked,     \* <<domain, address>> pairs that lookups returned, history
  updated     \* domain -> when update_dns last ran for it, history

resolverVars == <<now, dns_cache, job, channel, waker, loop, answer, looked, updated>>

NoJob == [pc |-> "none", domain |-> NoDomain, ip |-> NoAddress]

Unasked == [st |-> "unasked", domain |-> NoDomain, ip |-> NoAddress]

Results == Addresses \cup {NoAddress}

Jobs ==
  [pc : {"none", "lookup", "send", "wake", "done"}, domain : Domains \cup {NoDomain}, ip : Results]

Answers == [st : {"unasked", "asked", "told"}, domain : Domains \cup {NoDomain}, ip : Results]

Entries == [address : Addresses, expired_time : Nat]

Messages == [token : Tokens, domain : Domains, ip : Results]

Told(d, ip) == [st |-> "told", domain |-> d, ip |-> ip]

Init ==
  /\ now = 0
  /\ dns_cache = [d \in {} |-> {}]
  /\ job = [t \in Tokens |-> NoJob]
  /\ channel = <<>>
  /\ waker = FALSE
  /\ loop = "poll"
  /\ answer = [t \in Tokens |-> Unasked]
  /\ looked = {}
  /\ updated = [d \in Domains |-> 0]

-----------------------------------------------------------------------------
(* Asking: query_dns, and resolve when it finds nothing. *)

\* A cache that never looks at the expiry time.
Fresh_ignores_expiry(d) == d \in DOMAIN dns_cache

Fresh(d) == d \in DOMAIN dns_cache /\ dns_cache[d].expired_time > now

AskCached(t, d) ==
  /\ answer[t].st = "unasked" /\ Fresh(d)
  /\ answer' = [answer EXCEPT ![t] = Told(d, dns_cache[d].address)]
  /\ UNCHANGED <<now, dns_cache, job, channel, waker, loop, looked, updated>>

\* An expired entry is removed before the domain is looked up again.
AskResolve(t, d) ==
  /\ answer[t].st = "unasked" /\ ~Fresh(d)
  /\ answer' = [answer EXCEPT ![t] = [st |-> "asked", domain |-> d, ip |-> NoAddress]]
  /\ dns_cache' = [e \in DOMAIN dns_cache \ {d} |-> dns_cache[e]]
  /\ job' = [job EXCEPT ![t] = [pc |-> "lookup", domain |-> d, ip |-> NoAddress]]
  /\ UNCHANGED <<now, channel, waker, loop, looked, updated>>

-----------------------------------------------------------------------------
(* The rayon thread of a token. *)

\* A thread that sends nothing when the lookup fails.
Lookup_silent(t) ==
  /\ job[t].pc = "lookup"
  /\ \E ip \in Results :
       /\ job' = [job EXCEPT ![t] = [@ EXCEPT !.pc = IF ip = NoAddress THEN "done" ELSE "send",
                                            !.ip = ip]]
       /\ looked' = looked \cup {<<job[t].domain, ip>>}
  /\ UNCHANGED <<now, dns_cache, channel, waker, loop, answer, updated>>

\* The first IPv4 address of the answer, else its first, else None.
Lookup(t) ==
  /\ job[t].pc = "lookup"
  /\ \E ip \in Results :
       /\ job' = [job EXCEPT ![t] = [@ EXCEPT !.pc = "send", !.ip = ip]]
       /\ looked' = looked \cup {<<job[t].domain, ip>>}
  /\ UNCHANGED <<now, dns_cache, channel, waker, loop, answer, updated>>

\* A thread that takes the domain from whatever query is running.
Send_any_domain(t) ==
  /\ job[t].pc = "send"
  /\ \E u \in Tokens :
       /\ job[u].pc # "none"
       /\ channel' = Append(channel, [token |-> t, domain |-> job[u].domain, ip |-> job[t].ip])
  /\ job' = [job EXCEPT ![t] = [@ EXCEPT !.pc = "wake"]]
  /\ UNCHANGED <<now, dns_cache, waker, loop, answer, looked, updated>>

Send(t) ==
  /\ job[t].pc = "send"
  /\ channel' = Append(channel, [token |-> t, domain |-> job[t].domain, ip |-> job[t].ip])
  /\ job' = [job EXCEPT ![t] = [@ EXCEPT !.pc = "wake"]]
  /\ UNCHANGED <<now, dns_cache, waker, loop, answer, looked, updated>>

Wake(t) ==
  /\ job[t].pc = "wake"
  /\ waker' = TRUE
  /\ job' = [job EXCEPT ![t] = [@ EXCEPT !.pc = "done"]]
  /\ UNCHANGED <<now, dns_cache, channel, loop, answer, looked, updated>>

-----------------------------------------------------------------------------
(* The event loop's side. *)

Poll ==
  /\ loop = "poll" /\ waker
  /\ waker' = FALSE /\ loop' = "woken"
  /\ UNCHANGED <<now, dns_cache, job, channel, answer, looked, updated>>

Consume ==
  /\ loop = "woken"
  /\ loop' = "drain"
  /\ UNCHANGED <<now, dns_cache, job, channel, waker, answer, looked, updated>>

\* One step of receiver.try_iter(): update_dns, then the asker's callback.
ConsumeOne ==
  /\ loop = "drain" /\ channel # <<>>
  /\ LET m == Head(channel)
         entry == [address |-> m.ip, expired_time |-> now + CacheTime]
     IN  /\ channel' = Tail(channel)
         /\ answer' = [answer EXCEPT ![m.token] = Told(@.domain, m.ip)]
         /\ dns_cache' = IF m.ip = NoAddress THEN dns_cache
                         ELSE [d \in DOMAIN dns_cache \cup {m.domain} |->
                                 IF d = m.domain THEN entry ELSE dns_cache[d]]
         /\ updated' = IF m.ip = NoAddress THEN updated
                       ELSE [updated EXCEPT ![m.domain] = now]
  /\ UNCHANGED <<now, job, waker, loop, looked>>

\* A consume that takes one result per wake-up.
Drained_early == TRUE

Drained == channel = <<>>

ConsumeDone ==
  /\ loop = "drain" /\ Drained
  /\ loop' = "poll"
  /\ UNCHANGED <<now, dns_cache, job, channel, waker, answer, looked, updated>>

Tick ==
  /\ now < MaxTime
  /\ now' = now + 1
  /\ UNCHANGED <<dns_cache, job, channel, waker, loop, answer, looked, updated>>

Ask == \E t \in Tokens, d \in Domains : AskCached(t, d) \/ AskResolve(t, d)

Thread(t) == Lookup(t) \/ Send(t) \/ Wake(t)

Next ==
  \/ Ask \/ Poll \/ Consume \/ ConsumeOne \/ ConsumeDone \/ Tick
  \/ \E t \in Tokens : Thread(t)

Spec == Init /\ [][Next]_resolverVars

\* Threads run, the loop runs, and a lookup returns (with an error at worst).
Fairness ==
  /\ \A t \in Tokens : WF_resolverVars(Thread(t))
  /\ WF_resolverVars(Poll) /\ WF_resolverVars(Consume)
  /\ WF_resolverVars(ConsumeOne) /\ WF_resolverVars(ConsumeDone)

LiveSpec == Spec /\ Fairness

-----------------------------------------------------------------------------
(* Properties *)

\* Every variable has its type; in particular only addresses are cached, never
\* a failed lookup, and a thread that runs has a domain.
TypeOK ==
  /\ now \in Nat
  /\ DOMAIN dns_cache \subseteq Domains
  /\ \A d \in DOMAIN dns_cache : dns_cache[d] \in Entries
  /\ job \in [Tokens -> Jobs]
  /\ \A t \in Tokens : job[t].pc # "none" => job[t].domain \in Domains
  /\ channel \in Seq(Messages)
  /\ waker \in BOOLEAN
  /\ loop \in {"poll", "woken", "drain"}
  /\ answer \in [Tokens -> Answers]
  /\ looked \subseteq Domains \X Results
  /\ updated \in [Domains -> Nat]

\* A result in the channel always has a wake-up on its way: reported, pending
\* in the poll, or about to be raised by the thread that sent it.
NoLostWakeup ==
  channel # <<>> => waker \/ loop # "poll" \/ \E t \in Tokens : job[t].pc = "wake"

InChannel(t) == \E i \in 1 .. Len(channel) : channel[i].token = t

\* Whoever waits for an answer still has exactly one coming, from its thread or
\* in the channel, and whoever was told has none: every question is answered
\* once, whatever the threads and the loop do between the steps.
OneAnswerEach ==
  /\ \A t \in Tokens :
       /\ answer[t].st = "asked" => (job[t].pc \in {"lookup", "send"} <=> ~InChannel(t))
       /\ answer[t].st # "asked" => job[t].pc \notin {"lookup", "send"} /\ ~InChannel(t)
  /\ \A i, j \in 1 .. Len(channel) : channel[i].token = channel[j].token => i = j

\* Addresses are never mixed up between domains: what the cache holds, what is
\* on its way and what an asker was told is an address that some lookup of the
\* domain in question returned, even when askers and lookups overlap.
AddressesOfTheirDomain ==
  /\ \A d \in DOMAIN dns_cache : <<d, dns_cache[d].address>> \in looked
  /\ \A i \in 1 .. Len(channel) : <<channel[i].domain, channel[i].ip>> \in looked
  /\ \A t \in Tokens : answer[t].st = "told" => <<answer[t].domain, answer[t].ip>> \in looked

\* An answer out of the cache is less than dns_cache_duration old.
HitIsFresh ==
  [][\A t \in Tokens, d \in Domains :
       AskCached(t, d) => d \in DOMAIN dns_cache /\ now - updated[d] < CacheTime]_resolverVars

\* Every question is answered.
EventuallyTold == \A t \in Tokens : answer[t].st = "asked" ~> answer[t].st = "told"
=============================================================================
