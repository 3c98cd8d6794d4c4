----------------------------- MODULE MCDnsRelay -----------------------------
(* DnsRelay on small instances.  One question is for a name below a listed   *)
(* domain, one is not listed.                                                *)
EXTENDS DnsRelay

GovTw  == <<"gov", "tw">>
EpaGov == <<"epa", "gov", "tw">>

A(name) == [name |-> Append(name, ""), type |-> "A"]

MCPtr == [name |-> <<"1", "0", "0", "127", "in-addr", "arpa", "">>, type |-> "PTR"]

Under == A(<<"data", "gov", "tw">>)  \* below a listed domain
Other == A(<<"com", "tw">>)

MCQuestions == {Under, Other}

By(c, q) == [from |-> c, q |-> q]

\* The same question of two clients and once more, two questions at a time,
\* and the relay's own name.
MCScripts ==
  {<<By("c1", q), By("c2", q), By("c1", q)>> : q \in MCQuestions}
    \cup {<<By("c1", Under), By("c2", Other), By("c2", Under)>>,
          <<By("c1", Under), By("c2", MCPtr), By("c2", Under)>>}

FlatLists == {<<GovTw, <<"com">>>>}

NestedLists == {<<GovTw, EpaGov>>}

R(addr, v4, ttl) == [addr |-> addr, v4 |-> v4, ttl |-> ttl]

MCReplies ==
  [trusted  |-> {<<R("alias", FALSE, 2), R("t", TRUE, 1)>>},
   poisoned |-> {<<>>, <<R("p", TRUE, 1)>>}]
=============================================================================
