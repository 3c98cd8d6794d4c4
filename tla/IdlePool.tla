------------------------------ MODULE IdlePool ------------------------------
(***************************************************************************)
(* The proxy's pool of TLS connections to the trojan server                *)
(* (idle_pool.rs): dialled in advance, handed to clients, dropped when the *)
(* server ends them, and re-dialled at another address when dialling fails *)
(* and the resolver knows a better one.  What a single connection does is  *)
(* the subject of ProxyConnection; here it is an index, the address it was *)
(* dialled at, and whether it is found closed when it is looked at.        *)
(***************************************************************************)
EXTENDS Integers, Sequences, FiniteSets, SequencesExt

CONSTANTS
  Size,       \* IdlePool.size: pool_size + 1
  MinIndex, MaxIndex,
  Addresses,  \* addresses of the trojan server
  MaxDials,   \* bound of the successful dials
  MaxAsked    \* bound of the lookups under way

ASSUME SizeAssumption == Size \in Nat \ {0}
ASSUME IndexAssumption == MinIndex \in Nat /\ MaxIndex \in Nat /\ MinIndex < MaxIndex
\* No index is used twice: the code starts again at MIN_INDEX only after
\* usize::MAX / 4 dials.
ASSUME DialsAssumption == MaxDials \in Nat /\ MaxDials < MaxIndex - MinIndex
ASSUME AskedAssumption == MaxAsked \in Nat

VARIABLES
  pool,        \* IdlePool.pool
  addr,        \* IdlePool.addr
  next_id,     \* IdlePool.next_index
  pc,          \* "idle", "init" inside init(), "get" inside get()
  rounds,      \* turns of get's loop that are left
  dials,       \* turns of alloc's loop that are left
  asked,       \* lookups of the server's name that are under way
  handed       \* the connection that get() returned last, a history variable

vars == <<pool, addr, next_id, pc, rounds, dials, asked, handed>>

NoConn == [index |-> 0, addr |-> "none", open |-> FALSE]

Conns ==
  [index : MinIndex .. MaxIndex - 1, addr : Addresses, open : BOOLEAN]

Init ==
  /\ pool = <<>>
  /\ addr \in Addresses
  /\ next_id = MinIndex
  /\ pc = "init" /\ rounds = 0 /\ dials = IF Size > 1 THEN Size ELSE 0
  /\ asked = 0 /\ handed = NoConn

-----------------------------------------------------------------------------
(* get() and alloc(), one turn of a loop at a time. *)

\* alloc() dials as many connections as the pool lacks.
Missing(s) == Size - Len(s)

Get ==
  /\ pc = "idle" /\ next_id < MinIndex + MaxDials
  /\ pc' = "get" /\ rounds' = Size - 1 /\ dials' = Missing(pool)
  /\ UNCHANGED <<pool, addr, next_id, asked, handed>>

next_index(id) == IF id + 1 >= MaxIndex THEN MinIndex ELSE id + 1

\* new_conn() succeeds and takes an index; register() may still fail.
Dial ==
  /\ dials > 0 /\ next_id < MinIndex + MaxDials
  /\ dials' = dials - 1
  /\ next_id' = next_index(next_id)
  /\ \/ pool' = Append(pool, [index |-> next_id, addr |-> addr, open |-> TRUE])
     \/ UNCHANGED pool
  /\ UNCHANGED <<addr, pc, rounds, asked, handed>>

\* new_conn() fails, and the server's name is looked up again.
DialFails ==
  /\ dials > 0 /\ asked < MaxAsked
  /\ dials' = dials - 1
  /\ asked' = asked + 1
  /\ UNCHANGED <<pool, addr, next_id, pc, rounds, handed>>

\* The connection that is taken, and those that stay.
Popped(s) == <<Last(s), Front(s)>>

Pop ==
  /\ pc = "get" /\ dials = 0 /\ pool # <<>>
  /\ handed' = Popped(pool)[1]
  /\ pool' = Popped(pool)[2]
  /\ pc' = "idle" /\ rounds' = 0
  /\ UNCHANGED <<addr, next_id, dials, asked>>

Retry ==
  /\ pc = "get" /\ dials = 0 /\ pool = <<>> /\ rounds > 0
  /\ rounds' = rounds - 1 /\ dials' = Missing(pool)
  /\ UNCHANGED <<pool, addr, next_id, pc, asked, handed>>

GiveUp ==
  /\ pc = "get" /\ dials = 0 /\ pool = <<>> /\ rounds = 0
  /\ pc' = "idle" /\ handed' = NoConn
  /\ UNCHANGED <<pool, addr, next_id, rounds, dials, asked>>

InitDone ==
  /\ pc = "init" /\ dials = 0
  /\ pc' = "idle"
  /\ UNCHANGED <<pool, addr, next_id, rounds, dials, asked, handed>>

-----------------------------------------------------------------------------
(* What happens between two calls of get(). *)

\* The server ends a connection; the pool finds out when it looks.
ServerEnds(i) ==
  /\ pc = "idle" /\ i \in DOMAIN pool /\ pool[i].open
  /\ pool' = [pool EXCEPT ![i].open = FALSE]
  /\ UNCHANGED <<addr, next_id, pc, rounds, dials, asked, handed>>

\* Vec::swap_remove: the last element takes the place of the removed one.
swap_remove(s, i) == Front(ReplaceAt(s, i, Last(s)))

\* ready(): an event for a connection that is closed drops it.
Ready(i) ==
  /\ pc = "idle" /\ i \in DOMAIN pool /\ ~pool[i].open
  /\ pool' = swap_remove(pool, i)
  /\ UNCHANGED <<addr, next_id, pc, rounds, dials, asked, handed>>

Closed(s) == {i \in DOMAIN s : ~s[i].open}

\* A check_timeout that removes from the front of the list.
RemovalOrder_ascending(S) == SetToSortSeq(S, <)

\* sort_unstable(), then in reverse.
RemovalOrder(S) == SetToSortSeq(S, >)

\* check_timeout(): every closed connection is dropped.
CheckTimeout ==
  /\ pc = "idle" /\ Closed(pool) # {}
  /\ pool' = FoldLeft(swap_remove, pool, RemovalOrder(Closed(pool)))
  /\ UNCHANGED <<addr, next_id, pc, rounds, dials, asked, handed>>

\* resolve(): an answer without an address changes nothing.
Resolve ==
  /\ pc = "idle" /\ asked > 0
  /\ asked' = asked - 1
  /\ addr' \in Addresses \cup {addr}
  /\ UNCHANGED <<pool, next_id, pc, rounds, dials, handed>>

Next ==
  \/ Get \/ Dial \/ DialFails \/ Pop \/ Retry \/ GiveUp \/ InitDone
  \/ CheckTimeout \/ Resolve
  \/ \E i \in 1 .. Size : ServerEnds(i) \/ Ready(i)

Spec == Init /\ [][Next]_vars

-----------------------------------------------------------------------------
(* Properties *)

\* Every variable has its type, and the pool is never larger than its size.
TypeOK ==
  /\ pool \in Seq(Conns) /\ Len(pool) + dials <= Size
  /\ addr \in Addresses
  /\ next_id \in MinIndex .. MaxIndex - 1
  /\ pc \in {"idle", "init", "get"}
  /\ rounds \in 0 .. Size /\ dials \in 0 .. Size
  /\ asked \in 0 .. MaxAsked
  /\ handed \in Conns \cup {NoConn}

\* swap_remove moves the last connection about: however many are closed at
\* once, check_timeout drops exactly those and keeps every other one once.
OnlyClosedDropped ==
  [][CheckTimeout =>
       /\ {pool'[i] : i \in DOMAIN pool'} = {pool[i] : i \in DOMAIN pool \ Closed(pool)}
       /\ Len(pool') = Len(pool) - Cardinality(Closed(pool))]_vars
=============================================================================
