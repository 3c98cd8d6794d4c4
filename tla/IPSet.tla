-------------------------------- MODULE IPSet --------------------------------
(***************************************************************************)
(* The set of routes that go through the tunnel (wintun/ipset.rs), for     *)
(* addresses of Width bits.  A list of networks is inverted by covering    *)
(* the gaps between them with networks.                                    *)
(***************************************************************************)
EXTENDS SequencesExt, Integers

CONSTANT Width  \* bits of an address (32)

ASSUME WidthAssumption == Width \in Nat \ {0}

MaxAddr == 2 ^ Width - 1

\* Cidr::new
Cidr(ip, prefix) == [ip |-> ip - (ip % 2 ^ (Width - prefix)), prefix |-> prefix]

Cidrs == {Cidr(ip, prefix) : ip \in 0 .. MaxAddr, prefix \in 1 .. Width}

\* Cidr::range
First(c) == c.ip
Final(c) == c.ip + 2 ^ (Width - c.prefix) - 1

\* Ord for Cidr: of two networks with the same address the smaller comes first.
Before(c, d) == c.ip < d.ip \/ (c.ip = d.ip /\ c.prefix > d.prefix)

build(data) == SortSeq(data, Before)

Largest(S) == CHOOSE n \in S : \A m \in S : m <= n

trailing_ones(n) == Largest({s \in 0 .. Width : n % 2 ^ s = 2 ^ s - 1})

trailing_zeros(n) == Largest({s \in 0 .. Width : n % 2 ^ s = 0})

\* range_to_cidr's second loop: networks that start at left, up to right.
LeftPart(from, right) ==
  LET up[left \in 0 .. MaxAddr + 1] ==
        IF left > right THEN <<>>
        ELSE LET shift == trailing_zeros(left)
             IN  <<Cidr(left, Width - shift)>> \o up[left + 2 ^ shift]
  IN  up[from]

\* A range_to_cidr that stops before its second loop.
range_to_cidr_right(left, from) ==
  LET down[right \in 0 .. MaxAddr] ==
        LET shift == trailing_ones(right)
            r == right - (right % 2 ^ shift)
        IN  IF left > r THEN <<>> ELSE <<Cidr(r, Width - shift)>> \o down[r - 1]
  IN  IF left = from THEN <<Cidr(left, Width)>> ELSE down[from]

\* The first loop takes the networks that end at right while they do not reach
\* below left.  left is not 0.
range_to_cidr(left, from) ==
  LET down[right \in 0 .. MaxAddr] ==
        LET shift == trailing_ones(right)
            r == right - (right % 2 ^ shift)
        IN  IF left > r THEN LeftPart(left, right)
            ELSE <<Cidr(r, Width - shift)>> \o down[r - 1]
  IN  IF left = from THEN <<Cidr(left, Width)>> ELSE down[from]

\* Not: the gap in front of every network.  0 counts as covered, and behind the
\* last network there is none.
Not(data) ==
  LET s == build(data)
      Gap(i) == LET r == IF i = 1 THEN 0 ELSE Final(s[i - 1])
                    left == First(s[i])
                IN  IF left = 0 \/ left - 1 = r \/ r = MaxAddr THEN <<>>
                    ELSE range_to_cidr(r + 1, left - 1)
  IN  build(FlattenSeq([i \in 1 .. Len(s) |-> Gap(i)]))

\* with_file and apply_ipset: inverted, the list also has the private networks.
Routes(list, private, inverse) ==
  IF inverse THEN Not(build(list \o private)) ELSE build(list)

\* Addresses of a list of networks.
Covered(data) == UNION {First(c) .. Final(c) : c \in Range(data)}

\* Two networks share addresses only if they begin or end together.
Aligned(data) ==
  \A c, d \in Range(data) :
    \/ Final(c) < First(d) \/ Final(d) < First(c)
    \/ First(c) = First(d) \/ Final(c) = Final(d)
=============================================================================
