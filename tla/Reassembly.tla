----------------------------- MODULE Reassembly -----------------------------
(***************************************************************************)
(* Fragmentation of armored packets (internal/zerotier/packet/fragment.go) *)
(* and their bounded, expiring reassembly (transport/reassembly.go), over  *)
(* a network that delays, reorders, repeats and loses datagrams.           *)
(*                                                                         *)
(* The bytes of a packet are known by their offsets: a piece of a packet   *)
(* is the range of offsets from .. to - 1.  Stray datagrams are any others *)
(* the socket may receive.                                                 *)
(***************************************************************************)
EXTENDS Integers, Sequences, SequencesExt, FiniteSetsExt, Functions

CONSTANTS Packets,             \* armored packets: [endpoint, id, length]
          Strays,              \* other datagrams, with their endpoint
          MTU, FragmentLength, \* datagram size and size of a fragment header
          MaxPacketFragments, MaxPacketLength,
          MaxReassemblySlots, ReassemblyTTL,
          MaxTime,             \* bound on the clock
          None                 \* no first datagram yet

ASSUME MtuAssumption == MTU \in Nat /\ FragmentLength \in Nat /\ MTU > FragmentLength
ASSUME LimitsAssumption ==
    /\ MaxPacketFragments \in 2..15
    /\ MaxReassemblySlots \in Nat \ {0}
    /\ ReassemblyTTL \in Nat \ {0}
    /\ MaxPacketLength \in Nat
ASSUME PacketsAssumption ==
    /\ \A p \in Packets : p.length \in Nat
    /\ \A d \in Strays : d.kind = "fragment" => d.number \in Nat

VARIABLES now,
          sent,        \* packets that were fragmented and sent
          partial,     \* <<endpoint, packet ID>> -> incomplete packet
          lastPush,    \* history: the time of the last push
          delivered    \* history: the complete packets push returned

vars == <<now, sent, partial, lastPush, delivered>>

Init ==
    /\ now = 0
    /\ sent = {}
    /\ partial = [key \in {} |-> {}]
    /\ lastPush = 0
    /\ delivered = {}

-----------------------------------------------------------------------------
(* Fragmentation. *)

Piece(p, from, to) == [of |-> p, from |-> from, to |-> to]
Size(piece) == piece.to - piece.from

\* A datagram has some bytes or none, which is not the same as no datagram.
ASSUME PiecesAssumption ==
    /\ \A d \in Strays :
          d.kind \in {"head", "fragment"} => d.piece # None /\ Size(d.piece) \in Nat
    /\ \A p \in Packets : Piece(p, 0, MTU) # None

Smaller(a, b) == IF a <= b THEN a ELSE b

FragmentPayload == MTU - FragmentLength
MaxAssembled == MTU + (MaxPacketFragments - 1) * FragmentPayload

\* The number of datagrams if the last, shorter one is not counted.
TotalRoundedDown(p) == 1 + (p.length - MTU) \div FragmentPayload

\* The number of datagrams of a packet longer than the MTU.
TotalFragments(p) == 1 + (p.length - MTU + FragmentPayload - 1) \div FragmentPayload

FirstDatagram(p, fragmented, piece) ==
    [kind |-> "head", endpoint |-> p.endpoint, id |-> p.id, fragmented |-> fragmented,
     piece |-> piece]

FragmentOf(p, total, number) ==
    LET offset == MTU + (number - 1) * FragmentPayload IN
    [kind |-> "fragment", endpoint |-> p.endpoint, id |-> p.id, total |-> total,
     number |-> number, piece |-> Piece(p, offset, Smaller(offset + FragmentPayload, p.length))]

\* fragmentArmored, as the set of datagrams.
FragmentArmored(p) ==
    IF p.length <= MTU
    THEN {FirstDatagram(p, FALSE, Piece(p, 0, p.length))}
    ELSE {FirstDatagram(p, TRUE, Piece(p, 0, MTU))}
           \cup {FragmentOf(p, TotalFragments(p), j) : j \in 1..TotalFragments(p) - 1}

\* ArmorAndFragment refuses what does not fit the largest number of datagrams.
Send(p) ==
    /\ p.length <= MaxAssembled
    /\ sent' = sent \cup {p}
    /\ UNCHANGED <<now, partial, lastPush, delivered>>

-----------------------------------------------------------------------------
(* Reassembly. *)

NewPartial == [created |-> now, first |-> None, total |-> 0, bytes |-> 0,
               fragments |-> [j \in {} |-> {}]]

\* An expiry that runs one tick late.
LiveInclusive(table) ==
    Restrict(table, {key \in DOMAIN table : now - table[key].created <= ReassemblyTTL})

\* expire: what is left of the table.
Live(table) ==
    Restrict(table, {key \in DOMAIN table : now - table[key].created < ReassemblyTTL})

Without(table, key) == Restrict(table, DOMAIN table \ {key})

\* Room for one slot too many.
HasSlotOffByOne(table, key) ==
    key \in DOMAIN table \/ Cardinality(DOMAIN table) <= MaxReassemblySlots

\* slot: the key has an incomplete packet or there is room for one.
HasSlot(table, key) == key \in DOMAIN table \/ Cardinality(DOMAIN table) < MaxReassemblySlots
Slot(table, key) == IF key \in DOMAIN table THEN table[key] ELSE NewPartial

IsComplete(p) ==
    /\ p.first # None
    /\ p.total # 0
    /\ Cardinality(DOMAIN p.fragments) = p.total - 1

Assembled(p) == <<p.first>> \o [j \in 1..p.total - 1 |-> p.fragments[j]]

Deliver(endpoint, id, age, pieces) ==
    delivered' = delivered \cup {[endpoint |-> endpoint, id |-> id, age |-> age, pieces |-> pieces]}

\* complete: hand the packet over and free its slot, or keep it.  The checks of the
\* loop in complete never fail: see PartialsWellFormed and MemoryBounded.
Complete(table, key, p) ==
    IF IsComplete(p)
    THEN /\ partial' = Without(table, key)
         /\ Deliver(key[1], key[2], now - p.created, Assembled(p))
    ELSE /\ partial' = [x \in DOMAIN table \cup {key} |-> IF x = key THEN p ELSE table[x]]
         /\ UNCHANGED delivered

\* An error, after which the table is as given.
Refuse(table) == partial' = table /\ UNCHANGED delivered

\* Numbering that admits a fragment beyond its own total.
NumberBeyondTotal(d) == d.number # 0 /\ d.total \in 2..MaxPacketFragments

ValidNumbering(d) ==
    d.number # 0 /\ d.total \in 2..MaxPacketFragments /\ d.number < d.total

WithFragment(p, d) ==
    [created |-> p.created, first |-> p.first, total |-> d.total,
     bytes |-> p.bytes + Size(d.piece),
     fragments |-> [j \in DOMAIN p.fragments \cup {d.number} |->
                       IF j = d.number THEN d.piece ELSE p.fragments[j]]]

PushFragment(table, key, d) ==
    LET p == Slot(table, key) IN
    \/ ~ ValidNumbering(d) /\ Refuse(table)
    \/ /\ ValidNumbering(d) /\ ~ HasSlot(table, key)
       /\ Refuse(table)
    \/ /\ ValidNumbering(d) /\ HasSlot(table, key)
       /\ \/ p.total \notin {0, d.total} /\ Refuse(Without(table, key))
          \/ /\ p.total \in {0, d.total}
             /\ \/ /\ d.number \in DOMAIN p.fragments
                   /\ Complete(table, key, p)
                \/ /\ d.number \notin DOMAIN p.fragments
                   /\ p.bytes + Size(d.piece) > MaxPacketLength
                   /\ Refuse(Without(table, key))
                \/ /\ d.number \notin DOMAIN p.fragments
                   /\ p.bytes + Size(d.piece) <= MaxPacketLength
                   /\ Complete(table, key, WithFragment(p, d))

\* A first datagram that is kept without its bytes being counted.
WithFirstUncounted(p, d) == [p EXCEPT !.first = d.piece]

WithFirst(p, d) ==
    [created |-> p.created, first |-> d.piece, total |-> p.total,
     bytes |-> p.bytes + Size(d.piece), fragments |-> p.fragments]

PushHead(table, key, d) ==
    LET p == Slot(table, key) IN
    \/ /\ ~ d.fragmented
       /\ partial' = table
       /\ Deliver(d.endpoint, d.id, 0, <<d.piece>>)
    \/ d.fragmented /\ ~ HasSlot(table, key) /\ Refuse(table)
    \/ /\ d.fragmented /\ HasSlot(table, key)
       /\ \/ p.first # None /\ Complete(table, key, p)
          \/ /\ p.first = None
             /\ p.bytes + Size(d.piece) > MaxPacketLength
             /\ Refuse(Without(table, key))
          \/ /\ p.first = None
             /\ p.bytes + Size(d.piece) <= MaxPacketLength
             /\ Complete(table, key, WithFirst(p, d))

\* push: one datagram from the socket.  A repeated fragment is not stored again.
Push(d) ==
    LET table == Live(partial)
        key == <<d.endpoint, d.id>> IN
    /\ \/ d.kind = "malformed" /\ Refuse(table)
       \/ d.kind = "fragment" /\ PushFragment(table, key, d)
       \/ d.kind = "head" /\ PushHead(table, key, d)
    /\ lastPush' = now
    /\ UNCHANGED <<now, sent>>

Tick ==
    /\ now < MaxTime
    /\ now' = now + 1
    /\ UNCHANGED <<sent, partial, lastPush, delivered>>

\* Datagrams in flight may arrive at any time, any number of times, or never.
InFlight == Strays \cup UNION {FragmentArmored(p) : p \in sent}

Next ==
    \/ \E p \in Packets : Send(p)
    \/ \E d \in InFlight : Push(d)
    \/ Tick

Spec == Init /\ [][Next]_vars

-----------------------------------------------------------------------------
RetainedBytes(p) ==
    (IF p.first = None THEN 0 ELSE Size(p.first))
      + SumFunction([j \in DOMAIN p.fragments |-> Size(p.fragments[j])])

(* The memory of the reassembler is bounded (docs/SECURITY-HARDENING.md:8- *)
(* 10): a fixed number of slots, and no slot retains more than one packet, *)
(* by its own count of bytes.                                              *)
MemoryBounded ==
    /\ Cardinality(DOMAIN partial) <= MaxReassemblySlots
    /\ \A key \in DOMAIN partial : partial[key].bytes <= MaxPacketLength

(* That count is exact: what is retained is counted once, however often    *)
(* its datagram is repeated, and nothing else is.                          *)
BytesAccounted ==
    \A key \in DOMAIN partial : partial[key].bytes = RetainedBytes(partial[key])

(* An incomplete packet has a possible total and fragments 1 .. total - 1  *)
(* only, whatever the datagrams of its key claimed, and misses something.  *)
(* So the counts in complete decide completeness, its lookup of a fragment *)
(* never fails (reassembly.go:123-126), and a packet is handed over with   *)
(* the datagram that completes it, whichever that is.                      *)
PartialsWellFormed ==
    \A key \in DOMAIN partial :
        LET p == partial[key] IN
        /\ p.total \in {0} \cup 2..MaxPacketFragments
        /\ DOMAIN p.fragments \subseteq 1..p.total - 1
        /\ ~ IsComplete(p)

(* Datagrams that met in a packet arrived within the TTL, and no slot is   *)
(* older than that when push uses the table (docs/SECURITY-HARDENING.md:10)*)
(* although only push itself looks at the clock.                           *)
ExpiresInTime ==
    /\ \A key \in DOMAIN partial : lastPush - partial[key].created < ReassemblyTTL
    /\ \A a \in delivered : a.age < ReassemblyTTL

\* The pieces are all of p, in order and without gap or overlap.
Tiles(pieces, p) ==
    /\ \A j \in 1..Len(pieces) : pieces[j].of = p
    /\ pieces[1].from = 0
    /\ \A j \in 1..Len(pieces) - 1 : pieces[j].to = pieces[j + 1].from
    /\ pieces[Len(pieces)].to = p.length

(* End to end: what is handed over under the key of a sent packet is that  *)
(* packet, whole, whatever the order, repetition or loss of its datagrams, *)
(* and whatever was expired or refused in between.                         *)
DeliversWholePackets ==
    \A a \in delivered : \A p \in sent :
        a.endpoint = p.endpoint /\ a.id = p.id => Tiles(a.pieces, p)
=============================================================================
