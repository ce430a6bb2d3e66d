------------------------------ MODULE RelayConfig ------------------------------
(***************************************************************************)
(* The relay's configuration: the options of its command line              *)
(* (cpp/lili-relay/src/main.cpp) applied one after the other to the         *)
(* defaults of RelayConfig (relay_server.hpp), and what the constructor of  *)
(* RelayServer adds.  An option is a record of what it denotes.             *)
(***************************************************************************)
EXTENDS Integers, Sequences

CONSTANTS
  Argvs,             \* the command lines considered: sequences of options
  DefaultLimits,     \* the defaults of port and of RelayConfig's numbers
  DefaultAllowed,    \* the kinds the constructor allows
  DefaultKindTtl,    \* the TTLs per kind the constructor sets
  U16, U64           \* 2^16 and 2^64, the moduli of uint16_t and size_t

Signed == {"rate", "window", "ttl"}                       \* read by stoi
Unsigned == {"total", "perPubkey", "perKind", "size"}     \* read by stoul
LimitNames == {"port"} \cup Signed \cup Unsigned

\* "bad" is a number option whose value is no number; "other" is an argument that
\* is skipped: an unknown one, an option without its value, a TTL without a colon.
OptionOK(o) ==
  \/ o.name \in LimitNames /\ o.value \in Int
  \/ o.name = "kindTtl" /\ o.kind \in Int /\ o.value \in Int
  \/ o.name \in {"ban", "help", "bad", "other"}

ASSUME ArgvAssumption ==
  /\ {U16, U64} \subseteq Nat \ {0}
  /\ DefaultLimits \in [LimitNames -> Int]
  /\ \A argv \in Argvs :
       /\ argv \in Seq({argv[i] : i \in DOMAIN argv})
       /\ \A i \in DOMAIN argv : OptionOK(argv[i])

EmptyTtl == [k \in {} |-> 0]

Defaults ==
  [limit |-> DefaultLimits, kind_ttl |-> EmptyTtl, banned |-> {}, allowed |-> {}]

Narrowed(name, v) ==
  IF name = "port" THEN v % U16 ELSE IF name \in Unsigned THEN v % U64 ELSE v

SetTtl_KeepFirst(ttl, k, v) ==
  IF k \in DOMAIN ttl THEN ttl ELSE [j \in DOMAIN ttl \cup {k} |-> IF j = k THEN v ELSE ttl[j]]
SetTtl(ttl, k, v) ==
  [j \in DOMAIN ttl \cup {k} |-> IF j = k THEN v ELSE ttl[j]]

\* One turn of main's loop over argv.
Apply(c, o) ==
  IF o.name \in LimitNames
    THEN [c EXCEPT !.limit[o.name] = Narrowed(o.name, o.value)]
  ELSE IF o.name = "kindTtl"
    THEN [c EXCEPT !.kind_ttl = SetTtl(@, o.kind % U16, o.value)]
  ELSE IF o.name = "ban"
    THEN [c EXCEPT !.banned = @ \cup {o.pubkey}]
  ELSE c

\* The constructor fills in what is still empty.
Construct(c) ==
  [c EXCEPT !.allowed = IF @ = {} THEN DefaultAllowed ELSE @,
            !.kind_ttl = IF DOMAIN @ = {} THEN DefaultKindTtl ELSE @]

-------------------------------------------------------------------------------
(* What a command line means, said without the loop.                         *)

Given(argv, name) == {i \in DOMAIN argv : argv[i].name = name}
LastOf(S) == CHOOSE i \in S : \A j \in S : j <= i

MeantLimit(argv, name) ==
  IF Given(argv, name) = {} THEN DefaultLimits[name]
  ELSE Narrowed(name, argv[LastOf(Given(argv, name))].value)

GivenTtl(argv, k) == {i \in Given(argv, "kindTtl") : argv[i].kind % U16 = k}

KindsGiven(argv) == {argv[i].kind % U16 : i \in Given(argv, "kindTtl")}

\* The configuration of a relay started with argv is what its options mean: the last
\* value given for a number or for a kind's TTL counts, and what is said of no kind is a
\* documented default.  Whether a kind keeps its default while others are given is left
\* open: the usage text says so (main.cpp:34-39), the constructor drops them all.
MeantBy(c, argv) ==
  /\ \A name \in LimitNames : c.limit[name] = MeantLimit(argv, name)
  /\ c.banned = {argv[i].pubkey : i \in Given(argv, "ban")}
  /\ \A k \in KindsGiven(argv) :
       k \in DOMAIN c.kind_ttl /\ c.kind_ttl[k] = argv[LastOf(GivenTtl(argv, k))].value
  /\ \A k \in DOMAIN c.kind_ttl \ KindsGiven(argv) :
       k \in DOMAIN DefaultKindTtl /\ c.kind_ttl[k] = DefaultKindTtl[k]
  /\ KindsGiven(argv) = {} => c.kind_ttl = DefaultKindTtl
  /\ c.allowed = DefaultAllowed
===============================================================================
