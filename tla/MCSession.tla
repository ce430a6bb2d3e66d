-------------------------------- MODULE MCSession --------------------------------
(***************************************************************************)
(* Session for TLC: two keys, two relays, and a name that begins with a     *)
(* quotation mark, so that it is read back as nothing.                      *)
(***************************************************************************)
EXTENDS Session, TLC

CONSTANTS d, u, k1, k2

TwoUrls == {d, u}
TwoKeys == {k1, k2}
SomeNames == {"Ann", "\"Ann"}
UpToQuote == [name \in SomeNames \cup {"User", ""} |-> IF name = "\"Ann" THEN "" ELSE name]

\* Which key is which makes no difference.
KeysAlike == Permutations(TwoKeys)
===============================================================================
