---------------------------- MODULE MCRelayProcess ----------------------------
(***************************************************************************)
(* Small instances of RelayProcess for TLC.  The limits' defaults are those *)
(* of relay_server.hpp scaled down; U16 = 8, so kind 10 is kind 2.          *)
(***************************************************************************)
EXTENDS RelayProcess, TLC

CONSTANT Talker   \* the client that sends a message after its handshake

SmallLimits == [name \in LimitNames |-> 3]
SmallTtl == (1 :> 7) @@ (2 :> 0)

Set(name, v) == [name |-> name, value |-> v]
KindTtl(k, v) == [name |-> "kindTtl", kind |-> k, value |-> v]
Ban(pk) == [name |-> "ban", pubkey |-> pk]
Bare(name) == [name |-> name]

Busy == <<Set("rate", 5), Ban("p"), KindTtl(10, 4), Set("port", 9), Bare("other"),
          Set("rate", 6), Set("total", -1), KindTtl(2, 5)>>

ManyArgvs == {Busy, <<Set("size", 1)>>, <<Ban("p"), Bare("help")>>, <<Bare("bad")>>}
OneTalks == [c \in Clients |-> IF c = Talker THEN 2 ELSE 1]
HandshakesOnly == [c \in Clients |-> 1]
Silent == [c \in Clients |-> 0]
NoOptions == {<<>>}

-------------------------------------------------------------------------------
(* The VIEW leaves out what neither a property nor a later step can read.     *)

\* Once the relay is started nothing reads the command line, or what is left of it.
Started == mpc \notin {"parse", "start"}

\* A client whose session is over does nothing the program sees.
ClientView == [c \in Clients |-> IF spc[c] = "done" THEN <<>> ELSE <<client[c], words[c]>>]

StateView ==
  <<IF Started THEN <<>> ELSE <<argv, config, next>>, status, mpc, polls, signals, frames,
    serverVars, acceptVars, ppc, storage, sessions, table, sessionVars, ClientView, late,
    crashed>>
===============================================================================
