------------------------------ MODULE MCService ------------------------------
(***************************************************************************)
(* Two replicas, one of them with a clock ahead; pools of one connection.  *)
(***************************************************************************)
EXTENDS Service, TLC

CONSTANTS
  r1, r2,
  g1, g2,       \* register the same agent; g2 as an operator
  b1, b2,       \* set the agent's budget in "usd" and in "USD"
  i1, i2,       \* two intents of the agent with the same idempotency key
  s1,           \* resolves their approval
  f1,           \* finance wants to register an agent
  x1            \* registers an agent without a name

MCAsked ==
  (g1 :> "register") @@ (g2 :> "register") @@ (f1 :> "register")
    @@ (x1 :> "register") @@ (b1 :> "upsert") @@ (b2 :> "upsert")
    @@ (i1 :> "evaluate") @@ (i2 :> "evaluate") @@ (s1 :> "resolve")
MCSpelling ==
  [q \in Requests |->
     CASE q \in {g1, g2, f1, x1} -> "agent"
       [] q = b1 -> "usd"
       [] q = b2 -> "USD"
       [] OTHER -> "intent"]
MCNormal == [k \in {"agent", "usd", "USD", "intent"} |-> IF k = "usd" THEN "USD" ELSE k]
MCAgent == [q \in Requests |-> "agent"]
MCRoles ==
  [q \in Requests |->
     CASE q = g2 -> {"operator"} [] q \in {i1, i2} -> {} [] q = f1 -> {"finance"}
       [] OTHER -> {"admin"}]
MCValid == Requests \ {x1}
MCCrowds == {{g1, g2, b1}, {g1, b1, b2}, {i1, i2, s1}, {f1}, {x1}}

\* The agent of the intents is there.
MCBefore == [c \in Crowds |-> IF i1 \in c THEN {"agent"} ELSE {}]

\* Time passes only for a request that comes alone.
MCMaxTime == [c \in Crowds |-> IF Cardinality(c) = 1 THEN 6 ELSE 0]
MCSkew == [r \in Replicas |-> IF r = r2 THEN 1 ELSE 0]
=============================================================================
