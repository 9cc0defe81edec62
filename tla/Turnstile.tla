------------------------------ MODULE Turnstile ------------------------------
(***************************************************************************)
(* What the gate promises about the intents of each controller, whatever   *)
(* the network, the clients and the crashes do: an intent that runs was    *)
(* signed, and the intents that run do so one after another in the order   *)
(* of their sequence numbers, so none runs twice.                          *)
(***************************************************************************)
EXTENDS Naturals, Sequences

CONSTANTS Controllers

VARIABLES
  signed,  \* signed[c]: the intents controller c has signed
  ran      \* ran[c]: the intents of c the gate has run, in the order it ran them

vars == <<signed, ran>>

Init == signed = [c \in Controllers |-> {}] /\ ran = [c \in Controllers |-> <<>>]

\* A controller signs more intents. Nothing is promised about their numbers:
\* a client that never heard an answer signs the same number again.
Sign(c) ==
  /\ signed[c] \subseteq signed'[c]
  /\ signed' = [signed EXCEPT ![c] = signed'[c]]
  /\ UNCHANGED ran

\* The gate runs an intent above every number it has run for c.
Run(c) ==
  \E i \in signed[c] :
     /\ \A k \in DOMAIN ran[c] : ran[c][k].seq < i.seq
     /\ ran' = [ran EXCEPT ![c] = Append(@, i)]
     /\ UNCHANGED signed

Next == \E c \in Controllers : Sign(c) \/ Run(c)

Spec == Init /\ [][Next]_vars
=============================================================================
