------------------------------ MODULE PayOnce ------------------------------
(***************************************************************************)
(* What the payout signer promises of a bounty, whatever asks it to pay:   *)
(* at most one transfer is ever held for a bounty, only that transfer can  *)
(* be paid, and a bounty the signer gave up on before sending is never     *)
(* paid at all.                                                            *)
(***************************************************************************)
CONSTANTS Bounty, Transfer

VARIABLES
  held,     \* the transfer each bounty's money is held for, if any
  paid,     \* transfers whose money has moved
  givenUp   \* bounties abandoned before anything was sent

vars == <<held, paid, givenUp>>

Init ==
  /\ held = [b \in Bounty |-> {}]
  /\ paid = {}
  /\ givenUp = {}

Hold(b, t) ==
  /\ held[b] = {}
  /\ \A other \in Bounty : t \notin held[other]
  /\ held' = [held EXCEPT ![b] = {t}]
  /\ UNCHANGED <<paid, givenUp>>

Pay(b) ==
  /\ b \notin givenUp
  /\ \E t \in held[b] : t \notin paid /\ paid' = paid \cup {t}
  /\ UNCHANGED <<held, givenUp>>

GiveUp(b) ==
  /\ held[b] # {}
  /\ held[b] \cap paid = {}
  /\ b \notin givenUp
  /\ givenUp' = givenUp \cup {b}
  /\ UNCHANGED <<held, paid>>

Next == \E b \in Bounty : Pay(b) \/ GiveUp(b) \/ \E t \in Transfer : Hold(b, t)

Spec == Init /\ [][Next]_vars
=============================================================================
