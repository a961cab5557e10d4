------------------------------ MODULE SingleUse ------------------------------
(***************************************************************************)
(* What a one-time credential promises, whatever it is (a mailed link, an  *)
(* exchange code, a second-factor token, a backup code): it is offered,    *)
(* and it takes effect at most once.  One use may take several credentials *)
(* at once.                                                                *)
(***************************************************************************)
EXTENDS Naturals, FiniteSets

CONSTANT Credential  \* every credential there can be

VARIABLES
  offered,  \* those handed out so far
  spent,    \* those that have taken effect
  uses      \* how many times any has, one by one

Init ==
  /\ offered = {}
  /\ spent = {}
  /\ uses = 0

Offer(C) ==
  /\ offered' = offered \cup C
  /\ UNCHANGED <<spent, uses>>

Use(C) ==
  /\ C \subseteq offered \ spent
  /\ spent' = spent \cup C
  /\ uses' = uses + Cardinality(C)
  /\ UNCHANGED offered

Next ==
  \/ \E c \in Credential : Offer({c})
  \/ \E C \in SUBSET Credential : Use(C)

Spec == Init /\ [][Next]_<<offered, spent, uses>>
=============================================================================
