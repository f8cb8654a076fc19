----------------------------- MODULE DownloadSlot -----------------------------
(***************************************************************************)
(* What the model download manager promises of its registry: every model has *)
(* one slot, the last request for it holds the slot, a request that lost it  *)
(* to a later one or to a cancel is called off, and only the holder gives    *)
(* the slot back when it is through.  ModelDownloader is shown to implement  *)
(* this.                                                                     *)
(***************************************************************************)
EXTENDS Naturals

CONSTANTS
    Models,  \* download keys
    MaxGen   \* how many requests there may be (a bound)

Gens == 1 .. MaxGen

VARIABLES
    slot,    \* the request that holds the slot of a model, or 0
    fate     \* what became of every request

svars == <<slot, fate>>

Init ==
    /\ slot = [m \in Models |-> 0]
    /\ fate = [g \in Gens |-> "unborn"]

\* A request takes the slot; whoever held it is called off.
Claim(m, g) ==
    /\ fate[g] = "unborn"
    /\ slot' = [slot EXCEPT ![m] = g]
    /\ fate' = [h \in Gens |-> IF h = g THEN "live"
                               ELSE IF h = slot[m] THEN "off" ELSE fate[h]]

\* A cancel empties the slot and calls the holder off.
Cancel(m) ==
    /\ slot[m] # 0
    /\ slot' = [slot EXCEPT ![m] = 0]
    /\ fate' = [fate EXCEPT ![slot[m]] = "off"]

\* The holder is through, well or badly, and gives the slot back.
Finish(m) ==
    /\ slot[m] # 0
    /\ slot' = [slot EXCEPT ![m] = 0]
    /\ fate' = [fate EXCEPT ![slot[m]] = "over"]

\* A request that was called off comes to its end; the slot is not its business.
Expire(g) ==
    /\ fate[g] = "off"
    /\ fate' = [fate EXCEPT ![g] = "over"]
    /\ UNCHANGED slot

Next ==
    \/ \E m \in Models : Cancel(m) \/ Finish(m) \/ \E g \in Gens : Claim(m, g)
    \/ \E g \in Gens : Expire(g)

Spec == Init /\ [][Next]_svars
=============================================================================
