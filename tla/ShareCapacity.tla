---------------------------- MODULE ShareCapacity ----------------------------
(***************************************************************************)
(* What the campaign of apps/madadkar promises about its shares, with no   *)
(* counters, payments, requests or sweeps: a holder (a participation or an *)
(* external funding) takes some shares once, if they are free, and may     *)
(* give them all back once.                                                *)
(***************************************************************************)
EXTENDS Naturals, FiniteSets

CONSTANTS Holders, Total

VARIABLES phase,  \* "new", "holding" or "gone"
          taken   \* shares the holder has taken

holderVars == <<phase, taken>>

TakenShares ==
  {u \in Holders \X (1..Total) :
     phase[u[1]] = "holding" /\ u[2] <= taken[u[1]]}

HoldersInit ==
  /\ phase = [h \in Holders |-> "new"]
  /\ taken = [h \in Holders |-> 0]

Take(h, n) ==
  /\ phase[h] = "new"
  /\ Cardinality(TakenShares) + n <= Total
  /\ phase' = [phase EXCEPT ![h] = "holding"]
  /\ taken' = [taken EXCEPT ![h] = n]

GiveBack(h) ==
  /\ phase[h] = "holding"
  /\ phase' = [phase EXCEPT ![h] = "gone"]
  /\ UNCHANGED taken

HoldersNext ==
  \E h \in Holders : GiveBack(h) \/ \E n \in 1..Total : Take(h, n)

HoldersSpec == HoldersInit /\ [][HoldersNext]_holderVars

=============================================================================
