----------------------------- MODULE TokenChain -----------------------------
(***************************************************************************)
(* What the OAuth server promises of one login: it is asked for once, and  *)
(* leads to one code, which is redeemed once; then each refresh token is   *)
(* redeemed once, for the next pair.  The pairs of a login are issued in   *)
(* order, none twice, and a chain that has ended never goes on.            *)
(*                                                                         *)
(* McpOAuth.tla implements this specification; the mapping is there.       *)
(***************************************************************************)
EXTENDS Naturals

CONSTANTS Logins, MaxPairs

VARIABLES
  stage,  \* stage[l]: where the chain of login l is
  issued  \* the pairs whose access token has been stored

chainVars == <<stage, issued>>

Stages == {"new", "asked", "coded", "redeemed", "issued", "kept", "over"}

ChainInit == stage = [l \in Logins |-> "new"] /\ issued = {}

Move(l, from, to) == stage[l] = from /\ stage' = [stage EXCEPT ![l] = to]

(* A client sends the user to Airtable. *)
Ask(l) == Move(l, "new", "asked") /\ UNCHANGED issued

(* The user has agreed. *)
Code(l) == Move(l, "asked", "coded") /\ UNCHANGED issued

(* The code, or the refresh token of the last pair, is redeemed. *)
Redeem(l) ==
  /\ Move(l, "coded", "redeemed") \/ Move(l, "kept", "redeemed")
  /\ UNCHANGED issued

(* Pair n is the next one.  What fails afterwards ends the chain. *)
Issue(l, n) ==
  /\ Move(l, "redeemed", "issued") \/ Move(l, "redeemed", "over")
  /\ \A m \in 1..MaxPairs : <<l, m>> \in issued <=> m < n
  /\ issued' = issued \cup {<<l, n>>}

(* Its refresh token is stored. *)
Keep(l) == Move(l, "issued", "kept") /\ UNCHANGED issued

(* Chains end: an error, a wrong client, an expiry, a restart. *)
End ==
  /\ UNCHANGED issued
  /\ stage' \in [Logins -> Stages]
  /\ \A l \in Logins : stage'[l] = stage[l] \/ (stage[l] # "new" /\ stage'[l] = "over")

ChainNext ==
  \/ End
  \/ \E l \in Logins :
       \/ Ask(l) \/ Code(l) \/ Redeem(l) \/ Keep(l)
       \/ \E n \in 1..MaxPairs : Issue(l, n)

ChainSpec == ChainInit /\ [][ChainNext]_chainVars
=============================================================================
