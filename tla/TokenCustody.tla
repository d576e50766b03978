---------------------------- MODULE TokenCustody ----------------------------
(***************************************************************************)
(* What the token manager promises of one user's chain of Airtable refresh *)
(* tokens, whatever its callers do: the good token is in the database, or  *)
(* in the hands of the one refresh that will put it there; it is lost, and *)
(* a token is presented again, only after a refresh was cut short; and who *)
(* is told to connect again has a dead chain, and stays told.              *)
(*                                                                         *)
(* TokenManager.tla implements this specification; the mapping is there.   *)
(***************************************************************************)

VARIABLES
  kept,   \* where the good token is: "stored", "held" or "lost"
  chain,  \* "no", or who had it revoked: the "user", a "reuse"
  told,   \* the user is told to connect again
  cut     \* a refresh that had begun was cut short

custodyVars == <<kept, chain, told, cut>>

CustodyInit == kept = "stored" /\ chain = "no" /\ told = FALSE /\ cut = FALSE

(* Airtable rotates the stored token and a refresh holds the new one. *)
Take ==
  /\ kept = "stored" /\ chain = "no"
  /\ kept' = "held"
  /\ UNCHANGED <<chain, told, cut>>

(* The refresh stores what it holds. *)
Store ==
  /\ kept = "held"
  /\ kept' = "stored"
  /\ UNCHANGED <<chain, told, cut>>

(* A reply of Airtable does not arrive, or the new token is not stored. *)
Lose ==
  /\ kept = "held" \/ (kept = "stored" /\ chain = "no")
  /\ kept' = "lost" /\ cut' = TRUE
  /\ UNCHANGED <<chain, told>>

(* A refresh is cut short and nothing is lost yet. *)
CutShort ==
  /\ cut' = TRUE
  /\ UNCHANGED <<kept, chain, told>>

(* The user takes the access away at Airtable. *)
TakeAway ==
  /\ chain = "no" /\ chain' = "user"
  /\ UNCHANGED <<kept, told, cut>>

(* A token that is not the good one any more is presented. *)
PresentAgain ==
  /\ cut
  /\ chain = "no" /\ chain' = "reuse"
  /\ UNCHANGED <<kept, told, cut>>

Tell ==
  /\ chain # "no"
  /\ told' = TRUE
  /\ UNCHANGED <<kept, chain, cut>>

CustodyNext ==
  Take \/ Store \/ Lose \/ CutShort \/ TakeAway \/ PresentAgain \/ Tell

CustodySpec == CustodyInit /\ [][CustodyNext]_custodyVars
=============================================================================
