-------------------------- MODULE MCAirtableClient --------------------------
(***************************************************************************)
(* Instances of AirtableClient for TLC.                                    *)
(***************************************************************************)
EXTENDS AirtableClient, TLC

CONSTANTS k1, k2, u1, b1
=============================================================================
