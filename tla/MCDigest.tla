------------------------------ MODULE MCDigest ------------------------------
(***************************************************************************)
(* Values for the constants of Digest.                                     *)
(***************************************************************************)
EXTENDS Digest

MCPayloads == {"credit", "debit"}
MCRaws     == {"xdr", "json"}
MCOneRaw   == {"xdr"}
=============================================================================
