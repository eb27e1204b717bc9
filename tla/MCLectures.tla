----------------------------- MODULE MCLectures -----------------------------
(***************************************************************************)
(* An instance of Lectures for TLC.                                        *)
(***************************************************************************)
EXTENDS Lectures
=============================================================================
