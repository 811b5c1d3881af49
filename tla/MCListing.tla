------------------------------ MODULE MCListing ------------------------------
(* The long histories of MCIntake, listed after every commit.              *)
EXTENDS MCIntake, Listing
=============================================================================
