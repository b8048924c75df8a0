----------------------------- MODULE MCListing ------------------------------
(* Instances of Listing for TLC: up to four devices on pages of two, so    *)
(* that accounts of none, one, two full pages and a page and a half occur. *)
EXTENDS Listing
=============================================================================
