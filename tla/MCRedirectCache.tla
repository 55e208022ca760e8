-------------------------- MODULE MCRedirectCache --------------------------
(* Two requests at a time, for TLC; MCRedirects has an instance of three.  *)
EXTENDS RedirectCache

CONSTANTS r1, r2
=============================================================================
