--------------------------- MODULE MCDeployment ---------------------------
(* A small installation: two core files of which the first cannot be run   *)
(* twice, one Supabase file and one RLS file; two processes.               *)
EXTENDS Deployment

CONSTANTS p1, p2, f1, f2, f3, f4, ann, bob, primary, acme, none

MCCore     == <<f1, f2>>
MCSupabase == <<f3>>
MCRLS      == <<f4>>
MCIdempotent == {f2, f3, f4}
MCConfigs  == {<<"local", FALSE>>, <<"supabase", TRUE>>}
MCNeeds    == {f1, f2}
=============================================================================
