------------------------------ MODULE MCSiteCache ------------------------------
(***************************************************************************)
(* Instances of SiteCache.                                                 *)
(***************************************************************************)
EXTENDS SiteCache, TLC

CONSTANTS v1, a1, a2

\* A visitor, an admin who makes every change but one, and one who meanwhile
\* brings back an earlier revision of the item.
Site == (v1 :> {View}) @@ (a1 :> (Change \ {"restore"})) @@ (a2 :> {"restore"})

===============================================================================
