----------------------------- MODULE CacheTimes -----------------------------
(***************************************************************************)
(* The durations that the configuration cache and the loop that refreshes  *)
(* it have in common (auth/oidc/cache.go, discovery.go).                   *)
(***************************************************************************)

CONSTANTS
    MaxAge,       \* NewConfigurationCache(maxAge)
    FetchTimeout  \* discoveryTimeout, for both fetches of Discover together
=============================================================================
