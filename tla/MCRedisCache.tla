---------------------------- MODULE MCRedisCache ----------------------------
(***************************************************************************)
(* Values for the constants of RedisCache.                                 *)
(***************************************************************************)
EXTENDS RedisCache

MCFour  == {"get1", "set1", "get2", "ping"}
=============================================================================
